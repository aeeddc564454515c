------------------------- MODULE EncryptedStream_proof -------------------------
(***************************************************************************)
(* Proofs about EncryptedStream for every size of header, tag, padding,    *)
(* limit, packet and transport, and about the words of its nonces in       *)
(* NonceWords.                                                             *)
(***************************************************************************)
EXTENDS NonceWords, SequenceTheorems, FiniteSetTheorems, WellFoundedInduction, TLAPS

-----------------------------------------------------------------------------
(* Lemmas about consecutive positions and about the sizes of a frame.      *)

(* Run(a, n) is the sequence a + 1, ..., a + n. *)
LEMMA RunFacts ==
    \A a, n \in Nat :
        /\ Run(a, n) \in Seq(Nat)
        /\ Len(Run(a, n)) = n
        /\ \A i \in 1..n : Run(a, n)[i] = a + i
    BY DEF Run

(* Concatenation and pieces of sequences of positions, index by index. *)
LEMMA ConcatFacts ==
    ASSUME NEW s \in Seq(Nat), NEW t \in Seq(Nat)
    PROVE  /\ s \o t \in Seq(Nat)
           /\ Len(s \o t) = Len(s) + Len(t)
           /\ \A i \in 1..Len(s) : (s \o t)[i] = s[i]
           /\ \A i \in 1..Len(t) : (s \o t)[Len(s) + i] = t[i]
<1>1. /\ s \o t \in Seq(Nat)
      /\ Len(s \o t) = Len(s) + Len(t)
      /\ \A i \in 1..(Len(s) + Len(t)) : (s \o t)[i] = IF i <= Len(s) THEN s[i] ELSE t[i - Len(s)]
    BY ConcatProperties, Zenon
<1>2. Len(s) \in Nat /\ Len(t) \in Nat
    OBVIOUS
<1>. QED  BY <1>1, <1>2

(* A sequence of consecutive positions is a run. *)
LEMMA IsRun ==
    ASSUME NEW a \in Nat, NEW s \in Seq(Nat), \A i \in 1..Len(s) : s[i] = a + i
    PROVE  s = Run(a, Len(s))
<1>1. Len(s) \in Nat
    OBVIOUS
<1>2. /\ Run(a, Len(s)) \in Seq(Nat) /\ Len(Run(a, Len(s))) = Len(s)
      /\ \A i \in 1..Len(s) : Run(a, Len(s))[i] = a + i
    BY <1>1, RunFacts
<1>. QED  BY <1>2, SeqEqual

(* So is one whose two pieces are consecutive positions that meet. *)
LEMMA IsRunByParts ==
    ASSUME NEW a \in Nat, NEW m \in Nat, NEW n \in Nat, NEW s \in Seq(Nat),
           Len(s) = m + n,
           \A i \in 1..m : s[i] = a + i,
           \A i \in 1..n : s[m + i] = a + m + i
    PROVE  s = Run(a, m + n)
<1>1. ASSUME NEW i \in 1..Len(s) PROVE s[i] = a + i
    <2>1. CASE i <= m
        BY <2>1
    <2>2. CASE i > m
        <3>1. PICK j \in 1..n : i = m + j
            <4>1. i - m \in 1..n /\ i = m + (i - m)
                BY <2>2
            <4>. QED  BY <4>1
        <3>2. s[m + j] = a + m + j
            OBVIOUS
        <3>. QED  BY <3>1, <3>2
    <2>. QED  BY <2>1, <2>2
<1>. QED  BY <1>1, IsRun

(* Two runs that meet are one run; stated also with the sums and the       *)
(* concatenation under a name.                                             *)
Joined(s, t) == s \o t
LEMMA RunJoined ==
    ASSUME NEW a \in Nat, NEW m \in Nat, NEW n \in Nat
    PROVE  Joined(Run(a, m), Run(a + m, n)) = Run(a, m + n)
<1> DEFINE s == Run(a, m) \o Run(a + m, n)
<1>1. a + m \in Nat
    OBVIOUS
<1>2. Run(a, m) \in Seq(Nat) /\ Len(Run(a, m)) = m /\ \A i \in 1..m : Run(a, m)[i] = a + i
    BY RunFacts
<1>3. /\ Run(a + m, n) \in Seq(Nat) /\ Len(Run(a + m, n)) = n
      /\ \A i \in 1..n : Run(a + m, n)[i] = (a + m) + i
    BY <1>1, RunFacts
<1>4. /\ s \in Seq(Nat) /\ Len(s) = Len(Run(a, m)) + Len(Run(a + m, n))
      /\ \A i \in 1..Len(Run(a, m)) : s[i] = Run(a, m)[i]
      /\ \A i \in 1..Len(Run(a + m, n)) : s[Len(Run(a, m)) + i] = Run(a + m, n)[i]
    BY <1>2, <1>3, ConcatFacts
<1> HIDE DEF s
<1>5. /\ Len(s) = m + n
      /\ \A i \in 1..m : s[i] = a + i
      /\ \A i \in 1..n : s[m + i] = a + m + i
    BY <1>2, <1>3, <1>4
<1>6. s = Run(a, m + n)
    BY <1>4, <1>5, IsRunByParts
<1>. QED  BY <1>6 DEF s, Joined

LEMMA RunConcat ==
    ASSUME NEW a \in Nat, NEW m \in Nat, NEW n \in Nat
    PROVE  Run(a, m) \o Run(a + m, n) = Run(a, m + n)
<1>1. Joined(Run(a, m), Run(a + m, n)) = Run(a, m + n)
    BY RunJoined
<1>. QED  BY <1>1 DEF Joined

LEMMA RunJoin ==
    ASSUME NEW a \in Nat, NEW m \in Nat, NEW b \in Nat, NEW n \in Nat, NEW t \in Nat,
           b = a + m, t = m + n
    PROVE  Joined(Run(a, m), Run(b, n)) = Run(a, t)
BY RunJoined

(* The run of no position is empty, and a run that is not tells its start. *)
LEMMA RunStart ==
    /\ \A a \in Nat : Run(a, 0) = <<>>
    /\ \A a, b, n \in Nat : n > 0 /\ Run(a, n) = Run(b, n) => a = b
<1>1. \A a \in Nat : Run(a, 0) = <<>>
    <2>1. \A a \in Nat : Run(a, 0) \in Seq(Nat) /\ Len(Run(a, 0)) = 0
        BY RunFacts
    <2>. QED  BY <2>1
<1>2. \A a, b, n \in Nat : n > 0 /\ Run(a, n) = Run(b, n) => a = b
    <2> SUFFICES ASSUME NEW a \in Nat, NEW b \in Nat, NEW n \in Nat,
                        n > 0, Run(a, n) = Run(b, n)
                 PROVE  a = b
        OBVIOUS
    <2>1. 1 \in 1..n
        OBVIOUS
    <2>2. Run(a, n)[1] = a + 1 /\ Run(b, n)[1] = b + 1
        BY <2>1, RunFacts
    <2>. QED  BY <2>2
<1>. QED  BY <1>1, <1>2

(* A piece of a run is a run. *)
LEMMA RunSub ==
    ASSUME NEW a \in Nat, NEW n \in Nat, NEW i \in 0..n, NEW j \in i..n
    PROVE  SubSeq(Run(a, n), i + 1, j) = Run(a + i, j - i)
<1>1. /\ Run(a, n) \in Seq(Nat) /\ Len(Run(a, n)) = n
      /\ \A k \in 1..n : Run(a, n)[k] = a + k
    BY RunFacts
<1>2. a + i \in Nat /\ j - i \in Nat
    OBVIOUS
<1>3. /\ Run(a + i, j - i) \in Seq(Nat) /\ Len(Run(a + i, j - i)) = j - i
      /\ \A k \in 1..(j - i) : Run(a + i, j - i)[k] = a + i + k
    BY <1>2, RunFacts
<1>4. /\ SubSeq(Run(a, n), i + 1, j) \in Seq(Nat)
      /\ Len(SubSeq(Run(a, n), i + 1, j)) = j - i
    BY <1>1
<1>5. \A k \in 1..(j - i) : SubSeq(Run(a, n), i + 1, j)[k] = Run(a + i, j - i)[k]
    BY <1>1, <1>3
<1>. QED  BY <1>3, <1>4, <1>5, SeqEqual

(* A piece of a sequence of positions, index by index. *)
LEMMA PieceFacts ==
    ASSUME NEW s \in Seq(Nat), NEW i \in 0..Len(s), NEW j \in i..Len(s)
    PROVE  /\ SubSeq(s, i + 1, j) \in Seq(Nat)
           /\ Len(SubSeq(s, i + 1, j)) = j - i
    OBVIOUS

(* Sizes on the wire are natural numbers, and no header is empty. *)
LEMMA SizeFacts ==
    /\ \A e \in BOOLEAN : HeaderLen(e) \in Nat \ {0} /\ Tag(e) \in Nat
    /\ \A f \in Frame : WireLen(f) \in Nat /\ DataStart(f) \in Nat
    /\ \A f \in Frame : AfterHeader(f.nonce, f.enc, f.pad) \in Nat /\ AfterFrame(f) \in Nat
    /\ \A c \in Nat : Encrypted(c) \in BOOLEAN
    /\ \A len \in Nat : Paddings(len) \subseteq 0..PadMax
<1>1. \A e \in BOOLEAN : HeaderLen(e) \in Nat \ {0} /\ Tag(e) \in Nat
    BY StreamAssumption DEF HeaderLen, Tag
<1>2. \A f \in Frame : WireLen(f) \in Nat /\ DataStart(f) \in Nat
    BY <1>1 DEF WireLen, DataStart, Frame
<1>3. \A f \in Frame : AfterHeader(f.nonce, f.enc, f.pad) \in Nat /\ AfterFrame(f) \in Nat
    BY DEF AfterFrame, AfterHeader, AfterData, HeaderInc, Greater, Frame
<1>4. \A c \in Nat : Encrypted(c) \in BOOLEAN
    BY DEF Encrypted
<1>5. \A len \in Nat : Paddings(len) \subseteq 0..PadMax
    BY StreamAssumption DEF Paddings, Lesser
<1>. QED  BY <1>1, <1>2, <1>3, <1>4, <1>5

-----------------------------------------------------------------------------
(* Type correctness, one lemma per group of actions.                       *)

LEMMA WriteBufferType ==
    ASSUME TypeOK, NEW n \in 0..Unsent, Accepts(n), PollWriteBuffer(n)
    PROVE  /\ write_buffer' \in Seq(Nat) /\ write_pos' \in 0..Len(write_buffer')
           /\ pipe' \in Seq(Nat) /\ Len(pipe') <= PipeCap
<1> DEFINE piece == SubSeq(write_buffer, write_pos + 1, write_pos + n)
<1>1. write_buffer \in Seq(Nat) /\ write_pos \in 0..Len(write_buffer)
    BY DEF TypeOK
<1>2. n \in Nat /\ write_pos + n \in write_pos..Len(write_buffer)
    BY <1>1 DEF Unsent
<1>3. piece \in Seq(Nat) /\ Len(piece) = n
    <2>1. piece \in Seq(Nat) /\ Len(piece) = (write_pos + n) - write_pos
        BY <1>1, <1>2, PieceFacts
    <2>. QED  BY <2>1, <1>1, <1>2
<1>4. pipe' \in Seq(Nat) /\ Len(pipe') = Len(pipe) + n
    <2>1. pipe' = pipe \o piece
        BY DEF PollWriteBuffer
    <2>. HIDE DEF piece
    <2>. QED  BY <2>1, <1>3, ConcatFacts DEF TypeOK
<1>5. Len(pipe') <= PipeCap
    BY <1>2, <1>4, StreamAssumption DEF Accepts, Room, TypeOK
<1>6. write_buffer' \in Seq(Nat) /\ write_pos' \in 0..Len(write_buffer')
    <2>1. \/ write_buffer' = <<>> /\ write_pos' = 0
          \/ write_buffer' = write_buffer /\ write_pos' = write_pos + n
        BY DEF PollWriteBuffer
    <2>2. CASE write_buffer' = <<>> /\ write_pos' = 0
        BY <2>2
    <2>3. CASE write_buffer' = write_buffer /\ write_pos' = write_pos + n
        BY <1>1, <1>2, <2>3
    <2>. QED  BY <2>1, <2>2, <2>3
<1>. QED  BY <1>4, <1>5, <1>6

LEMMA PollWriteType ==
    ASSUME TypeOK, NEW want \in 1..(MaxPacket + 1), NEW pad \in 0..PadMax,
           NEW k \in 0..PipeCap, PollWrite(want, pad, k)
    PROVE  TypeOK'
<1> DEFINE len == Lesser(want, MaxPacket)
           f == NewFrame(len, pad)
           frame == Run(f.start, WireLen(f))
           old == SubSeq(write_buffer, write_pos + 1, Len(write_buffer))
           new == SubSeq(frame, 1, k)
<1>1. len \in 1..MaxPacket /\ written + len \in 0..MaxBytes
    <2>1. MaxPacket \in Nat /\ MaxPacket > 0 /\ MaxBytes \in Nat /\ written \in Nat
        BY StreamAssumption DEF TypeOK
    <2>2. written + len <= MaxBytes
        BY DEF PollWrite
    <2>3. len \in 1..MaxPacket
        BY <2>1 DEF Lesser
    <2>. HIDE DEF len
    <2>. QED  BY <2>1, <2>2, <2>3
<1>2. f \in Frame
    BY <1>1, SizeFacts DEF NewFrame, Frame, TypeOK
<1>3. WireLen(f) \in Nat /\ AfterFrame(f) \in Nat /\ f.start = wired /\ wired \in Nat
    <2>1. WireLen(f) \in Nat /\ AfterFrame(f) \in Nat
        BY <1>2, SizeFacts
    <2>. QED  BY <2>1 DEF NewFrame, TypeOK
<1>4. frame \in Seq(Nat) /\ Len(frame) = WireLen(f) /\ k \in 0..WireLen(f)
    BY <1>3, RunFacts DEF PollWrite
<1>5. new \in Seq(Nat) /\ Len(new) = k
    <2>1. SubSeq(frame, 0 + 1, k) \in Seq(Nat) /\ Len(SubSeq(frame, 0 + 1, k)) = k - 0
        BY <1>3, <1>4, PieceFacts
    <2>. QED  BY <2>1
<1>6. old \in Seq(Nat) /\ Len(old) = Unsent /\ Unsent \in Nat
    BY PieceFacts DEF TypeOK, Unsent
<1>7. /\ Assemble(f, k) /\ Accepts(Unsent + k) /\ frames' = Append(frames, f)
      /\ wired' = wired + WireLen(f) /\ written' = written + len /\ write_nonce' = AfterFrame(f)
      /\ UNCHANGED <<writer, fin, readVars>>
    BY DEF PollWrite
<1> HIDE DEF len, f, old, new
<1>8. pipe' \in Seq(Nat) /\ Len(pipe') = Len(pipe) + Unsent + k
    <2>1. pipe' = (pipe \o old) \o new
        BY <1>7 DEF Assemble, old, new
    <2>2. pipe \o old \in Seq(Nat) /\ Len(pipe \o old) = Len(pipe) + Unsent
        BY <1>6, ConcatFacts DEF TypeOK
    <2>. QED  BY <2>1, <2>2, <1>5, ConcatFacts
<1>9. Len(pipe') <= PipeCap
    BY <1>6, <1>7, <1>8, StreamAssumption DEF Accepts, Room, TypeOK
<1>10. write_buffer' \in Seq(Nat) /\ write_pos' \in 0..Len(write_buffer')
    <2>1. \/ write_buffer' = <<>> /\ write_pos' = 0
          \/ write_buffer' = frame /\ write_pos' = k
        BY <1>7 DEF Assemble
    <2>2. CASE write_buffer' = <<>> /\ write_pos' = 0
        BY <2>2
    <2>3. CASE write_buffer' = frame /\ write_pos' = k
        BY <1>4, <2>3
    <2>. QED  BY <2>1, <2>2, <2>3
<1>11. frames' \in Seq(Frame) /\ wired' \in Nat /\ written' \in 0..MaxBytes /\ write_nonce' \in Nat
    <2>1. frames \in Seq(Frame)
        BY DEF TypeOK
    <2>2. frames' \in Seq(Frame)
        BY <1>2, <1>7, <2>1
    <2>3. wired' \in Nat
        BY <1>3, <1>7
    <2>. QED  BY <1>1, <1>3, <1>7, <2>2, <2>3
<1>. QED  BY <1>7, <1>8, <1>9, <1>10, <1>11 DEF TypeOK, readVars

LEMMA FrameAt ==
    ASSUME TypeOK
    PROVE  /\ DOMAIN frames = 1..Len(frames) /\ Len(frames) \in Nat
           /\ \A k \in DOMAIN frames : frames[k] \in Frame
<1>1. frames \in Seq(Frame)
    BY DEF TypeOK
<1>. QED  BY <1>1

(* What poll_read_exact leaves behind. *)
LEMMA FillFacts ==
    ASSUME TypeOK, NEW n \in 0..PipeCap, Fill(n)
    PROVE  /\ n \in 0..Len(pipe) /\ Len(pipe) \in Nat
           /\ pipe' \in Seq(Nat) /\ Len(pipe') = Len(pipe) - n /\ Len(pipe') <= PipeCap
           /\ Filled(n) \in Seq(Nat) /\ Len(Filled(n)) = Len(read_buffer) + n
<1> DEFINE head == SubSeq(pipe, 1, n)
<1>1. pipe \in Seq(Nat) /\ n \in 0..Len(pipe) /\ Len(pipe) \in Nat
    BY DEF TypeOK, Fill
<1>2. pipe' \in Seq(Nat) /\ Len(pipe') = Len(pipe) - n
    <2>1. pipe' = SubSeq(pipe, n + 1, Len(pipe))
        BY DEF Fill
    <2>. QED  BY <1>1, <2>1, PieceFacts
<1>3. Len(pipe') <= PipeCap
    BY <1>1, <1>2, StreamAssumption DEF TypeOK
<1>4. head \in Seq(Nat) /\ Len(head) = n
    <2>1. SubSeq(pipe, 0 + 1, n) \in Seq(Nat) /\ Len(SubSeq(pipe, 0 + 1, n)) = n - 0
        BY <1>1, PieceFacts
    <2>. QED  BY <2>1
<1>5. Filled(n) = read_buffer \o head /\ read_buffer \in Seq(Nat)
    BY DEF Filled, TypeOK
<1> HIDE DEF head
<1>6. Filled(n) \in Seq(Nat) /\ Len(Filled(n)) = Len(read_buffer) + n
    BY <1>4, <1>5, ConcatFacts
<1>. QED  BY <1>1, <1>2, <1>3, <1>6

(* What poll_read leaves behind when it hands out m bytes. *)
LEMMA HandOutType ==
    ASSUME TypeOK, NEW plain \in Seq(Nat), NEW pos \in 0..Len(plain), NEW m \in Nat,
           pos + m <= Len(plain), HandOut(plain, pos, m)
    PROVE  /\ delivered' \in Seq(Nat) /\ read_buffer' \in Seq(Nat)
           /\ read_state' \in [at : {"Header", "Padding", "Data", "Ready"},
                                pad : 0..PadMax, size : 0..MaxPacket, pos : Nat]
<1> DEFINE piece == SubSeq(plain, pos + 1, pos + m)
<1>1. pos + m \in pos..Len(plain)
    OBVIOUS
<1>2. piece \in Seq(Nat)
    BY <1>1, PieceFacts
<1>3. delivered' = delivered \o piece /\ delivered \in Seq(Nat)
    BY DEF HandOut, TypeOK
<1> HIDE DEF piece
<1>4. delivered' \in Seq(Nat)
    BY <1>2, <1>3, ConcatFacts
<1>5. \/ read_buffer' = <<>> /\ read_state' = AtHeader
      \/ read_buffer' = plain /\ read_state' = AtReady(pos + m)
    BY DEF HandOut
<1>6. read_buffer' \in Seq(Nat)
    <2>1. CASE read_buffer' = plain
        BY <2>1
    <2>2. CASE read_buffer' = <<>>
        BY <2>2
    <2>. QED  BY <1>5, <2>1, <2>2
<1>7. AtHeader \in [at : {"Header", "Padding", "Data", "Ready"},
                    pad : 0..PadMax, size : 0..MaxPacket, pos : Nat]
    BY StreamAssumption DEF AtHeader
<1>8. AtReady(pos + m) \in [at : {"Header", "Padding", "Data", "Ready"},
                            pad : 0..PadMax, size : 0..MaxPacket, pos : Nat]
    BY StreamAssumption DEF AtReady
<1>. QED  BY <1>4, <1>5, <1>6, <1>7, <1>8

LEMMA PlainType ==
    ASSUME TypeOK, NEW buf \in Seq(Nat)
    PROVE  Plain(buf) \in Seq(Nat)
<1>1. CASE DataIn(buf) = {}
    BY <1>1 DEF Plain
<1>2. CASE DataIn(buf) # {}
    <2> DEFINE k == CHOOSE x \in DataIn(buf) : TRUE
    <2>1. k \in DOMAIN frames
        BY <1>2 DEF DataIn
    <2>2. frames[k].off \in Nat /\ frames[k].size \in Nat
        BY <2>1, FrameAt DEF Frame
    <2>3. Plain(buf) = Run(frames[k].off, frames[k].size)
        BY <1>2 DEF Plain
    <2> HIDE DEF k
    <2>. QED  BY <2>2, <2>3, RunFacts
<1>. QED  BY <1>1, <1>2

LEMMA ReadHeaderType ==
    ASSUME TypeOK, NEW n \in 0..PipeCap, ReadHeader(n)
    PROVE  TypeOK'
<1>1. /\ pipe' \in Seq(Nat) /\ Len(pipe') <= PipeCap /\ Filled(n) \in Seq(Nat)
    BY FillFacts DEF ReadHeader
<1>2. UNCHANGED <<writeVars, fin, readed, delivered>>
    BY DEF ReadHeader
<1>3. CASE Len(Filled(n)) < PartLen
    <2>1. read_buffer' = Filled(n) /\ UNCHANGED <<read_state, read_nonce, decoded, reader>>
        BY <1>3 DEF ReadHeader
    <2>. QED  BY <1>1, <1>2, <2>1 DEF TypeOK, writeVars
<1>4. CASE ~(Len(Filled(n)) < PartLen)
    <2>1. read_buffer' = <<>> /\ decoded' = decoded + 1
        BY <1>4 DEF ReadHeader
    <2>2. CASE HeaderValues(Filled(n)) = {}
        <3>1. reader' = "invalid" /\ UNCHANGED <<read_state, read_nonce>>
            BY <1>4, <2>2 DEF ReadHeader
        <3>. QED  BY <1>1, <1>2, <2>1, <3>1 DEF TypeOK, writeVars
    <2>3. CASE HeaderValues(Filled(n)) # {}
        <3>1. PICK h \in HeaderValues(Filled(n)) :
                /\ read_state' = IF PadNeeded THEN AtPadding(h.pad, h.size) ELSE AtData(h.size)
                /\ read_nonce' = AfterHeader(read_nonce, Encrypted(readed), h.pad)
                /\ reader' = reader
            BY <1>4, <2>3 DEF ReadHeader
        <3>2. h.pad \in 0..PadMax /\ h.size \in 1..MaxPacket
            <4>1. \A k \in DOMAIN frames :
                    frames[k].pad \in 0..PadMax /\ frames[k].size \in 1..MaxPacket
                BY FrameAt DEF Frame
            <4>2. HeadersIn(Filled(n)) \subseteq DOMAIN frames
                BY DEF HeadersIn
            <4>. QED  BY <4>1, <4>2 DEF HeaderValues
        <3>3. read_state' \in [at : {"Header", "Padding", "Data", "Ready"},
                               pad : 0..PadMax, size : 0..MaxPacket, pos : Nat]
            BY <3>1, <3>2, StreamAssumption DEF AtPadding, AtData
        <3>4. read_nonce' \in Nat
            <4>1. read_nonce \in Nat
                BY DEF TypeOK
            <4>2. \A b \in BOOLEAN : AfterHeader(read_nonce, b, h.pad) \in Nat
                BY <3>2, <4>1 DEF AfterHeader, HeaderInc, Greater
            <4>3. Encrypted(readed) \in BOOLEAN
                BY DEF Encrypted
            <4>. QED  BY <3>1, <4>2, <4>3
        <3>. QED  BY <1>1, <1>2, <2>1, <3>1, <3>3, <3>4 DEF TypeOK, writeVars
    <2>. QED  BY <2>2, <2>3
<1>. QED  BY <1>3, <1>4

LEMMA ReadPaddingType ==
    ASSUME TypeOK, NEW n \in 0..PipeCap, ReadPadding(n)
    PROVE  TypeOK'
<1>1. /\ pipe' \in Seq(Nat) /\ Len(pipe') <= PipeCap /\ Filled(n) \in Seq(Nat)
    BY FillFacts DEF ReadPadding
<1>2. UNCHANGED <<writeVars, fin, readed, read_nonce, decoded, delivered, reader>>
    BY DEF ReadPadding
<1>3. \/ read_buffer' = Filled(n) /\ UNCHANGED read_state
      \/ read_buffer' = <<>> /\ read_state' = AtData(read_state.size)
    BY DEF ReadPadding
<1>4. read_buffer' \in Seq(Nat)
    <2>1. CASE read_buffer' = Filled(n)
        BY <1>1, <2>1
    <2>2. CASE read_buffer' = <<>>
        BY <2>2
    <2>. QED  BY <1>3, <2>1, <2>2
<1>5. read_state' \in [at : {"Header", "Padding", "Data", "Ready"},
                       pad : 0..PadMax, size : 0..MaxPacket, pos : Nat]
    BY <1>3, StreamAssumption DEF AtData, TypeOK
<1>. QED  BY <1>1, <1>2, <1>4, <1>5 DEF TypeOK, writeVars

LEMMA ReadDataType ==
    ASSUME TypeOK, NEW n \in 0..PipeCap, NEW m \in 0..MaxPacket, ReadData(n, m)
    PROVE  TypeOK'
<1> DEFINE buf == Filled(n)
<1>1. /\ pipe' \in Seq(Nat) /\ Len(pipe') <= PipeCap /\ buf \in Seq(Nat)
    BY FillFacts DEF ReadData
<1>2. UNCHANGED <<writeVars, fin, decoded>>
    BY DEF ReadData
<1>3. CASE Len(buf) < PartLen
    <2>1. read_buffer' = buf /\ UNCHANGED <<read_state, readed, read_nonce, delivered, reader>>
        BY <1>3 DEF ReadData
    <2>. QED  BY <1>1, <1>2, <2>1 DEF TypeOK, writeVars
<1>4. CASE ~(Len(buf) < PartLen) /\ (~Encrypted(readed) \/ DataIn(buf) # {})
    <2>1. /\ m \in 1..Len(Plain(buf)) /\ HandOut(Plain(buf), 0, m)
          /\ readed' = readed + read_state.size
          /\ read_nonce' = AfterData(read_nonce, Encrypted(readed))
          /\ reader' = reader
        BY <1>4 DEF ReadData
    <2>2. Plain(buf) \in Seq(Nat)
        BY <1>1, PlainType
    <2>3. Len(Plain(buf)) \in Nat /\ 0 \in 0..Len(Plain(buf)) /\ m \in Nat /\ 0 + m <= Len(Plain(buf))
        BY <2>1, <2>2
    <2>4. /\ delivered' \in Seq(Nat) /\ read_buffer' \in Seq(Nat)
          /\ read_state' \in [at : {"Header", "Padding", "Data", "Ready"},
                               pad : 0..PadMax, size : 0..MaxPacket, pos : Nat]
        BY <2>1, <2>2, <2>3, HandOutType
    <2>5. readed' \in Nat /\ read_nonce' \in Nat
        <3>1. readed \in Nat /\ read_nonce \in Nat /\ read_state.size \in Nat
            BY StreamAssumption DEF TypeOK
        <3>2. readed + read_state.size \in Nat
            BY <3>1
        <3>3. AfterData(read_nonce, Encrypted(readed)) \in Nat
            BY <3>1 DEF AfterData
        <3>. QED  BY <2>1, <3>2, <3>3
    <2>. QED  BY <1>1, <1>2, <2>1, <2>4, <2>5 DEF TypeOK, writeVars
<1>5. CASE ~(Len(buf) < PartLen) /\ ~(~Encrypted(readed) \/ DataIn(buf) # {})
    <2>1. reader' = "invalid" /\ UNCHANGED <<read_state, read_buffer, readed, read_nonce, delivered>>
        BY <1>5 DEF ReadData
    <2>. QED  BY <1>1, <1>2, <2>1 DEF TypeOK, writeVars
<1>. QED  BY <1>3, <1>4, <1>5

LEMMA ReadReadyType ==
    ASSUME TypeOK, NEW m \in 1..MaxPacket, ReadReady(m)
    PROVE  TypeOK'
<1>1. /\ m \in 1..(Len(read_buffer) - read_state.pos)
      /\ HandOut(read_buffer, read_state.pos, m)
      /\ UNCHANGED <<writeVars, pipe, fin, readed, read_nonce, decoded, reader>>
    BY DEF ReadReady
<1>2. read_buffer \in Seq(Nat) /\ read_state.pos \in Nat
    BY DEF TypeOK
<1>3. /\ Len(read_buffer) \in Nat /\ read_state.pos \in 0..Len(read_buffer) /\ m \in Nat
      /\ read_state.pos + m <= Len(read_buffer)
    BY <1>1, <1>2
<1>4. /\ delivered' \in Seq(Nat) /\ read_buffer' \in Seq(Nat)
      /\ read_state' \in [at : {"Header", "Padding", "Data", "Ready"},
                           pad : 0..PadMax, size : 0..MaxPacket, pos : Nat]
    BY <1>1, <1>2, <1>3, HandOutType
<1>. QED  BY <1>1, <1>4 DEF TypeOK, writeVars

LEMMA TypeOKInit == Init => TypeOK
<1> SUFFICES ASSUME Init PROVE TypeOK
    OBVIOUS
<1>1. frames \in Seq(Frame) /\ write_buffer \in Seq(Nat) /\ pipe \in Seq(Nat)
    BY DEF Init
<1>2. read_buffer \in Seq(Nat) /\ delivered \in Seq(Nat)
    BY DEF Init
<1>3. Len(pipe) <= PipeCap /\ write_pos \in 0..Len(write_buffer)
    BY StreamAssumption DEF Init
<1>4. read_state \in [at : {"Header", "Padding", "Data", "Ready"},
                      pad : 0..PadMax, size : 0..MaxPacket, pos : Nat]
    BY StreamAssumption DEF Init, AtHeader
<1>5. /\ wired \in Nat /\ written \in 0..MaxBytes /\ write_nonce \in Nat
      /\ readed \in Nat /\ read_nonce \in Nat /\ decoded \in Nat
    BY StreamAssumption DEF Init
<1>6. /\ writer \in {"open", "closing", "closed", "dead"} /\ fin \in BOOLEAN
      /\ reader \in {"reading", "eof", "short", "invalid"}
    BY DEF Init
<1>. QED  BY <1>1, <1>2, <1>3, <1>4, <1>5, <1>6 DEF TypeOK

LEMMA TypeOKStep == TypeOK /\ [Next]_vars => TypeOK'
<1> SUFFICES ASSUME TypeOK, [Next]_vars PROVE TypeOK'
    OBVIOUS
<1>1. CASE Write
    BY <1>1, PollWriteType DEF Write
<1>2. CASE FlushSome
    <2>1. PICK n \in 1..PipeCap : Flush(n)
        BY <1>2 DEF FlushSome
    <2>2. n \in 0..Unsent /\ Accepts(n) /\ PollWriteBuffer(n)
        BY <2>1 DEF Flush
    <2>3. /\ write_buffer' \in Seq(Nat) /\ write_pos' \in 0..Len(write_buffer')
          /\ pipe' \in Seq(Nat) /\ Len(pipe') <= PipeCap
        BY <2>2, WriteBufferType
    <2>. QED  BY <2>1, <2>3 DEF Flush, TypeOK, readVars
<1>3. CASE ShutdownSome
    <2>1. PICK n \in 0..PipeCap : Shutdown(n)
        BY <1>3 DEF ShutdownSome
    <2>2. n \in 0..Unsent /\ Accepts(n) /\ PollWriteBuffer(n)
        BY <2>1 DEF Shutdown
    <2>3. /\ write_buffer' \in Seq(Nat) /\ write_pos' \in 0..Len(write_buffer')
          /\ pipe' \in Seq(Nat) /\ Len(pipe') <= PipeCap
        BY <2>2, WriteBufferType
    <2>4. writer' \in {"closing", "closed"} /\ fin' \in BOOLEAN
        BY <2>1 DEF Shutdown
    <2>. QED  BY <2>1, <2>3, <2>4 DEF Shutdown, TypeOK, readVars
<1>4. CASE Die
    BY <1>4 DEF Die, TypeOK, readVars
<1>5. CASE ReadSome
    <2>1. CASE \E n \in 0..PipeCap : ReadHeader(n)
        BY <2>1, ReadHeaderType
    <2>2. CASE \E n \in 0..PipeCap : ReadPadding(n)
        BY <2>2, ReadPaddingType
    <2>3. CASE \E n \in 0..PipeCap, m \in 0..MaxPacket : ReadData(n, m)
        BY <2>3, ReadDataType
    <2>4. CASE \E m \in 1..MaxPacket : ReadReady(m)
        BY <2>4, ReadReadyType
    <2>5. CASE ReadEof
        BY <2>5 DEF ReadEof, TypeOK, writeVars
    <2>. QED  BY <1>5, <2>1, <2>2, <2>3, <2>4, <2>5 DEF ReadSome
<1>6. CASE UNCHANGED vars
    BY <1>6 DEF vars, writeVars, readVars, TypeOK
<1>. QED  BY <1>1, <1>2, <1>3, <1>4, <1>5, <1>6 DEF Next, Ended

(* The fields of the two streams keep their types, and the transport its   *)
(* bound, for every interleaving of polls (stream.rs:90-368).              *)
THEOREM TypeCorrect == Spec => []TypeOK
<1>. QED  BY TypeOKInit, TypeOKStep, PTL DEF Spec

-----------------------------------------------------------------------------
(* The inductive invariant, in named parts.                                *)

(* Where the frame after the first k begins: on the wire, in the plaintext,*)
(* in the sequence of nonces.                                              *)
StartAfter(k) == IF k < Len(frames) THEN frames[k + 1].start ELSE wired
OffAfter(k) == IF k < Len(frames) THEN frames[k + 1].off ELSE written
NonceAfter(k) == IF k < Len(frames) THEN frames[k + 1].nonce ELSE write_nonce

(* Each frame ends where the next one begins. *)
FramesChain ==
    /\ \A k \in DOMAIN frames :
         LET f == frames[k]
         IN  /\ f.enc = Encrypted(f.off)
             /\ f.pad > 0 => PadNeeded
             /\ f.start + WireLen(f) = StartAfter(k)
             /\ f.off + f.size = OffAfter(k)
             /\ AfterFrame(f) = NonceAfter(k)
    /\ \A j, k \in DOMAIN frames :
         j < k => /\ frames[j].start + WireLen(frames[j]) <= frames[k].start
                  /\ frames[j].off + frames[j].size <= frames[k].off
                  /\ AfterFrame(frames[j]) <= frames[k].nonce
    /\ StartAfter(0) = 0 /\ OffAfter(0) = 0 /\ NonceAfter(0) = 0

(* How many bytes the reader took from the transport. *)
Taken == wired - (Len(write_buffer) - write_pos) - Len(pipe)

(* The bytes on their way are the last ones assembled, in order. *)
WireInOrder ==
    /\ Len(write_buffer) <= wired
    /\ write_buffer = Run(wired - Len(write_buffer), Len(write_buffer))
    /\ Taken >= 0
    /\ pipe = Run(Taken, Len(pipe))

(* Where the reader's part begins, on the wire. *)
PartStart ==
    CASE read_state.at = "Header"  -> StartAfter(decoded)
      [] read_state.at = "Padding" -> frames[decoded].start + HeaderLen(frames[decoded].enc)
      [] OTHER                     -> DataStart(frames[decoded])

(* Between frames, the reader is where the writer was. *)
BetweenFrames ==
    /\ readed = OffAfter(decoded)
    /\ read_nonce = NonceAfter(decoded)

(* Inside a frame it knows what the writer knew when it assembled it. *)
InsideFrame ==
    LET f == frames[decoded]
    IN  /\ decoded > 0
        /\ readed = f.off
        /\ read_nonce = AfterHeader(f.nonce, f.enc, f.pad)
        /\ read_state.size = f.size
        /\ read_state.at = "Padding" => read_state.pad = f.pad

ReaderInStep ==
    /\ decoded <= Len(frames)
    /\ read_state.at # "Ready" =>
         /\ Len(read_buffer) <= PartLen
         /\ Taken = PartStart + Len(read_buffer)
         /\ read_buffer = Run(PartStart, Len(read_buffer))
         /\ delivered = Run(0, readed)
    /\ read_state.at = "Header" => BetweenFrames
    /\ read_state.at \in {"Padding", "Data"} => InsideFrame
    /\ read_state.at = "Ready" =>
         /\ BetweenFrames
         /\ Taken = StartAfter(decoded)
         /\ read_state.pos <= Len(read_buffer) /\ Len(read_buffer) <= readed
         /\ read_buffer = Run(readed - Len(read_buffer), Len(read_buffer))
         /\ delivered = Run(0, readed - (Len(read_buffer) - read_state.pos))

(* How the two ends may have ended. *)
EndsInStep ==
    /\ fin <=> writer \in {"closed", "dead"}
    /\ writer = "closed" => write_buffer = <<>>
    /\ reader \in {"eof", "short"} =>
         /\ fin /\ pipe = <<>> /\ read_state.at # "Ready"
         /\ Missing > 0
         /\ reader = "eof" <=> read_buffer = <<>>
    /\ reader # "invalid"

IInv == TypeOK /\ FramesChain /\ WireInOrder /\ ReaderInStep /\ EndsInStep
-----------------------------------------------------------------------------
(* Facts about the chain of frames.                                        *)

LEMMA ChainFacts ==
    ASSUME TypeOK, FramesChain
    PROVE  /\ \A k \in DOMAIN frames :
                 /\ frames[k].start + WireLen(frames[k]) <= wired
                 /\ frames[k].off + frames[k].size <= written
                 /\ AfterFrame(frames[k]) <= write_nonce
           /\ \A k \in 0..Len(frames) :
                 /\ StartAfter(k) \in 0..wired /\ OffAfter(k) \in 0..written /\ NonceAfter(k) \in Nat
                 /\ k = Len(frames) => StartAfter(k) = wired /\ OffAfter(k) = written
<1> DEFINE last == Len(frames)
<1>1. /\ DOMAIN frames = 1..last /\ last \in Nat
      /\ \A k \in 1..last : frames[k] \in Frame
    BY FrameAt
<1>2. wired \in Nat /\ written \in Nat /\ write_nonce \in Nat
    BY DEF TypeOK
<1>3. ASSUME NEW k \in 1..last
      PROVE  /\ frames[k].start \in Nat /\ frames[k].off \in Nat /\ frames[k].nonce \in Nat
             /\ frames[k].size \in Nat
             /\ WireLen(frames[k]) \in Nat /\ AfterFrame(frames[k]) \in Nat
             /\ frames[k].nonce <= AfterFrame(frames[k])
    <2>1. \A f \in Frame : f.nonce <= AfterFrame(f)
        BY DEF Frame, AfterFrame, AfterHeader, AfterData, HeaderInc, Greater
    <2>2. frames[k] \in Frame
        BY <1>1
    <2>3. WireLen(frames[k]) \in Nat /\ AfterFrame(frames[k]) \in Nat
        BY <2>2, SizeFacts
    <2>. QED  BY <2>1, <2>2, <2>3 DEF Frame
<1>4. ASSUME NEW k \in 1..last
      PROVE  /\ frames[k].start + WireLen(frames[k]) <= wired
             /\ frames[k].off + frames[k].size <= written
             /\ AfterFrame(frames[k]) <= write_nonce
    <2>1. last \in 1..last
        BY <1>1
    <2>2. /\ frames[last].start + WireLen(frames[last]) = wired
          /\ frames[last].off + frames[last].size = written
          /\ AfterFrame(frames[last]) = write_nonce
        BY <1>1, <2>1 DEF FramesChain, StartAfter, OffAfter, NonceAfter
    <2>3. CASE k = last
        BY <1>2, <2>2, <2>3
    <2>4. CASE k # last
        <3>1. k < last
            <4>1. last \in Nat
                BY <1>1
            <4> HIDE DEF last
            <4>. QED  BY <2>4, <4>1
        <3>2. /\ frames[k].start + WireLen(frames[k]) <= frames[last].start
              /\ frames[k].off + frames[k].size <= frames[last].off
              /\ AfterFrame(frames[k]) <= frames[last].nonce
            BY <1>1, <2>1, <3>1 DEF FramesChain
        <3>3. /\ frames[last].start \in Nat /\ WireLen(frames[last]) \in Nat
              /\ frames[last].off \in Nat /\ frames[last].size \in Nat
              /\ frames[last].nonce \in Nat /\ AfterFrame(frames[last]) \in Nat
              /\ frames[last].nonce <= AfterFrame(frames[last])
            BY <1>3, <2>1
        <3>4. /\ frames[k].start \in Nat /\ WireLen(frames[k]) \in Nat
              /\ frames[k].off \in Nat /\ frames[k].size \in Nat
              /\ AfterFrame(frames[k]) \in Nat
            BY <1>3
        <3>5. frames[k].start + WireLen(frames[k]) <= wired
            <4>. DEFINE a == frames[k].start + WireLen(frames[k])
                        b == frames[last].start
                        c == WireLen(frames[last])
            <4>1. a \in Nat /\ b \in Nat /\ c \in Nat
                <5>1. a \in Nat
                    BY <3>4
                <5>2. b \in Nat /\ c \in Nat
                    BY <3>3
                <5>. QED  BY <5>1, <5>2
            <4>2. a <= b /\ b + c = wired
                BY <2>2, <3>2
            <4>. HIDE DEF a, b, c
            <4>3. a <= wired
                BY <4>1, <4>2
            <4>. QED  BY <4>3 DEF a
        <3>6. frames[k].off + frames[k].size <= written
            <4>. DEFINE a == frames[k].off + frames[k].size
                        b == frames[last].off
                        c == frames[last].size
            <4>1. a \in Nat /\ b \in Nat /\ c \in Nat
                <5>1. a \in Nat
                    BY <3>4
                <5>2. b \in Nat /\ c \in Nat
                    BY <3>3
                <5>. QED  BY <5>1, <5>2
            <4>2. a <= b /\ b + c = written
                BY <2>2, <3>2
            <4>. HIDE DEF a, b, c
            <4>3. a <= written
                BY <4>1, <4>2
            <4>. QED  BY <4>3 DEF a
        <3>7. AfterFrame(frames[k]) <= write_nonce
            <4>1. PICK a \in Nat, b \in Nat, c \in Nat :
                    a = AfterFrame(frames[k]) /\ b = frames[last].nonce /\ c = AfterFrame(frames[last])
                BY <3>3, <3>4
            <4>2. a <= b /\ b <= c /\ c = write_nonce
                BY <2>2, <3>2, <3>3, <4>1
            <4>3. a <= c
                BY <4>2
            <4>. QED  BY <4>1, <4>2, <4>3
        <3>. QED  BY <3>5, <3>6, <3>7
    <2>. QED  BY <2>3, <2>4
<1>5. ASSUME NEW k \in 0..last
      PROVE  /\ StartAfter(k) \in 0..wired /\ OffAfter(k) \in 0..written /\ NonceAfter(k) \in Nat
             /\ k = last => StartAfter(k) = wired /\ OffAfter(k) = written
    <2>1. CASE k = last
        BY <1>1, <1>2, <2>1 DEF StartAfter, OffAfter, NonceAfter
    <2>2. CASE k # last
        <3>1. k < last /\ k + 1 \in 1..last
            <4>1. last \in Nat
                BY <1>1
            <4> HIDE DEF last
            <4>. QED  BY <2>2, <4>1
        <3>2. /\ StartAfter(k) = frames[k + 1].start /\ OffAfter(k) = frames[k + 1].off
              /\ NonceAfter(k) = frames[k + 1].nonce
            BY <3>1 DEF StartAfter, OffAfter, NonceAfter
        <3>3. /\ frames[k + 1].start \in Nat /\ frames[k + 1].off \in Nat
              /\ frames[k + 1].nonce \in Nat /\ WireLen(frames[k + 1]) \in Nat
              /\ frames[k + 1].size \in Nat
            BY <1>3, <3>1
        <3>4. /\ frames[k + 1].start + WireLen(frames[k + 1]) <= wired
              /\ frames[k + 1].off + frames[k + 1].size <= written
            BY <1>4, <3>1
        <3>. QED  BY <1>2, <2>2, <3>2, <3>3, <3>4
    <2>. QED  BY <2>1, <2>2
<1>. QED  BY <1>1, <1>4, <1>5

(* The positions at which frames and their data begin tell frames apart. *)
LEMMA FramesApart ==
    ASSUME TypeOK, FramesChain, NEW j \in DOMAIN frames, NEW k \in DOMAIN frames,
           \/ frames[j].start = frames[k].start
           \/ DataStart(frames[j]) = DataStart(frames[k])
    PROVE  j = k
<1>1. /\ DOMAIN frames = 1..Len(frames) /\ Len(frames) \in Nat
      /\ frames[j] \in Frame /\ frames[k] \in Frame
    BY FrameAt
<1>2. \A f \in Frame :
        /\ f.start \in Nat /\ DataStart(f) \in Nat /\ WireLen(f) \in Nat
        /\ f.start < DataStart(f) /\ DataStart(f) < f.start + WireLen(f)
    <2>1. ASSUME NEW f \in Frame
          PROVE  /\ f.start < DataStart(f) /\ DataStart(f) < f.start + WireLen(f)
                 /\ f.start \in Nat
        <3>1. HeaderLen(f.enc) \in Nat \ {0} /\ Tag(f.enc) \in Nat
            BY SizeFacts DEF Frame
        <3>2. f.start \in Nat /\ f.pad \in Nat /\ f.size \in Nat \ {0}
            BY DEF Frame
        <3>. QED  BY <3>1, <3>2 DEF DataStart, WireLen
    <2>. QED  BY <2>1, SizeFacts
<1>3. /\ frames[j].start \in Nat /\ DataStart(frames[j]) \in Nat /\ WireLen(frames[j]) \in Nat
      /\ frames[j].start < DataStart(frames[j])
      /\ DataStart(frames[j]) < frames[j].start + WireLen(frames[j])
    BY <1>1, <1>2
<1>4. /\ frames[k].start \in Nat /\ DataStart(frames[k]) \in Nat /\ WireLen(frames[k]) \in Nat
      /\ frames[k].start < DataStart(frames[k])
      /\ DataStart(frames[k]) < frames[k].start + WireLen(frames[k])
    BY <1>1, <1>2
<1>5. CASE j < k
    <2>1. frames[j].start + WireLen(frames[j]) <= frames[k].start
        BY <1>5 DEF FramesChain
    <2>. QED  BY <1>3, <1>4, <2>1
<1>6. CASE k < j
    <2>1. frames[k].start + WireLen(frames[k]) <= frames[j].start
        BY <1>6 DEF FramesChain
    <2>. QED  BY <1>3, <1>4, <2>1
<1>. QED  BY <1>1, <1>5, <1>6
-----------------------------------------------------------------------------
(* poll_write extends the chain by one frame and moves nothing the reader  *)
(* looks at.                                                               *)

LEMMA PollWriteChain ==
    ASSUME TypeOK, FramesChain,
           NEW want \in 1..(MaxPacket + 1), NEW pad \in 0..PadMax, NEW k \in 0..PipeCap,
           PollWrite(want, pad, k)
    PROVE  /\ FramesChain'
           /\ Len(frames') = Len(frames) + 1
           /\ \A i \in DOMAIN frames : frames'[i] = frames[i]
           /\ \A i \in 0..Len(frames) :
                 /\ StartAfter(i)' = StartAfter(i) /\ OffAfter(i)' = OffAfter(i)
                 /\ NonceAfter(i)' = NonceAfter(i)
<1> DEFINE len == Lesser(want, MaxPacket)
           f == NewFrame(len, pad)
<1>0. PICK L \in Nat : L = Len(frames)
    BY FrameAt
<1>1. /\ frames' = Append(frames, f) /\ wired' = wired + WireLen(f)
      /\ written' = written + len /\ write_nonce' = AfterFrame(f)
      /\ pad \in Paddings(len)
    BY DEF PollWrite
<1>2. /\ f.start = wired /\ f.off = written /\ f.size = len /\ f.pad = pad
      /\ f.enc = Encrypted(written) /\ f.nonce = write_nonce
    BY DEF NewFrame
<1>3. /\ DOMAIN frames = 1..L /\ L \in Nat /\ frames \in Seq(Frame)
    BY <1>0, FrameAt DEF TypeOK
<1>4. f \in Frame
    <2>1. len \in 1..MaxPacket
        BY StreamAssumption DEF Lesser
    <2>. QED  BY <2>1, SizeFacts DEF NewFrame, Frame, TypeOK
<1>5. pad > 0 => PadNeeded
    BY <1>1 DEF Paddings
<1> HIDE DEF f, len
<1>6. /\ Len(frames') = L + 1 /\ DOMAIN frames' = 1..(L + 1)
      /\ \A i \in 1..L : frames'[i] = frames[i]
      /\ frames'[L + 1] = f
    BY <1>0, <1>1, <1>3, <1>4, AppendProperties
<1>7. ASSUME NEW i \in 0..L
      PROVE  /\ StartAfter(i)' = StartAfter(i) /\ OffAfter(i)' = OffAfter(i)
             /\ NonceAfter(i)' = NonceAfter(i)
    <2>1. CASE i < L
        <3>1. i + 1 \in 1..L /\ i < L + 1
            BY <1>3, <2>1
        <3>2. frames'[i + 1] = frames[i + 1]
            BY <1>6, <3>1
        <3>. QED  BY <1>0, <1>6, <2>1, <3>1, <3>2 DEF StartAfter, OffAfter, NonceAfter
    <2>2. CASE i = L
        <3>1. i < L + 1 /\ ~(i < L) /\ frames'[i + 1] = f
            BY <1>3, <1>6, <2>2
        <3>. QED  BY <1>0, <1>2, <1>6, <3>1 DEF StartAfter, OffAfter, NonceAfter
    <2>. QED  BY <1>3, <2>1, <2>2
<1>8. /\ StartAfter(L + 1)' = wired + WireLen(f) /\ OffAfter(L + 1)' = written + len
      /\ NonceAfter(L + 1)' = AfterFrame(f)
    <2>1. ~(L + 1 < Len(frames'))
        BY <1>3, <1>6
    <2>. QED  BY <1>1, <2>1 DEF StartAfter, OffAfter, NonceAfter
<1>9. ASSUME NEW i \in 1..(L + 1)
      PROVE  /\ frames'[i].enc = Encrypted(frames'[i].off)
             /\ frames'[i].pad > 0 => PadNeeded
             /\ frames'[i].start + WireLen(frames'[i]) = StartAfter(i)'
             /\ frames'[i].off + frames'[i].size = OffAfter(i)'
             /\ AfterFrame(frames'[i]) = NonceAfter(i)'
    <2>1. CASE i = L + 1
        BY <1>2, <1>5, <1>6, <1>8, <2>1
    <2>2. CASE i # L + 1
        <3>1. i \in 1..L /\ i \in 0..L
            BY <1>3, <2>2
        <3>2. frames'[i] = frames[i]
            BY <1>6, <3>1
        <3>3. /\ frames[i].enc = Encrypted(frames[i].off)
              /\ frames[i].pad > 0 => PadNeeded
              /\ frames[i].start + WireLen(frames[i]) = StartAfter(i)
              /\ frames[i].off + frames[i].size = OffAfter(i)
              /\ AfterFrame(frames[i]) = NonceAfter(i)
            BY <1>3, <3>1 DEF FramesChain
        <3>. QED  BY <1>7, <3>1, <3>2, <3>3
    <2>. QED  BY <2>1, <2>2
<1>10. ASSUME NEW i \in 1..(L + 1), NEW j \in 1..(L + 1), i < j
       PROVE  /\ frames'[i].start + WireLen(frames'[i]) <= frames'[j].start
              /\ frames'[i].off + frames'[i].size <= frames'[j].off
              /\ AfterFrame(frames'[i]) <= frames'[j].nonce
    <2>1. i \in 1..L /\ frames'[i] = frames[i]
        <3>1. i \in 1..L
            BY <1>3, <1>10
        <3>. QED  BY <1>6, <3>1
    <2>2. CASE j = L + 1
        <3>1. frames'[j] = f
            BY <1>6, <2>2
        <3>2. /\ frames[i].start + WireLen(frames[i]) <= wired
              /\ frames[i].off + frames[i].size <= written
              /\ AfterFrame(frames[i]) <= write_nonce
            BY <1>3, <2>1, ChainFacts
        <3>. QED  BY <1>2, <2>1, <3>1, <3>2
    <2>3. CASE j # L + 1
        <3>1. j \in 1..L
            BY <1>3, <2>3
        <3>2. frames'[j] = frames[j]
            BY <1>6, <3>1
        <3>. QED  BY <1>3, <1>10, <2>1, <3>1, <3>2 DEF FramesChain
    <2>. QED  BY <2>2, <2>3
<1>11. StartAfter(0)' = 0 /\ OffAfter(0)' = 0 /\ NonceAfter(0)' = 0
    <2>1. 0 \in 0..L
        BY <1>3
    <2>. QED  BY <1>7, <2>1 DEF FramesChain
<1>12. FramesChain'
    BY <1>6, <1>9, <1>10, <1>11 DEF FramesChain
<1>. QED  BY <1>0, <1>3, <1>6, <1>7, <1>12

(* Every other action leaves the chain as it is. *)
LEMMA ChainUnchanged ==
    ASSUME FramesChain, UNCHANGED <<frames, wired, written, write_nonce>>
    PROVE  /\ FramesChain'
           /\ \A i \in 0..Len(frames) :
                 /\ StartAfter(i)' = StartAfter(i) /\ OffAfter(i)' = OffAfter(i)
                 /\ NonceAfter(i)' = NonceAfter(i)
    BY DEF FramesChain, StartAfter, OffAfter, NonceAfter
-----------------------------------------------------------------------------
(* Bytes leave the write buffer, cross the transport and reach the reader  *)
(* in the order they were assembled.                                       *)

LEMMA WireFacts ==
    ASSUME TypeOK, WireInOrder
    PROVE  /\ Taken \in Nat /\ wired \in Nat /\ Len(write_buffer) <= wired
           /\ Len(write_buffer) \in Nat /\ Len(pipe) \in Nat /\ write_pos \in 0..Len(write_buffer)
           /\ Taken + Len(pipe) = (wired - Len(write_buffer)) + write_pos
           /\ wired - Len(write_buffer) \in Nat
           /\ write_buffer = Run(wired - Len(write_buffer), Len(write_buffer))
           /\ pipe = Run(Taken, Len(pipe))
<1>1. /\ wired \in Nat /\ Len(write_buffer) \in Nat /\ Len(pipe) \in Nat
      /\ write_pos \in 0..Len(write_buffer)
    BY DEF TypeOK
<1>2. Taken = wired - (Len(write_buffer) - write_pos) - Len(pipe)
    BY DEF Taken
<1>3. Len(write_buffer) <= wired /\ Taken >= 0
    BY DEF WireInOrder
<1>4. /\ Taken \in Nat /\ wired - Len(write_buffer) \in Nat
      /\ Taken + Len(pipe) = (wired - Len(write_buffer)) + write_pos
    BY <1>1, <1>2, <1>3
<1>5. /\ write_buffer = Run(wired - Len(write_buffer), Len(write_buffer))
      /\ pipe = Run(Taken, Len(pipe))
    BY DEF WireInOrder
<1>. QED  BY <1>1, <1>3, <1>4, <1>5

LEMMA WriteBufferWire ==
    ASSUME TypeOK, WireInOrder, NEW n \in 0..Unsent, PollWriteBuffer(n), wired' = wired
    PROVE  WireInOrder' /\ Taken' = Taken
<1>1. PICK LB \in Nat, LP \in Nat, from \in Nat, taken \in Nat :
        /\ LB = Len(write_buffer) /\ LP = Len(pipe) /\ from = wired - LB /\ taken = Taken
    BY WireFacts
<1>2. /\ wired \in Nat /\ write_pos \in 0..LB /\ LB <= wired
    BY <1>1, WireFacts
<1>3. n \in 0..(LB - write_pos)
    BY <1>1 DEF Unsent
<1>4. write_buffer = Run(from, LB) /\ pipe = Run(taken, LP) /\ taken + LP = from + write_pos
    BY <1>1, WireFacts
<1>a. taken = wired - (LB - write_pos) - LP
    BY <1>1 DEF Taken
<1>5. SubSeq(write_buffer, write_pos + 1, write_pos + n) = Run(from + write_pos, n)
    <2>1. write_pos + n \in write_pos..LB /\ (write_pos + n) - write_pos = n
        BY <1>2, <1>3
    <2>2. SubSeq(Run(from, LB), write_pos + 1, write_pos + n)
            = Run(from + write_pos, (write_pos + n) - write_pos)
        BY <1>2, <2>1, RunSub
    <2>. QED  BY <1>4, <2>1, <2>2
<1>6. pipe' = Run(taken, LP + n)
    <2>1. pipe' = Run(taken, LP) \o Run(taken + LP, n)
        BY <1>4, <1>5 DEF PollWriteBuffer
    <2>2. n \in Nat
        BY <1>3
    <2>. QED  BY <2>1, <2>2, RunConcat
<1>7. Len(pipe') = LP + n
    <2>1. LP + n \in Nat
        BY <1>3
    <2>. QED  BY <1>6, <2>1, RunFacts
<1>8. CASE n = Unsent
    <2>1. write_buffer' = <<>> /\ write_pos' = 0
        BY <1>8 DEF PollWriteBuffer
    <2>2. Len(write_buffer') = 0
        BY <2>1
    <2>3. Taken' = taken
        <3>1. Taken' = wired - (0 - 0) - (LP + n) /\ n = LB - write_pos
            BY <1>1, <1>7, <1>8, <2>1, <2>2 DEF Taken, Unsent
        <3>. QED  BY <1>2, <1>a, <3>1
    <2>4. write_buffer' = Run(wired' - Len(write_buffer'), Len(write_buffer'))
        BY <1>2, <2>1, <2>2, RunStart
    <2>. QED  BY <1>1, <1>2, <1>6, <1>7, <2>2, <2>3, <2>4 DEF WireInOrder
<1>9. CASE n # Unsent
    <2>1. write_buffer' = write_buffer /\ write_pos' = write_pos + n
        BY <1>9 DEF PollWriteBuffer
    <2>2. Taken' = taken
        <3>1. Taken' = wired - (LB - (write_pos + n)) - (LP + n)
            BY <1>1, <1>7, <2>1 DEF Taken
        <3>. QED  BY <1>2, <1>3, <1>a, <3>1
    <2>. QED  BY <1>1, <1>2, <1>4, <1>6, <1>7, <2>1, <2>2 DEF WireInOrder
<1>. QED  BY <1>8, <1>9

LEMMA PollWriteWire ==
    ASSUME TypeOK, WireInOrder,
           NEW want \in 1..(MaxPacket + 1), NEW pad \in 0..PadMax, NEW k \in 0..PipeCap,
           PollWrite(want, pad, k)
    PROVE  WireInOrder' /\ Taken' = Taken
<1> DEFINE len == Lesser(want, MaxPacket)
           f == NewFrame(len, pad)
<1>1. PICK LB \in Nat, LP \in Nat, from \in Nat, taken \in Nat :
        /\ LB = Len(write_buffer) /\ LP = Len(pipe) /\ from = wired - LB /\ taken = Taken
    BY WireFacts
<1>2. /\ wired \in Nat /\ write_pos \in 0..LB /\ LB <= wired
    BY <1>1, WireFacts
<1>3. from + LB = wired
    BY <1>1, <1>2
<1>4. write_buffer = Run(from, LB) /\ pipe = Run(taken, LP) /\ taken + LP = from + write_pos
    BY <1>1, WireFacts
<1>5. f \in Frame /\ f.start = wired
    <2>1. len \in 1..MaxPacket
        BY StreamAssumption DEF Lesser
    <2>. QED  BY <2>1, SizeFacts DEF NewFrame, Frame, TypeOK
<1>6. PICK W \in Nat : W = WireLen(f)
    BY <1>5, SizeFacts
<1>7. Assemble(f, k) /\ wired' = wired + W /\ k \in 0..W
    BY <1>6 DEF PollWrite
<1> HIDE DEF f
<1>8. PICK rest \in Nat : rest = LB - write_pos
    BY <1>2
<1>9. SubSeq(write_buffer, write_pos + 1, LB) = Run(taken + LP, rest)
    <2>1. LB \in write_pos..LB
        BY <1>2
    <2>2. SubSeq(Run(from, LB), write_pos + 1, LB) = Run(from + write_pos, LB - write_pos)
        BY <1>2, <2>1, RunSub
    <2>. QED  BY <1>4, <1>8, <2>2
<1>10. SubSeq(Run(wired, W), 1, k) = Run(wired, k)
    <2>1. 0 \in 0..W /\ k \in 0..W
        BY <1>7
    <2>2. SubSeq(Run(wired, W), 0 + 1, k) = Run(wired + 0, k - 0)
        BY <1>2, <2>1, RunSub
    <2>. QED  BY <1>2, <1>7, <2>2
<1>11. pipe' = Run(taken, LP + rest + k)
    <2>1. pipe' = Joined(Joined(Run(taken, LP), Run(taken + LP, rest)), Run(wired, k))
        <3>1. pipe' = (Run(taken, LP) \o Run(taken + LP, rest)) \o Run(wired, k)
            BY <1>1, <1>4, <1>5, <1>6, <1>7, <1>9, <1>10 DEF Assemble
        <3>. QED  BY <3>1 DEF Joined
    <2>2. PICK b \in Nat, n \in Nat, held \in Nat, total \in Nat :
             b = taken + LP /\ n = k /\ held = LP + rest /\ total = held + n
        BY <1>7
    <2>3. wired = taken + held
        BY <1>2, <1>3, <1>4, <1>8, <2>2
    <2>4. Joined(Run(taken, LP), Run(b, rest)) = Run(taken, held)
        BY <2>2, RunJoin
    <2>5. Joined(Run(taken, held), Run(wired, n)) = Run(taken, total)
        BY <1>2, <2>2, <2>3, RunJoin
    <2>. QED  BY <2>1, <2>2, <2>4, <2>5
<1>12. Len(pipe') = LP + rest + k
    <2>1. LP + rest + k \in Nat
        OBVIOUS
    <2>. QED  BY <1>11, <2>1, RunFacts
<1>13. Run(wired, W) \in Seq(Nat) /\ Len(Run(wired, W)) = W
    BY <1>2, RunFacts
<1>14. CASE k = W
    <2>1. write_buffer' = <<>> /\ write_pos' = 0
        BY <1>5, <1>6, <1>7, <1>13, <1>14 DEF Assemble
    <2>2. Len(write_buffer') = 0
        BY <2>1
    <2>3. Taken' = taken
        <3>1. Taken' = (wired + W) - (0 - 0) - (LP + rest + k)
            BY <1>7, <1>12, <2>1, <2>2 DEF Taken
        <3>. QED  BY <1>2, <1>3, <1>4, <1>8, <1>14, <3>1
    <2>4. write_buffer' = Run(wired' - Len(write_buffer'), Len(write_buffer'))
        <3>1. wired' \in Nat /\ wired' - 0 = wired'
            BY <1>2, <1>7
        <3>. QED  BY <2>1, <2>2, <3>1, RunStart
    <2>. QED  BY <1>1, <1>2, <1>7, <1>11, <1>12, <2>2, <2>3, <2>4 DEF WireInOrder
<1>15. CASE k # W
    <2>1. write_buffer' = Run(wired, W) /\ write_pos' = k
        BY <1>5, <1>6, <1>7, <1>13, <1>15 DEF Assemble
    <2>2. Len(write_buffer') = W
        BY <1>13, <2>1
    <2>3. Taken' = taken
        <3>1. Taken' = (wired + W) - (W - k) - (LP + rest + k)
            BY <1>7, <1>12, <2>1, <2>2 DEF Taken
        <3>. QED  BY <1>2, <1>3, <1>4, <1>8, <3>1
    <2>4. wired' - W = wired /\ W <= wired'
        BY <1>2, <1>7
    <2>. QED  BY <1>1, <1>11, <1>12, <2>1, <2>2, <2>3, <2>4 DEF WireInOrder
<1>. QED  BY <1>14, <1>15

(* What poll_read_exact took follows what it already had. *)
LEMMA FillWire ==
    ASSUME TypeOK, WireInOrder, NEW n \in 0..PipeCap, Fill(n), UNCHANGED writeVars
    PROVE  /\ WireInOrder' /\ Taken' = Taken + n /\ Taken \in Nat
           /\ Taken + n <= wired
           /\ SubSeq(pipe, 1, n) = Run(Taken, n)
<1>1. PICK LB \in Nat, LP \in Nat, taken \in Nat :
        LB = Len(write_buffer) /\ LP = Len(pipe) /\ taken = Taken
    BY WireFacts
<1>2. /\ wired \in Nat /\ write_pos \in 0..LB /\ LB <= wired
    BY <1>1, WireFacts
<1>3. n \in 0..LP
    BY <1>1 DEF Fill
<1>4. pipe = Run(taken, LP) /\ taken + LP <= wired
    <2>1. pipe = Run(taken, LP) /\ taken + LP = (wired - LB) + write_pos
        BY <1>1, WireFacts
    <2>. QED  BY <1>2, <2>1
<1>5. pipe' = Run(taken + n, LP - n)
    <2>1. LP \in n..LP
        BY <1>3
    <2>2. SubSeq(Run(taken, LP), n + 1, LP) = Run(taken + n, LP - n)
        BY <1>3, <2>1, RunSub
    <2>. QED  BY <1>1, <1>4, <2>2 DEF Fill
<1>6. Len(pipe') = LP - n
    <2>1. LP - n \in Nat /\ taken + n \in Nat
        BY <1>3
    <2>. QED  BY <1>5, <2>1, RunFacts
<1>7. SubSeq(pipe, 1, n) = Run(taken, n)
    <2>1. 0 \in 0..LP /\ n \in 0..LP
        BY <1>3
    <2>2. SubSeq(Run(taken, LP), 0 + 1, n) = Run(taken + 0, n - 0)
        BY <2>1, RunSub
    <2>. QED  BY <1>3, <1>4, <2>2
<1>8. UNCHANGED <<wired, write_buffer, write_pos>>
    BY DEF writeVars
<1>9. Taken' = taken + n
    <2>1. Taken' = wired - (LB - write_pos) - (LP - n)
        BY <1>1, <1>6, <1>8 DEF Taken
    <2>2. taken = wired - (LB - write_pos) - LP
        BY <1>1 DEF Taken
    <2>. QED  BY <1>2, <1>3, <2>1, <2>2
<1>10. WireInOrder'
    <2>1. Taken' >= 0
        BY <1>3, <1>9
    <2>2. /\ Len(write_buffer') <= wired'
          /\ write_buffer' = Run(wired' - Len(write_buffer'), Len(write_buffer'))
        BY <1>8 DEF WireInOrder
    <2>3. pipe' = Run(Taken', Len(pipe'))
        BY <1>5, <1>6, <1>9
    <2>. QED  BY <2>1, <2>2, <2>3 DEF WireInOrder
<1>11. taken + n <= wired
    BY <1>2, <1>3, <1>4
<1>. QED  BY <1>1, <1>7, <1>9, <1>10, <1>11
-----------------------------------------------------------------------------
(* The reader stays in step.                                               *)

(* Steps of the writer and of the transport do not disturb the reader.     *)
LEMMA ReaderStays ==
    ASSUME TypeOK, ReaderInStep, UNCHANGED readVars, Taken' = Taken,
           Len(frames') \in Nat, Len(frames) <= Len(frames'),
           \A i \in DOMAIN frames : frames'[i] = frames[i],
           \A i \in 0..Len(frames) :
              /\ StartAfter(i)' = StartAfter(i) /\ OffAfter(i)' = OffAfter(i)
              /\ NonceAfter(i)' = NonceAfter(i)
    PROVE  ReaderInStep'
<1>1. /\ UNCHANGED <<read_state, read_buffer, readed, read_nonce, decoded, delivered, reader>>
    BY DEF readVars
<1>2. decoded \in 0..Len(frames) /\ DOMAIN frames = 1..Len(frames) /\ Len(frames) \in Nat
    BY FrameAt DEF TypeOK, ReaderInStep
<1>3. decoded' <= Len(frames')
    BY <1>1, <1>2
<1>4. /\ StartAfter(decoded)' = StartAfter(decoded) /\ OffAfter(decoded)' = OffAfter(decoded)
      /\ NonceAfter(decoded)' = NonceAfter(decoded)
    BY <1>1, <1>2
<1>5. decoded > 0 => frames'[decoded] = frames[decoded]
    BY <1>2
<1>6. PartLen' = PartLen
    BY <1>1 DEF PartLen
<1>7. read_state.at = "Header" \/ decoded > 0 => PartStart' = PartStart
    BY <1>1, <1>4, <1>5 DEF PartStart
<1>8. BetweenFrames => BetweenFrames'
    BY <1>1, <1>4 DEF BetweenFrames
<1>9. InsideFrame => InsideFrame'
    BY <1>1, <1>5 DEF InsideFrame
<1>10. read_state \in [at : {"Header", "Padding", "Data", "Ready"},
                       pad : 0..PadMax, size : 0..MaxPacket, pos : Nat]
    BY DEF TypeOK
<1>11. read_state.at \in {"Padding", "Data"} => decoded > 0
    BY DEF ReaderInStep, InsideFrame
<1>12. CASE read_state.at # "Ready"
    <2>1. PartStart' = PartStart
        BY <1>7, <1>10, <1>11, <1>12
    <2>. QED  BY <1>1, <1>3, <1>6, <1>8, <1>9, <1>12, <2>1 DEF ReaderInStep
<1>13. CASE read_state.at = "Ready"
    BY <1>1, <1>3, <1>4, <1>8, <1>13 DEF ReaderInStep
<1>. QED  BY <1>12, <1>13

(* What poll_read_exact has read of a part is the beginning of that part.  *)
LEMMA FilledRun ==
    ASSUME TypeOK, FramesChain, WireInOrder, ReaderInStep, read_state.at # "Ready",
           NEW n \in 0..PipeCap, Fill(n), UNCHANGED writeVars
    PROVE  /\ WireInOrder' /\ PartStart \in Nat /\ PartLen \in Nat
           /\ Len(Filled(n)) \in Nat /\ Len(Filled(n)) <= PartLen
           /\ Filled(n) = Run(PartStart, Len(Filled(n)))
           /\ Taken' = PartStart + Len(Filled(n))
           /\ Taken' <= wired
<1>1. PICK have \in Nat : have = Len(read_buffer)
    BY DEF TypeOK
<1>2. /\ have <= PartLen /\ Taken = PartStart + have /\ read_buffer = Run(PartStart, have)
    BY <1>1 DEF ReaderInStep
<1>3. /\ WireInOrder' /\ Taken' = Taken + n /\ Taken \in Nat /\ Taken + n <= wired
      /\ SubSeq(pipe, 1, n) = Run(Taken, n)
    BY FillWire
<1>4. Len(Filled(n)) = have + n
    BY <1>1, FillFacts
<1>5. n \in 0..(PartLen - have) /\ n \in Nat
    BY <1>1 DEF Fill, Missing
<1>6. PartLen \in Nat
    <2>1. Encrypted(readed) \in BOOLEAN
        BY SizeFacts DEF TypeOK
    <2>2. HeaderLen(Encrypted(readed)) \in Nat /\ Tag(Encrypted(readed)) \in Nat
        BY <2>1, SizeFacts
    <2>3. read_state.at \in {"Header", "Padding", "Data", "Ready"} /\ read_state.pad \in Nat /\ read_state.size \in Nat
        BY StreamAssumption DEF TypeOK
    <2>4. read_state.size + Tag(Encrypted(readed)) \in Nat
        BY <2>2, <2>3
    <2>. QED  BY <2>2, <2>3, <2>4 DEF PartLen
<1>7. PartStart \in Nat
    <2>1. CASE read_state.at = "Header"
        <3>1. decoded \in 0..Len(frames)
            BY FrameAt DEF TypeOK, ReaderInStep
        <3>2. StartAfter(decoded) \in 0..wired
            BY <3>1, ChainFacts
        <3>. QED  BY <2>1, <3>2 DEF PartStart
    <2>2. CASE read_state.at # "Header"
        <3>1. read_state.at \in {"Padding", "Data"}
            BY <2>2 DEF TypeOK
        <3>2. decoded > 0 /\ decoded <= Len(frames)
            BY <3>1 DEF ReaderInStep, InsideFrame
        <3>3. decoded \in DOMAIN frames
            BY <3>2, FrameAt DEF TypeOK
        <3>4. frames[decoded] \in Frame
            BY <3>3, FrameAt
        <3>5. /\ frames[decoded].start \in Nat /\ HeaderLen(frames[decoded].enc) \in Nat
              /\ DataStart(frames[decoded]) \in Nat
            BY <3>4, SizeFacts DEF Frame
        <3>. QED  BY <2>2, <3>5 DEF PartStart
    <2>. QED  BY <2>1, <2>2
<1>8. Filled(n) = Run(PartStart, have + n)
    <2>1. Filled(n) = Run(PartStart, have) \o Run(PartStart + have, n)
        BY <1>2, <1>3 DEF Filled
    <2>. QED  BY <1>5, <1>7, <2>1, RunConcat
<1>. QED  BY <1>2, <1>3, <1>4, <1>5, <1>6, <1>7, <1>8

(* The header the reader completes is that of the next frame, and no other *)
(* frame's: that is why decrypt succeeds.                                  *)
LEMMA HeaderFound ==
    ASSUME TypeOK, FramesChain, WireInOrder, ReaderInStep, read_state.at = "Header",
           NEW buf, buf = Run(PartStart, PartLen), PartStart \in Nat, PartStart + PartLen <= wired
    PROVE  /\ decoded + 1 \in DOMAIN frames
           /\ HeadersIn(buf) = {decoded + 1}
           /\ PartStart = frames[decoded + 1].start
           /\ PartLen = HeaderLen(frames[decoded + 1].enc)
           /\ readed = frames[decoded + 1].off /\ read_nonce = frames[decoded + 1].nonce
           /\ Encrypted(readed) = frames[decoded + 1].enc
<1> DEFINE f == frames[decoded + 1]
<1>1. PartLen = HeaderLen(Encrypted(readed)) /\ PartStart = StartAfter(decoded) /\ BetweenFrames
    BY DEF PartLen, PartStart, ReaderInStep
<1>2. PartLen \in Nat \ {0}
    BY <1>1, SizeFacts DEF TypeOK
<1>3. /\ decoded \in 0..Len(frames) /\ Len(frames) \in Nat /\ DOMAIN frames = 1..Len(frames)
      /\ wired \in Nat
    BY FrameAt DEF TypeOK, ReaderInStep
<1>4. decoded < Len(frames)
    <2>1. decoded = Len(frames) => PartStart = wired
        BY <1>1, <1>3, ChainFacts
    <2>2. PartStart # wired
        BY <1>2, <1>3
    <2>3. decoded # Len(frames)
        BY <2>1, <2>2
    <2>4. PICK last \in Nat : last = Len(frames) /\ decoded \in 0..last /\ decoded # last
        BY <1>3, <2>3
    <2>5. decoded < last
        BY <2>4
    <2>. QED  BY <2>4, <2>5
<1>5. decoded + 1 \in DOMAIN frames
    BY <1>3, <1>4
<1>6. PartStart = f.start /\ readed = f.off /\ read_nonce = f.nonce
    BY <1>1, <1>4 DEF BetweenFrames, StartAfter, OffAfter, NonceAfter
<1>7. Encrypted(readed) = f.enc
    BY <1>5, <1>6 DEF FramesChain
<1>8. decoded + 1 \in HeadersIn(buf)
    BY <1>1, <1>5, <1>6, <1>7 DEF HeadersIn
<1>9. ASSUME NEW j \in HeadersIn(buf) PROVE j = decoded + 1
    <2>1. /\ j \in DOMAIN frames /\ frames[j].enc = Encrypted(readed)
          /\ buf = Run(frames[j].start, HeaderLen(frames[j].enc))
        BY DEF HeadersIn
    <2>2. frames[j].start \in Nat /\ f.start \in Nat
        BY <2>1, <1>5, FrameAt DEF Frame
    <2>3. Run(frames[j].start, PartLen) = Run(f.start, PartLen)
        BY <1>1, <1>6, <2>1
    <2>4. frames[j].start = f.start
        BY <1>2, <2>2, <2>3, RunStart
    <2>. QED  BY <1>5, <2>1, <2>4, FramesApart
<1>. QED  BY <1>1, <1>5, <1>6, <1>7, <1>8, <1>9

LEMMA ReadHeaderStep ==
    ASSUME TypeOK, FramesChain, WireInOrder, ReaderInStep, NEW n \in 0..PipeCap, ReadHeader(n)
    PROVE  WireInOrder' /\ ReaderInStep' /\ reader' = reader
<1> DEFINE buf == Filled(n)
           f == frames[decoded + 1]
<1>1. /\ read_state.at = "Header" /\ Fill(n)
      /\ UNCHANGED <<writeVars, fin, readed, delivered>>
    BY DEF ReadHeader
<1>2. /\ WireInOrder' /\ PartStart \in Nat /\ PartLen \in Nat
      /\ Len(buf) \in Nat /\ Len(buf) <= PartLen /\ buf = Run(PartStart, Len(buf))
      /\ Taken' = PartStart + Len(buf) /\ Taken' <= wired
    BY <1>1, FilledRun
<1>3. UNCHANGED <<frames, wired, written, write_nonce>>
    BY <1>1 DEF writeVars
<1>4. /\ decoded \in 0..Len(frames) /\ Len(frames) \in Nat
      /\ BetweenFrames /\ delivered = Run(0, readed)
    BY <1>1, FrameAt DEF TypeOK, ReaderInStep
<1> HIDE DEF buf
<1>5. CASE Len(buf) < PartLen
    <2>1. read_buffer' = buf /\ UNCHANGED <<read_state, read_nonce, decoded, reader>>
        BY <1>5 DEF ReadHeader, buf
    <2>2. PartLen' = PartLen
        BY <1>1, <2>1 DEF PartLen
    <2>3. PartStart' = PartStart
        BY <1>1, <1>3, <2>1 DEF PartStart, StartAfter
    <2>4. BetweenFrames'
        BY <1>1, <1>3, <1>4, <2>1 DEF BetweenFrames, OffAfter, NonceAfter
    <2>5. Len(read_buffer') <= PartLen' /\ Taken' = PartStart' + Len(read_buffer')
        BY <1>2, <2>1, <2>2, <2>3
    <2>6. read_buffer' = Run(PartStart', Len(read_buffer'))
        BY <1>2, <2>1, <2>3
    <2>. QED  BY <1>1, <1>2, <1>3, <1>4, <2>1, <2>4, <2>5, <2>6 DEF ReaderInStep
<1>6. CASE ~(Len(buf) < PartLen)
    <2>1. Len(buf) = PartLen
        BY <1>2, <1>6
    <2>2. /\ decoded + 1 \in DOMAIN frames /\ HeadersIn(buf) = {decoded + 1}
          /\ PartStart = f.start /\ PartLen = HeaderLen(f.enc)
          /\ readed = f.off /\ read_nonce = f.nonce /\ Encrypted(readed) = f.enc
        BY <1>1, <1>2, <2>1, HeaderFound
    <2>3. HeaderValues(buf) = {[pad |-> f.pad, size |-> f.size]}
        BY <2>2 DEF HeaderValues
    <2>4. /\ read_buffer' = <<>> /\ decoded' = decoded + 1 /\ reader' = reader
          /\ read_state' = IF PadNeeded THEN AtPadding(f.pad, f.size) ELSE AtData(f.size)
          /\ read_nonce' = AfterHeader(f.nonce, f.enc, f.pad)
        <3>1. /\ read_buffer' = <<>> /\ decoded' = decoded + 1
              /\ \E h \in HeaderValues(buf) :
                    /\ read_state' = IF PadNeeded THEN AtPadding(h.pad, h.size) ELSE AtData(h.size)
                    /\ read_nonce' = AfterHeader(read_nonce, Encrypted(readed), h.pad)
                    /\ reader' = reader
            BY <1>6, <2>3 DEF ReadHeader, buf
        <3>. QED  BY <2>2, <2>3, <3>1
    <2>5. f \in Frame /\ f.start \in Nat /\ f.pad \in Nat /\ HeaderLen(f.enc) \in Nat
        <3>1. f \in Frame
            BY <2>2, FrameAt
        <3>2. f.start \in Nat /\ f.pad \in Nat /\ f.enc \in BOOLEAN
            BY <3>1 DEF Frame
        <3>. QED  BY <3>1, <3>2, SizeFacts
    <2>6. frames'[decoded'] = f /\ decoded' > 0 /\ decoded' <= Len(frames')
        <3>1. decoded + 1 \in 1..Len(frames)
            BY <2>2, FrameAt
        <3>2. decoded + 1 > 0 /\ decoded + 1 <= Len(frames)
            <4>1. PICK last \in Nat : last = Len(frames) /\ decoded + 1 \in 1..last
                BY <1>4, <3>1
            <4>2. decoded + 1 > 0 /\ decoded + 1 <= last
                BY <4>1
            <4>. QED  BY <4>1, <4>2
        <3>. QED  BY <1>3, <2>4, <3>2
    <2>7. Len(read_buffer') = 0 /\ PartStart' \in Nat
        <3>1. Len(read_buffer') = 0
            BY <2>4
        <3>2. DataStart(f) \in Nat /\ f.start + HeaderLen(f.enc) \in Nat
            BY <2>5, SizeFacts
        <3>. QED  BY <2>4, <2>6, <3>1, <3>2 DEF PartStart, AtPadding, AtData
    <2>8. read_buffer' = Run(PartStart', 0)
        BY <2>4, <2>7, RunStart
    <2>9. InsideFrame'
        BY <1>1, <2>2, <2>4, <2>6 DEF InsideFrame, AtPadding, AtData
    <2>10. Taken' = PartStart' + Len(read_buffer')
        <3>1. Taken' = f.start + HeaderLen(f.enc)
            BY <1>2, <2>1, <2>2
        <3>2. CASE PadNeeded
            <4>1. PartStart' = f.start + HeaderLen(f.enc)
                BY <2>4, <2>6, <3>2 DEF PartStart, AtPadding
            <4>. QED  BY <2>5, <2>7, <3>1, <4>1
        <3>3. CASE ~PadNeeded
            <4>1. f.pad = 0
                BY <2>2, <2>5, <3>3 DEF FramesChain
            <4>2. PartStart' = f.start + HeaderLen(f.enc) + f.pad
                BY <2>4, <2>6, <3>3 DEF PartStart, AtData, DataStart
            <4>. QED  BY <2>5, <2>7, <3>1, <4>1, <4>2
        <3>. QED  BY <3>2, <3>3
    <2>11. 0 <= PartLen'
        <3>1. Encrypted(readed') \in BOOLEAN /\ f.size \in Nat
            <4>1. readed' = readed /\ readed \in Nat
                BY <1>1 DEF TypeOK
            <4>2. Encrypted(readed') \in BOOLEAN
                BY <4>1 DEF Encrypted
            <4>. QED  BY <2>5, <4>2 DEF Frame
        <3>2. Tag(Encrypted(readed')) \in Nat
            BY <3>1, SizeFacts
        <3>. QED  BY <2>4, <2>5, <3>1, <3>2 DEF PartLen, AtPadding, AtData
    <2>12. read_state'.at \in {"Padding", "Data"}
        BY <2>4 DEF AtPadding, AtData
    <2>13. delivered' = Run(0, readed')
        BY <1>1, <1>4
    <2>. QED  BY <1>2, <2>4, <2>6, <2>7, <2>8, <2>9, <2>10, <2>11, <2>12, <2>13 DEF ReaderInStep
<1>. QED  BY <1>5, <1>6

LEMMA ReadPaddingStep ==
    ASSUME TypeOK, FramesChain, WireInOrder, ReaderInStep, NEW n \in 0..PipeCap, ReadPadding(n)
    PROVE  WireInOrder' /\ ReaderInStep' /\ reader' = reader
<1> DEFINE buf == Filled(n)
           f == frames[decoded]
<1>1. /\ read_state.at = "Padding" /\ Fill(n)
      /\ UNCHANGED <<writeVars, fin, readed, read_nonce, decoded, delivered, reader>>
    BY DEF ReadPadding
<1>2. /\ WireInOrder' /\ PartStart \in Nat /\ PartLen \in Nat
      /\ Len(buf) \in Nat /\ Len(buf) <= PartLen /\ buf = Run(PartStart, Len(buf))
      /\ Taken' = PartStart + Len(buf)
    BY <1>1, FilledRun
<1>3. UNCHANGED <<frames, wired, written, write_nonce>>
    BY <1>1 DEF writeVars
<1>4. InsideFrame /\ delivered = Run(0, readed) /\ decoded <= Len(frames)
    BY <1>1 DEF ReaderInStep
<1>5. /\ PartLen = f.pad /\ PartStart = f.start + HeaderLen(f.enc)
    BY <1>1, <1>4 DEF PartLen, PartStart, InsideFrame
<1> HIDE DEF buf
<1>6. CASE Len(buf) < PartLen
    <2>1. read_buffer' = buf /\ UNCHANGED read_state
        BY <1>6 DEF ReadPadding, buf
    <2>2. PartLen' = PartLen /\ PartStart' = PartStart
        BY <1>1, <1>3, <2>1 DEF PartLen, PartStart
    <2>3. InsideFrame'
        BY <1>1, <1>3, <1>4, <2>1 DEF InsideFrame
    <2>4. Len(read_buffer') <= PartLen' /\ Taken' = PartStart' + Len(read_buffer')
        BY <1>2, <2>1, <2>2
    <2>5. read_buffer' = Run(PartStart', Len(read_buffer'))
        BY <1>2, <2>1, <2>2
    <2>. QED  BY <1>1, <1>2, <1>3, <1>4, <2>1, <2>3, <2>4, <2>5 DEF ReaderInStep
<1>7. CASE ~(Len(buf) < PartLen)
    <2>1. Len(buf) = PartLen
        BY <1>2, <1>7
    <2>2. read_buffer' = <<>> /\ read_state' = AtData(f.size)
        BY <1>4, <1>7 DEF ReadPadding, buf, InsideFrame
    <2>3. Len(read_buffer') = 0
        BY <2>2
    <2>4. /\ PartStart' = DataStart(f) /\ PartLen' = f.size + Tag(Encrypted(readed))
        BY <1>1, <1>3, <2>2 DEF PartStart, PartLen, AtData
    <2>5. DataStart(f) = PartStart + PartLen
        BY <1>5 DEF DataStart
    <2>6. Taken' = PartStart' + 0
        BY <1>2, <2>1, <2>4, <2>5
    <2>7. read_buffer' = Run(PartStart', 0)
        BY <1>2, <2>2, <2>4, <2>5, RunStart
    <2>8. 0 <= PartLen'
        <3>1. f.size \in Nat
            BY <1>1, <1>4 DEF TypeOK, InsideFrame
        <3>2. Encrypted(readed) \in BOOLEAN
            BY DEF Encrypted
        <3>3. Tag(Encrypted(readed)) \in Nat
            BY <3>2, SizeFacts
        <3>. QED  BY <2>4, <3>1, <3>3
    <2>9. InsideFrame'
        BY <1>1, <1>3, <1>4, <2>2 DEF InsideFrame, AtData
    <2>. QED  BY <1>1, <1>2, <1>3, <1>4, <2>2, <2>3, <2>6, <2>7, <2>8, <2>9 DEF ReaderInStep, AtData
<1>. QED  BY <1>6, <1>7

(* The data part the reader completes is that of the frame it is in.       *)
LEMMA DataFound ==
    ASSUME TypeOK, FramesChain, WireInOrder, ReaderInStep, read_state.at = "Data",
           NEW buf, buf = Run(PartStart, PartLen)
    PROVE  LET f == frames[decoded]
           IN  /\ decoded \in DOMAIN frames /\ f \in Frame
               /\ DataIn(buf) = {decoded}
               /\ Plain(buf) = Run(f.off, f.size)
               /\ PartStart + PartLen = f.start + WireLen(f)
               /\ Encrypted(readed) = f.enc
<1> DEFINE f == frames[decoded]
<1>1. InsideFrame /\ decoded <= Len(frames)
    BY DEF ReaderInStep
<1>2. decoded \in DOMAIN frames /\ f \in Frame
    <2>1. decoded \in 1..Len(frames)
        BY <1>1, FrameAt DEF InsideFrame, TypeOK
    <2>. QED  BY <2>1, FrameAt
<1>3. Encrypted(readed) = f.enc
    BY <1>1, <1>2 DEF InsideFrame, FramesChain
<1>4. PartStart = DataStart(f) /\ PartLen = f.size + Tag(f.enc)
    BY <1>1, <1>3 DEF PartStart, PartLen, InsideFrame
<1>5. /\ f.size \in Nat \ {0} /\ Tag(f.enc) \in Nat /\ DataStart(f) \in Nat
      /\ f.start \in Nat /\ f.pad \in Nat /\ HeaderLen(f.enc) \in Nat
    <2>1. f.enc \in BOOLEAN /\ f.size \in Nat \ {0} /\ f.start \in Nat /\ f.pad \in Nat
        BY <1>2 DEF Frame
    <2>. QED  BY <1>2, <2>1, SizeFacts
<1>6. PartStart + PartLen = f.start + WireLen(f)
    BY <1>4, <1>5 DEF DataStart, WireLen
<1>7. decoded \in DataIn(buf)
    BY <1>1, <1>2, <1>3, <1>4 DEF DataIn, InsideFrame
<1>8. ASSUME NEW j \in DataIn(buf) PROVE j = decoded
    <2>1. /\ j \in DOMAIN frames /\ frames[j].enc = Encrypted(readed)
          /\ buf = Run(DataStart(frames[j]), frames[j].size + Tag(frames[j].enc))
        BY DEF DataIn
    <2>2. frames[j] \in Frame
        BY <2>1, FrameAt
    <2>3. /\ frames[j].size \in Nat \ {0} /\ Tag(frames[j].enc) \in Nat
          /\ DataStart(frames[j]) \in Nat
        <3>1. frames[j].enc \in BOOLEAN /\ frames[j].size \in Nat \ {0}
            BY <2>2 DEF Frame
        <3>. QED  BY <2>2, <3>1, SizeFacts
    <2>4. PICK a \in Nat, b \in Nat :
            a = frames[j].size + Tag(frames[j].enc) /\ b = f.size + Tag(f.enc) /\ b > 0
        BY <1>5, <2>3
    <2>5. Run(DataStart(frames[j]), a) = Run(DataStart(f), b)
        BY <1>4, <2>1, <2>4
    <2>6. Len(Run(DataStart(frames[j]), a)) = a /\ Len(Run(DataStart(f), b)) = b
        BY <1>5, <2>3, RunFacts
    <2>7. a = b
        BY <2>5, <2>6
    <2>8. DataStart(frames[j]) = DataStart(f)
        BY <1>5, <2>3, <2>4, <2>5, <2>7, RunStart
    <2>. QED  BY <1>2, <2>1, <2>8, FramesApart
<1>9. DataIn(buf) = {decoded}
    BY <1>7, <1>8
<1>10. Plain(buf) = Run(f.off, f.size)
    <2>1. (CHOOSE x \in {decoded} : TRUE) = decoded
        OBVIOUS
    <2>. QED  BY <1>9, <2>1 DEF Plain
<1>. QED  BY <1>2, <1>3, <1>6, <1>9, <1>10

(* Handing out a piece of the plaintext continues what was delivered.      *)
LEMMA HandOutStep ==
    ASSUME NEW base \in Nat, NEW len \in Nat, NEW pos \in 0..len, NEW m \in Nat, pos + m <= len,
           delivered = Run(0, base + pos), HandOut(Run(base, len), pos, m)
    PROVE  /\ delivered' = Run(0, base + pos + m)
           /\ \/ pos + m = len /\ read_buffer' = <<>> /\ read_state' = AtHeader
              \/ read_buffer' = Run(base, len) /\ read_state' = AtReady(pos + m)
<1>1. Len(Run(base, len)) = len
    BY RunFacts
<1>2. SubSeq(Run(base, len), pos + 1, pos + m) = Run(base + pos, m)
    <2>1. pos + m \in pos..len /\ (pos + m) - pos = m
        OBVIOUS
    <2>2. SubSeq(Run(base, len), pos + 1, pos + m) = Run(base + pos, (pos + m) - pos)
        BY <2>1, RunSub
    <2>. QED  BY <2>1, <2>2
<1>3. delivered' = Run(0, base + pos) \o Run(base + pos, m)
    BY <1>2 DEF HandOut
<1>4. Run(0, base + pos) \o Run(0 + (base + pos), m) = Run(0, (base + pos) + m)
    <2>1. base + pos \in Nat
        OBVIOUS
    <2>. QED  BY <2>1, RunConcat
<1>5. 0 + (base + pos) = base + pos
    OBVIOUS
<1>6. delivered' = Run(0, base + pos + m)
    BY <1>3, <1>4, <1>5
<1>. QED  BY <1>1, <1>6 DEF HandOut

(* Having handed out plaintext, the reader stands between frames.          *)
LEMMA AfterHandOut ==
    ASSUME NEW base \in Nat, NEW len \in Nat, NEW pos \in 0..len,
           readed' = base + len, delivered' = Run(0, base + pos),
           \/ pos = len /\ read_buffer' = <<>> /\ read_state' = AtHeader
           \/ read_buffer' = Run(base, len) /\ read_state' = AtReady(pos),
           BetweenFrames', decoded' <= Len(frames'),
           Taken' \in Nat, Taken' = StartAfter(decoded)'
    PROVE  ReaderInStep'
<1>1. CASE pos = len /\ read_buffer' = <<>> /\ read_state' = AtHeader
    <2>1. read_state'.at = "Header"
        BY <1>1 DEF AtHeader
    <2>2. PartStart' = Taken'
        BY <2>1 DEF PartStart
    <2>3. Len(read_buffer') = 0
        BY <1>1
    <2>4. PartLen' \in Nat
        <3>1. Encrypted(readed') \in BOOLEAN
            BY DEF Encrypted
        <3>2. HeaderLen(Encrypted(readed')) \in Nat
            BY <3>1, SizeFacts
        <3>. QED  BY <2>1, <3>2 DEF PartLen
    <2>5. read_buffer' = Run(PartStart', 0)
        BY <1>1, <2>2, RunStart
    <2>6. delivered' = Run(0, readed')
        BY <1>1
    <2>7. Taken' = PartStart' + 0 /\ 0 <= PartLen'
        BY <2>2, <2>4
    <2>. QED  BY <2>1, <2>3, <2>5, <2>6, <2>7 DEF ReaderInStep
<1>2. CASE read_buffer' = Run(base, len) /\ read_state' = AtReady(pos)
    <2>1. read_state'.at = "Ready" /\ read_state'.pos = pos
        BY <1>2 DEF AtReady
    <2>2. Len(read_buffer') = len
        BY <1>2, RunFacts
    <2>3. /\ pos <= len /\ len <= readed' /\ readed' - len = base
          /\ readed' - (len - pos) = base + pos
        OBVIOUS
    <2>. QED  BY <1>2, <2>1, <2>2, <2>3 DEF ReaderInStep
<1>. QED  BY <1>1, <1>2

LEMMA ReadDataStep ==
    ASSUME TypeOK, FramesChain, WireInOrder, ReaderInStep,
           NEW n \in 0..PipeCap, NEW m \in 0..MaxPacket, ReadData(n, m)
    PROVE  WireInOrder' /\ ReaderInStep' /\ reader' = reader
<1> DEFINE buf == Filled(n)
           f == frames[decoded]
<1>1. read_state.at = "Data" /\ Fill(n) /\ UNCHANGED <<writeVars, fin, decoded>>
    BY DEF ReadData
<1>2. /\ WireInOrder' /\ PartStart \in Nat /\ PartLen \in Nat
      /\ Len(buf) \in Nat /\ Len(buf) <= PartLen /\ buf = Run(PartStart, Len(buf))
      /\ Taken' = PartStart + Len(buf)
    BY <1>1, FilledRun
<1>3. UNCHANGED <<frames, wired, written, write_nonce>>
    BY <1>1 DEF writeVars
<1>4. InsideFrame /\ delivered = Run(0, readed) /\ decoded <= Len(frames)
    BY <1>1 DEF ReaderInStep
<1>5. CASE Len(buf) < PartLen
    <2>1. /\ read_buffer' = buf
          /\ UNCHANGED <<read_state, readed, read_nonce, delivered, reader>>
        BY <1>5 DEF ReadData
    <2> HIDE DEF buf
    <2>2. PartLen' = PartLen /\ PartStart' = PartStart
        BY <1>1, <1>3, <2>1 DEF PartLen, PartStart
    <2>3. InsideFrame'
        BY <1>1, <1>3, <1>4, <2>1 DEF InsideFrame
    <2>4. Len(read_buffer') <= PartLen' /\ Taken' = PartStart' + Len(read_buffer')
        BY <1>2, <2>1, <2>2
    <2>5. read_buffer' = Run(PartStart', Len(read_buffer'))
        BY <1>2, <2>1, <2>2
    <2>. QED  BY <1>1, <1>2, <1>3, <1>4, <2>1, <2>3, <2>4, <2>5 DEF ReaderInStep
<1>6. CASE ~(Len(buf) < PartLen)
    <2>1. Len(buf) = PartLen
        BY <1>2, <1>6
    <2>2. /\ decoded \in DOMAIN frames /\ f \in Frame
          /\ DataIn(buf) = {decoded} /\ Plain(buf) = Run(f.off, f.size)
          /\ PartStart + PartLen = f.start + WireLen(f) /\ Encrypted(readed) = f.enc
        BY <1>1, <1>2, <2>1, DataFound
    <2>3. f.off \in Nat /\ f.size \in Nat /\ f.start + WireLen(f) \in Nat
        BY <2>2, SizeFacts DEF Frame
    <2>4. /\ m \in 1..Len(Plain(buf)) /\ HandOut(Plain(buf), 0, m)
          /\ readed' = readed + read_state.size
          /\ read_nonce' = AfterData(read_nonce, Encrypted(readed))
          /\ reader' = reader
        BY <1>6, <2>2 DEF ReadData
    <2>5. /\ m \in 1..f.size /\ HandOut(Run(f.off, f.size), 0, m)
          /\ readed' = f.off + f.size /\ delivered = Run(0, f.off + 0)
          /\ read_nonce' = AfterFrame(f)
        <3>1. Len(Run(f.off, f.size)) = f.size
            BY <2>3, RunFacts
        <3>2. readed = f.off /\ read_state.size = f.size
              /\ read_nonce = AfterHeader(f.nonce, f.enc, f.pad)
            BY <1>4 DEF InsideFrame
        <3>3. f.off + 0 = f.off
            BY <2>3
        <3>. QED  BY <1>4, <2>2, <2>4, <3>1, <3>2, <3>3 DEF AfterFrame
    <2>6. 0 \in 0..f.size /\ m \in Nat /\ m \in 0..f.size /\ 0 + m <= f.size /\ 0 + m = m
        BY <2>3, <2>5
    <2>7. /\ delivered' = Run(0, f.off + 0 + m)
          /\ \/ 0 + m = f.size /\ read_buffer' = <<>> /\ read_state' = AtHeader
             \/ read_buffer' = Run(f.off, f.size) /\ read_state' = AtReady(0 + m)
        BY <2>3, <2>5, <2>6, HandOutStep
    <2>8. f.off + 0 + m = f.off + m
        BY <2>3, <2>6
    <2>9. /\ delivered' = Run(0, f.off + m)
          /\ \/ m = f.size /\ read_buffer' = <<>> /\ read_state' = AtHeader
             \/ read_buffer' = Run(f.off, f.size) /\ read_state' = AtReady(m)
        BY <2>6, <2>7, <2>8
    <2>10. /\ StartAfter(decoded) = f.start + WireLen(f) /\ OffAfter(decoded) = f.off + f.size
           /\ NonceAfter(decoded) = AfterFrame(f)
        BY <2>2 DEF FramesChain
    <2>11. /\ StartAfter(decoded)' = StartAfter(decoded) /\ OffAfter(decoded)' = OffAfter(decoded)
           /\ NonceAfter(decoded)' = NonceAfter(decoded) /\ decoded' <= Len(frames')
        BY <1>1, <1>3, <1>4 DEF StartAfter, OffAfter, NonceAfter
    <2>12. BetweenFrames'
        BY <2>5, <2>10, <2>11 DEF BetweenFrames
    <2>13. Taken' \in Nat /\ Taken' = StartAfter(decoded)'
        BY <1>2, <2>1, <2>2, <2>3, <2>10, <2>11
    <2>14. ReaderInStep'
        BY <2>3, <2>5, <2>6, <2>9, <2>11, <2>12, <2>13, AfterHandOut
    <2>. QED  BY <1>2, <2>4, <2>14
<1>. QED  BY <1>5, <1>6

LEMMA ReadReadyStep ==
    ASSUME TypeOK, FramesChain, WireInOrder, ReaderInStep, NEW m \in 1..MaxPacket, ReadReady(m)
    PROVE  WireInOrder' /\ ReaderInStep' /\ reader' = reader
<1>1. /\ read_state.at = "Ready" /\ m \in 1..(Len(read_buffer) - read_state.pos)
      /\ HandOut(read_buffer, read_state.pos, m)
      /\ UNCHANGED <<writeVars, pipe, fin, readed, read_nonce, decoded, reader>>
    BY DEF ReadReady
<1>2. UNCHANGED <<frames, wired, written, write_nonce, write_buffer, write_pos>>
    BY <1>1 DEF writeVars
<1>3. WireInOrder' /\ Taken' = Taken
    BY <1>1, <1>2 DEF WireInOrder, Taken
<1>4. /\ BetweenFrames /\ Taken = StartAfter(decoded) /\ decoded <= Len(frames)
      /\ read_state.pos <= Len(read_buffer) /\ Len(read_buffer) <= readed
      /\ read_buffer = Run(readed - Len(read_buffer), Len(read_buffer))
      /\ delivered = Run(0, readed - (Len(read_buffer) - read_state.pos))
    BY <1>1 DEF ReaderInStep
<1>5. PICK len \in Nat, pos \in Nat : len = Len(read_buffer) /\ pos = read_state.pos
    BY DEF TypeOK
<1>6. readed \in Nat
    BY DEF TypeOK
<1>7. PICK base \in Nat : base = readed - len
    <2>1. len <= readed
        BY <1>4, <1>5
    <2>2. readed - len \in Nat
        BY <1>6, <2>1
    <2>. QED  BY <2>2
<1>8. /\ pos \in 0..len /\ m \in Nat /\ m > 0 /\ pos + m <= len /\ readed = base + len
      /\ readed - (len - pos) = base + pos
    <2>1. m \in 1..(len - pos) /\ pos <= len
        BY <1>1, <1>4, <1>5
    <2>. QED  BY <1>6, <1>7, <2>1
<1>9. /\ delivered = Run(0, base + pos) /\ HandOut(Run(base, len), pos, m)
    BY <1>1, <1>4, <1>5, <1>7, <1>8
<1>10. /\ delivered' = Run(0, base + pos + m)
       /\ \/ pos + m = len /\ read_buffer' = <<>> /\ read_state' = AtHeader
          \/ read_buffer' = Run(base, len) /\ read_state' = AtReady(pos + m)
    BY <1>8, <1>9, HandOutStep
<1>11. PICK next \in 0..len : next = pos + m /\ base + pos + m = base + next
    BY <1>8
<1>12. /\ BetweenFrames' /\ decoded' <= Len(frames') /\ StartAfter(decoded)' = StartAfter(decoded)
    BY <1>1, <1>2, <1>4 DEF BetweenFrames, StartAfter, OffAfter, NonceAfter
<1>13. Taken' \in Nat /\ Taken' = StartAfter(decoded)'
    BY <1>3, <1>4, <1>12, WireFacts
<1>14. readed' = base + len
    BY <1>1, <1>8
<1>15. ReaderInStep'
    BY <1>10, <1>11, <1>12, <1>13, <1>14, AfterHandOut
<1>. QED  BY <1>1, <1>3, <1>15
-----------------------------------------------------------------------------
(* The two ends of a stream agree on how it ended.                         *)

LEMMA EndsStay ==
    ASSUME TypeOK, EndsInStep, reader = "reading", reader' = reader, UNCHANGED <<writeVars, fin>>
    PROVE  EndsInStep'
    BY DEF EndsInStep, writeVars

LEMMA IInvInit == Init => IInv
<1> SUFFICES ASSUME Init PROVE IInv
    OBVIOUS
<1>1. TypeOK
    BY TypeOKInit
<1>2. Len(frames) = 0 /\ Len(write_buffer) = 0 /\ Len(pipe) = 0 /\ Len(read_buffer) = 0
    BY DEF Init
<1>3. DOMAIN frames = {}
    BY <1>2, FrameAt, <1>1
<1>4. /\ StartAfter(0) = 0 /\ OffAfter(0) = 0 /\ NonceAfter(0) = 0
    BY <1>2 DEF Init, StartAfter, OffAfter, NonceAfter
<1>5. FramesChain
    BY <1>3, <1>4 DEF FramesChain
<1>6. Run(0, 0) = <<>>
    BY RunStart
<1>7. Taken = 0
    <2>1. wired = 0 /\ write_pos = 0
        BY DEF Init
    <2>. QED  BY <1>2, <2>1 DEF Taken
<1>8. WireInOrder
    BY <1>2, <1>6, <1>7 DEF Init, WireInOrder
<1>9. PartStart = 0
    BY <1>4 DEF Init, PartStart, AtHeader
<1>10. PartLen \in Nat
    <2>1. Encrypted(readed) \in BOOLEAN
        BY DEF Encrypted
    <2>2. HeaderLen(Encrypted(readed)) \in Nat
        BY <2>1, SizeFacts
    <2>. QED  BY <2>2 DEF Init, PartLen, AtHeader
<1>11. ReaderInStep
    <2>1. read_state.at = "Header" /\ decoded = 0 /\ readed = 0 /\ read_nonce = 0
          /\ delivered = <<>> /\ read_buffer = <<>>
        BY DEF Init, AtHeader
    <2>2. BetweenFrames
        BY <1>4, <2>1 DEF BetweenFrames
    <2>. QED  BY <1>2, <1>6, <1>7, <1>9, <1>10, <2>1, <2>2 DEF ReaderInStep
<1>12. EndsInStep
    BY DEF Init, EndsInStep
<1>. QED  BY <1>1, <1>5, <1>8, <1>11, <1>12 DEF IInv

LEMMA IInvStep == IInv /\ [Next]_vars => IInv'
<1> SUFFICES ASSUME IInv, [Next]_vars PROVE IInv'
    OBVIOUS
<1>1. TypeOK /\ FramesChain /\ WireInOrder /\ ReaderInStep /\ EndsInStep
    BY DEF IInv
<1>2. TypeOK'
    BY <1>1, TypeOKStep
<1>3. Len(frames') \in Nat /\ Len(frames) \in Nat
    <2>1. frames \in Seq(Frame) /\ frames' \in Seq(Frame)
        BY <1>1, <1>2 DEF TypeOK, Frame
    <2>. QED  BY <2>1
<1>4. CASE Write
    <2>1. PICK want \in 1..(MaxPacket + 1), pad \in 0..PadMax, k \in 0..PipeCap :
            PollWrite(want, pad, k)
        BY <1>4 DEF Write
    <2>2. UNCHANGED <<writer, fin, readVars>> /\ writer = "open"
        BY <2>1 DEF PollWrite
    <2>3. /\ FramesChain' /\ Len(frames') = Len(frames) + 1
          /\ \A i \in DOMAIN frames : frames'[i] = frames[i]
          /\ \A i \in 0..Len(frames) :
                /\ StartAfter(i)' = StartAfter(i) /\ OffAfter(i)' = OffAfter(i)
                /\ NonceAfter(i)' = NonceAfter(i)
        BY <1>1, <2>1, PollWriteChain
    <2>4. WireInOrder' /\ Taken' = Taken
        BY <1>1, <2>1, PollWriteWire
    <2>5. Len(frames) <= Len(frames')
        BY <1>3, <2>3
    <2>6. ReaderInStep'
        BY <1>1, <1>3, <2>2, <2>3, <2>4, <2>5, ReaderStays
    <2>7. EndsInStep'
        BY <1>1, <2>2 DEF EndsInStep, readVars
    <2>. QED  BY <1>2, <2>3, <2>4, <2>6, <2>7 DEF IInv
<1>5. ASSUME NEW n \in 0..Unsent, PollWriteBuffer(n), UNCHANGED readVars,
             UNCHANGED <<frames, wired, written, write_nonce>>
      PROVE  FramesChain' /\ WireInOrder' /\ ReaderInStep'
    <2>1. WireInOrder' /\ Taken' = Taken
        BY <1>1, <1>5, WriteBufferWire
    <2>2. /\ FramesChain'
          /\ \A i \in 0..Len(frames) :
                /\ StartAfter(i)' = StartAfter(i) /\ OffAfter(i)' = OffAfter(i)
                /\ NonceAfter(i)' = NonceAfter(i)
        BY <1>1, <1>5, ChainUnchanged
    <2>3. Len(frames) <= Len(frames') /\ \A i \in DOMAIN frames : frames'[i] = frames[i]
        BY <1>3, <1>5
    <2>4. ReaderInStep'
        BY <1>1, <1>3, <1>5, <2>1, <2>2, <2>3, ReaderStays
    <2>. QED  BY <2>1, <2>2, <2>4
<1>6. CASE FlushSome
    <2>1. PICK n \in 1..PipeCap : Flush(n)
        BY <1>6 DEF FlushSome
    <2>2. /\ n \in 0..Unsent /\ PollWriteBuffer(n) /\ writer = "open"
          /\ UNCHANGED <<frames, wired, written, write_nonce, writer, fin, readVars>>
        BY <2>1 DEF Flush
    <2>3. FramesChain' /\ WireInOrder' /\ ReaderInStep'
        BY <1>5, <2>2
    <2>4. EndsInStep'
        BY <1>1, <2>2 DEF EndsInStep, readVars
    <2>. QED  BY <1>2, <2>3, <2>4 DEF IInv
<1>7. CASE ShutdownSome
    <2>1. PICK n \in 0..PipeCap : Shutdown(n)
        BY <1>7 DEF ShutdownSome
    <2>2. /\ n \in 0..Unsent /\ PollWriteBuffer(n) /\ writer \in {"open", "closing"}
          /\ writer' = (IF n = Unsent THEN "closed" ELSE "closing") /\ fin' = (n = Unsent)
          /\ UNCHANGED <<frames, wired, written, write_nonce, readVars>>
        BY <2>1 DEF Shutdown
    <2>3. FramesChain' /\ WireInOrder' /\ ReaderInStep'
        BY <1>5, <2>2
    <2>4. n = Unsent => write_buffer' = <<>>
        BY <2>2 DEF PollWriteBuffer
    <2>5. EndsInStep'
        BY <1>1, <2>2, <2>4 DEF EndsInStep, readVars
    <2>. QED  BY <1>2, <2>3, <2>5 DEF IInv
<1>8. CASE Die
    <2>1. /\ writer \in {"open", "closing"} /\ writer' = "dead" /\ fin' = TRUE
          /\ UNCHANGED <<frames, wired, written, write_nonce, write_buffer, write_pos,
                         pipe, readVars>>
        BY <1>8 DEF Die
    <2>2. WireInOrder' /\ Taken' = Taken
        BY <1>1, <2>1 DEF WireInOrder, Taken
    <2>3. /\ FramesChain'
          /\ \A i \in 0..Len(frames) :
                /\ StartAfter(i)' = StartAfter(i) /\ OffAfter(i)' = OffAfter(i)
                /\ NonceAfter(i)' = NonceAfter(i)
        BY <1>1, <2>1, ChainUnchanged
    <2>4. Len(frames) <= Len(frames') /\ \A i \in DOMAIN frames : frames'[i] = frames[i]
        BY <1>3, <2>1
    <2>5. ReaderInStep'
        BY <1>1, <1>3, <2>1, <2>2, <2>3, <2>4, ReaderStays
    <2>6. EndsInStep'
        BY <1>1, <2>1 DEF EndsInStep, readVars
    <2>. QED  BY <1>2, <2>2, <2>3, <2>5, <2>6 DEF IInv
<1>9. ASSUME WireInOrder', ReaderInStep', reader = "reading", reader' = reader,
             UNCHANGED <<writeVars, fin>>
      PROVE  IInv'
    <2>1. FramesChain'
        BY <1>1, <1>9, ChainUnchanged DEF writeVars
    <2>2. EndsInStep'
        BY <1>1, <1>9, EndsStay
    <2>. QED  BY <1>2, <1>9, <2>1, <2>2 DEF IInv
<1>10. CASE \E n \in 0..PipeCap : ReadHeader(n)
    <2>1. PICK n \in 0..PipeCap : ReadHeader(n)
        BY <1>10
    <2>2. WireInOrder' /\ ReaderInStep' /\ reader' = reader
        BY <1>1, <2>1, ReadHeaderStep
    <2>3. reader = "reading" /\ UNCHANGED <<writeVars, fin>>
        BY <2>1 DEF ReadHeader, Fill
    <2>. QED  BY <1>9, <2>2, <2>3
<1>11. CASE \E n \in 0..PipeCap : ReadPadding(n)
    <2>1. PICK n \in 0..PipeCap : ReadPadding(n)
        BY <1>11
    <2>2. WireInOrder' /\ ReaderInStep' /\ reader' = reader
        BY <1>1, <2>1, ReadPaddingStep
    <2>3. reader = "reading" /\ UNCHANGED <<writeVars, fin>>
        BY <2>1 DEF ReadPadding, Fill
    <2>. QED  BY <1>9, <2>2, <2>3
<1>12. CASE \E n \in 0..PipeCap, m \in 0..MaxPacket : ReadData(n, m)
    <2>1. PICK n \in 0..PipeCap, m \in 0..MaxPacket : ReadData(n, m)
        BY <1>12
    <2>2. WireInOrder' /\ ReaderInStep' /\ reader' = reader
        BY <1>1, <2>1, ReadDataStep
    <2>3. reader = "reading" /\ UNCHANGED <<writeVars, fin>>
        BY <2>1 DEF ReadData, Fill
    <2>. QED  BY <1>9, <2>2, <2>3
<1>13. CASE \E m \in 1..MaxPacket : ReadReady(m)
    <2>1. PICK m \in 1..MaxPacket : ReadReady(m)
        BY <1>13
    <2>2. WireInOrder' /\ ReaderInStep' /\ reader' = reader
        BY <1>1, <2>1, ReadReadyStep
    <2>3. reader = "reading" /\ UNCHANGED <<writeVars, fin>>
        BY <2>1 DEF ReadReady
    <2>. QED  BY <1>9, <2>2, <2>3
<1>14. CASE ReadEof
    <2>1. /\ read_state.at # "Ready" /\ fin /\ pipe = <<>> /\ Missing > 0
          /\ reader' = (IF read_buffer = <<>> THEN "eof" ELSE "short")
          /\ UNCHANGED <<writeVars, pipe, fin, read_state, read_buffer, readed, read_nonce,
                         decoded, delivered>>
        BY <1>14 DEF ReadEof
    <2>2. UNCHANGED <<frames, wired, written, write_nonce, write_buffer, write_pos, writer>>
        BY <2>1 DEF writeVars
    <2>3. FramesChain'
        BY <1>1, <2>2, ChainUnchanged
    <2>4. WireInOrder' /\ Taken' = Taken
        BY <1>1, <2>1, <2>2 DEF WireInOrder, Taken
    <2>5. PartLen' = PartLen /\ PartStart' = PartStart /\ Missing' = Missing
        BY <2>1, <2>2 DEF PartLen, PartStart, Missing, StartAfter
    <2>6. BetweenFrames' = BetweenFrames /\ InsideFrame' = InsideFrame
        BY <2>1, <2>2 DEF BetweenFrames, InsideFrame, OffAfter, NonceAfter
    <2>7. ReaderInStep'
        BY <1>1, <2>1, <2>2, <2>4, <2>5, <2>6 DEF ReaderInStep
    <2>8. EndsInStep'
        BY <1>1, <2>1, <2>2, <2>5 DEF EndsInStep
    <2>. QED  BY <1>2, <2>3, <2>4, <2>7, <2>8 DEF IInv
<1>15. CASE UNCHANGED vars
    <2>1. UNCHANGED <<frames, wired, written, write_nonce, write_buffer, write_pos, writer,
                     pipe, fin, readVars>>
        BY <1>15 DEF vars, writeVars
    <2>2. WireInOrder' /\ Taken' = Taken
        BY <1>1, <2>1 DEF WireInOrder, Taken
    <2>3. /\ FramesChain'
          /\ \A i \in 0..Len(frames) :
                /\ StartAfter(i)' = StartAfter(i) /\ OffAfter(i)' = OffAfter(i)
                /\ NonceAfter(i)' = NonceAfter(i)
        BY <1>1, <2>1, ChainUnchanged
    <2>4. Len(frames) <= Len(frames') /\ \A i \in DOMAIN frames : frames'[i] = frames[i]
        BY <1>3, <2>1
    <2>5. ReaderInStep'
        BY <1>1, <1>3, <2>1, <2>2, <2>3, <2>4, ReaderStays
    <2>6. PartLen' = PartLen /\ Missing' = Missing
        BY <2>1 DEF readVars, PartLen, Missing
    <2>7. EndsInStep'
        BY <1>1, <2>1, <2>6 DEF EndsInStep, readVars
    <2>. QED  BY <1>2, <2>2, <2>3, <2>5, <2>7 DEF IInv
<1>. QED  BY <1>4, <1>6, <1>7, <1>8, <1>10, <1>11, <1>12, <1>13, <1>14, <1>15
          DEF Next, ReadSome, Ended

(* The invariant that ties the two ends and the wire together holds in     *)
(* every reachable state (stream.rs:90-368).                               *)
THEOREM InStep == Spec => []IInv
<1>. QED  BY IInvInit, IInvStep, PTL DEF Spec

(* Each safety property of the stream follows from the invariant.          *)

LEMMA NextIndex ==
    \A n \in Nat : \A d \in 0..n : d # n => d < n /\ d + 1 \in 1..n
    OBVIOUS

(* A reader that took all there is but not all of its part is not before   *)
(* a piece of the wire that holds the part.                                *)
LEMMA PartTooLong ==
    \A all, part, had, len, more \in Nat :
        part + had = all /\ part + len + more <= all => ~(had < len)
    OBVIOUS

LEMMA DeliveredRun == IInv => DeliveredInOrder
<1> SUFFICES ASSUME IInv PROVE DeliveredInOrder
    OBVIOUS
<1>1. TypeOK /\ FramesChain /\ ReaderInStep
    BY DEF IInv
<1>2. PICK n \in Nat : delivered = Run(0, n) /\ n <= readed
    <2>1. readed \in Nat /\ Len(read_buffer) \in Nat /\ read_state.pos \in Nat
        BY <1>1 DEF TypeOK
    <2>2. CASE read_state.at # "Ready"
        BY <1>1, <2>1, <2>2 DEF ReaderInStep
    <2>3. CASE read_state.at = "Ready"
        <3>1. /\ read_state.pos <= Len(read_buffer) /\ Len(read_buffer) <= readed
              /\ delivered = Run(0, readed - (Len(read_buffer) - read_state.pos))
            BY <1>1, <2>3 DEF ReaderInStep
        <3>2. /\ readed - (Len(read_buffer) - read_state.pos) \in Nat
              /\ readed - (Len(read_buffer) - read_state.pos) <= readed
            BY <2>1, <3>1
        <3>. QED  BY <3>1, <3>2
    <2>. QED  BY <2>2, <2>3
<1>3. readed <= written
    <2>1. decoded \in 0..Len(frames)
        BY <1>1 DEF TypeOK, ReaderInStep
    <2>2. CASE readed = OffAfter(decoded)
        BY <1>1, <2>1, <2>2, ChainFacts
    <2>3. CASE readed # OffAfter(decoded)
        <3>1. decoded > 0 /\ readed = frames[decoded].off
            BY <1>1, <2>3 DEF ReaderInStep, BetweenFrames, InsideFrame, TypeOK
        <3>2. decoded \in DOMAIN frames
            BY <1>1, <2>1, <3>1, FrameAt
        <3>3. frames[decoded].off + frames[decoded].size <= written
            BY <1>1, <3>2, ChainFacts
        <3>4. frames[decoded].off \in Nat /\ frames[decoded].size \in Nat
            <4>1. frames[decoded] \in Frame
                BY <1>1, <3>2, FrameAt
            <4>. QED  BY <4>1 DEF Frame
        <3>5. written \in Nat
            BY <1>1 DEF TypeOK
        <3>. QED  BY <3>1, <3>3, <3>4, <3>5
    <2>. QED  BY <2>2, <2>3
<1>4. Len(delivered) = n
    BY <1>2, RunFacts
<1>5. readed \in Nat /\ written \in Nat
    BY <1>1 DEF TypeOK
<1>6. n <= written
    BY <1>2, <1>3, <1>5
<1>. QED  BY <1>2, <1>4, <1>6 DEF DeliveredInOrder

LEMMA NoncesApart == IInv => NonceFresh
<1> SUFFICES ASSUME IInv PROVE NonceFresh
    OBVIOUS
<1>1. TypeOK /\ FramesChain
    BY DEF IInv
<1> DEFINE Header(k) == frames[k].nonce
           Data(k) == AfterHeader(frames[k].nonce, TRUE, frames[k].pad)
           Used == {k \in DOMAIN frames : frames[k].enc}
<1>2. ASSUME NEW k \in Used
      PROVE  /\ Header(k) \in Nat /\ Data(k) \in Nat /\ AfterFrame(frames[k]) \in Nat
             /\ Header(k) < Data(k) /\ Data(k) < AfterFrame(frames[k])
    <2>1. frames[k] \in Frame /\ frames[k].enc
        BY <1>1, FrameAt
    <2>. QED  BY <2>1 DEF Frame, AfterFrame, AfterHeader, AfterData, HeaderInc, Greater
<1>3. ASSUME NEW j \in Used, NEW k \in Used, j < k
      PROVE  /\ Header(j) < Header(k) /\ Header(j) < Data(k)
             /\ Data(j) < Header(k) /\ Data(j) < Data(k)
    <2>1. AfterFrame(frames[j]) <= Header(k)
        BY <1>1, <1>3 DEF FramesChain
    <2>. HIDE DEF Header, Data
    <2>2. /\ Header(j) \in Nat /\ Data(j) \in Nat /\ AfterFrame(frames[j]) \in Nat
          /\ Header(k) \in Nat /\ Data(k) \in Nat /\ Header(j) < Data(j)
          /\ Data(j) < AfterFrame(frames[j]) /\ Header(k) < Data(k)
        BY <1>2
    <2>. QED  BY <2>1, <2>2
<1>4. ASSUME NEW k \in Used PROVE Header(k) # Data(k) /\ Data(k) < write_nonce
    <2>1. AfterFrame(frames[k]) <= write_nonce /\ write_nonce \in Nat
        BY <1>1, ChainFacts DEF TypeOK
    <2>. HIDE DEF Header, Data
    <2>2. /\ Header(k) \in Nat /\ Data(k) \in Nat /\ AfterFrame(frames[k]) \in Nat
          /\ Header(k) < Data(k) /\ Data(k) < AfterFrame(frames[k])
        BY <1>2
    <2>. QED  BY <2>1, <2>2
<1>5. ASSUME NEW j \in Used, NEW k \in Used, j # k
      PROVE  {Header(j), Data(j)} \cap {Header(k), Data(k)} = {}
    <2>1. j \in Nat /\ k \in Nat
        BY <1>1, FrameAt
    <2>2. j < k \/ k < j
        BY <1>5, <2>1
    <2>. HIDE DEF Header, Data
    <2>3. /\ Header(j) \in Nat /\ Data(j) \in Nat /\ Header(k) \in Nat /\ Data(k) \in Nat
        BY <1>2
    <2>4. /\ Header(j) # Header(k) /\ Header(j) # Data(k)
          /\ Data(j) # Header(k) /\ Data(j) # Data(k)
        <3>1. CASE j < k
            BY <1>3, <2>3, <3>1
        <3>2. CASE k < j
            BY <1>3, <2>3, <3>2
        <3>. QED  BY <2>2, <3>1, <3>2
    <2>. QED  BY <2>4
<1>. QED  BY <1>4, <1>5 DEF NonceFresh

(* A reader that ended has taken every byte there was: it is at the start  *)
(* of a frame with nothing more assembled, or inside a frame.              *)
LEMMA AtEnd ==
    ASSUME IInv, reader \in {"eof", "short"}
    PROVE  /\ delivered = Run(0, readed) /\ Len(delivered) = readed
           /\ decoded \in 0..Len(frames)
           /\ Taken = PartStart + Len(read_buffer) /\ Len(read_buffer) < PartLen
           /\ Taken = wired - (Len(write_buffer) - write_pos)
<1>1. TypeOK /\ ReaderInStep /\ EndsInStep
    BY DEF IInv
<1>2. /\ fin /\ pipe = <<>> /\ read_state.at # "Ready" /\ Missing > 0
    BY <1>1 DEF EndsInStep
<1>3. /\ decoded <= Len(frames) /\ delivered = Run(0, readed)
      /\ Taken = PartStart + Len(read_buffer)
    BY <1>1, <1>2 DEF ReaderInStep
<1>4. /\ readed \in Nat /\ decoded \in Nat /\ Len(read_buffer) \in Nat
      /\ wired \in Nat /\ Len(write_buffer) \in Nat /\ write_pos \in Nat
    BY <1>1 DEF TypeOK
<1>5. Len(delivered) = readed
    BY <1>3, <1>4, RunFacts
<1>6. Len(pipe) = 0
    BY <1>2
<1>7. Taken = wired - (Len(write_buffer) - write_pos)
    BY <1>4, <1>6 DEF Taken
<1>8. PartLen \in Nat
    <2>1. /\ Encrypted(readed) \in BOOLEAN /\ HeaderLen(Encrypted(readed)) \in Nat
          /\ Tag(Encrypted(readed)) \in Nat
        BY <1>4, SizeFacts
    <2>2. read_state.pad \in Nat /\ read_state.size \in Nat
        BY <1>1, StreamAssumption DEF TypeOK
    <2>3. read_state.size + Tag(Encrypted(readed)) \in Nat
        BY <2>1, <2>2
    <2>. QED  BY <2>1, <2>2, <2>3 DEF PartLen
<1>9. Len(read_buffer) < PartLen
    BY <1>2, <1>4, <1>8 DEF Missing
<1>10. decoded \in 0..Len(frames)
    BY <1>1, <1>3, <1>4, FrameAt
<1>. QED  BY <1>3, <1>5, <1>7, <1>9, <1>10

LEMMA EndsBetween == IInv => EndsAtFrame
<1> SUFFICES ASSUME IInv, reader \in {"eof", "short"}
             PROVE  \/ Len(delivered) = written
                    \/ \E k \in DOMAIN frames : Len(delivered) = frames[k].off
    BY DEF EndsAtFrame
<1>1. TypeOK /\ FramesChain /\ ReaderInStep /\ EndsInStep
    BY DEF IInv
<1>2. Len(delivered) = readed /\ decoded \in 0..Len(frames)
    BY AtEnd
<1>3. DOMAIN frames = 1..Len(frames) /\ Len(frames) \in Nat
    BY <1>1, FrameAt
<1>4. CASE BetweenFrames /\ decoded = Len(frames)
    BY <1>1, <1>2, <1>4, ChainFacts DEF BetweenFrames
<1>5. CASE BetweenFrames /\ decoded # Len(frames)
    <2>1. decoded < Len(frames) /\ decoded + 1 \in DOMAIN frames
        <3>1. \A d \in 0..Len(frames) : d # Len(frames) => d < Len(frames) /\ d + 1 \in 1..Len(frames)
            BY <1>3, NextIndex
        <3>. QED  BY <1>2, <1>3, <1>5, <3>1, Zenon
    <2>2. readed = frames[decoded + 1].off
        BY <1>5, <2>1 DEF BetweenFrames, OffAfter
    <2>. QED  BY <1>2, <2>1, <2>2
<1>6. CASE InsideFrame
    <2>1. decoded \in DOMAIN frames /\ readed = frames[decoded].off
        BY <1>2, <1>3, <1>6 DEF InsideFrame
    <2>. QED  BY <1>2, <2>1
<1>7. BetweenFrames \/ InsideFrame
    BY <1>1 DEF ReaderInStep, TypeOK
<1>. QED  BY <1>4, <1>5, <1>6, <1>7

(* A shutdown closes the transport behind the last byte assembled, which   *)
(* is the end of a frame.                                                  *)
LEMMA EndsWhole == IInv => GracefulEnd
<1> SUFFICES ASSUME IInv, writer = "closed", reader \in {"eof", "short"}
             PROVE  Len(delivered) = written /\ reader = "eof"
    BY DEF GracefulEnd, IInv, TypeOK
<1>1. TypeOK /\ FramesChain /\ ReaderInStep /\ EndsInStep
    BY DEF IInv
<1>2. /\ delivered = Run(0, readed) /\ Len(delivered) = readed
      /\ decoded \in 0..Len(frames)
      /\ Taken = PartStart + Len(read_buffer) /\ Len(read_buffer) < PartLen
      /\ Taken = wired - (Len(write_buffer) - write_pos)
    BY AtEnd
<1>3. /\ wired \in Nat /\ Len(read_buffer) \in Nat /\ decoded \in Nat
      /\ DOMAIN frames = 1..Len(frames) /\ Len(frames) \in Nat
    BY <1>1, FrameAt DEF TypeOK
<1>4. PartStart + Len(read_buffer) = wired
    <2>1. write_buffer = <<>>
        BY <1>1 DEF EndsInStep
    <2>2. Len(write_buffer) = 0
        BY <2>1
    <2>3. write_pos = 0
        BY <1>1, <2>2 DEF TypeOK
    <2>. QED  BY <1>2, <1>3, <2>2, <2>3
<1>5. read_state.at = "Header"
    <2> SUFFICES ASSUME read_state.at \in {"Padding", "Data"} PROVE FALSE
        <3>1. read_state.at # "Ready"
            BY <1>1 DEF EndsInStep
        <3>. QED  BY <1>1, <3>1 DEF TypeOK
    <2> DEFINE f == frames[decoded]
    <2>1. InsideFrame
        BY <1>1 DEF ReaderInStep
    <2>2. decoded \in DOMAIN frames
        BY <1>2, <1>3, <2>1 DEF InsideFrame
    <2>3. /\ f \in Frame /\ f.start + WireLen(f) <= wired /\ f.enc = Encrypted(f.off)
        BY <1>1, <2>2, FrameAt, ChainFacts DEF FramesChain
    <2>4. /\ readed = f.off /\ read_state.size = f.size
          /\ read_state.at = "Padding" => read_state.pad = f.pad
        BY <2>1 DEF InsideFrame
    <2>5. /\ f.start \in Nat /\ f.pad \in Nat /\ f.size \in Nat /\ f.size > 0
          /\ HeaderLen(f.enc) \in Nat /\ Tag(f.enc) \in Nat
        BY <2>3, SizeFacts, StreamAssumption DEF Frame
    <2>6. CASE read_state.at = "Padding"
        <3>1. PartLen = f.pad /\ PartStart = f.start + HeaderLen(f.enc)
            BY <2>4, <2>6 DEF PartLen, PartStart
        <3>2. WireLen(f) = HeaderLen(f.enc) + f.pad + f.size + Tag(f.enc)
            BY DEF WireLen
        <3>. HIDE DEF f
        <3>3. PICK s \in Nat, h \in Nat, d \in Nat, z \in Nat, g \in Nat :
                 s = f.start /\ h = HeaderLen(f.enc) /\ d = f.pad /\ z = f.size /\ g = Tag(f.enc)
            BY <2>5
        <3>4. PartLen = d /\ PartStart = s + h /\ s + (h + d + z + g) <= wired /\ z > 0
            BY <2>3, <2>5, <3>1, <3>2, <3>3
        <3>5. PartStart \in Nat /\ PartLen \in Nat /\ PartStart + PartLen + 0 <= wired
            BY <1>3, <3>4
        <3>. QED  BY <1>2, <1>3, <1>4, <3>5, PartTooLong
    <2>7. CASE read_state.at = "Data"
        <3>1. /\ PartLen = f.size + Tag(f.enc)
              /\ PartStart = f.start + HeaderLen(f.enc) + f.pad
            BY <2>3, <2>4, <2>7 DEF PartLen, PartStart, DataStart
        <3>2. WireLen(f) = HeaderLen(f.enc) + f.pad + f.size + Tag(f.enc)
            BY DEF WireLen
        <3>. HIDE DEF f
        <3>3. PartStart \in Nat /\ PartLen \in Nat /\ PartStart + PartLen + 0 <= wired
            BY <2>3, <2>5, <3>1, <3>2
        <3>. QED  BY <1>2, <1>3, <1>4, <3>3, PartTooLong
    <2>. QED  BY <2>6, <2>7
<1>6. /\ PartStart = StartAfter(decoded) /\ BetweenFrames
      /\ PartLen = HeaderLen(Encrypted(readed))
    BY <1>1, <1>5 DEF PartStart, PartLen, ReaderInStep
<1>7. decoded = Len(frames)
    <2> SUFFICES ASSUME decoded # Len(frames) PROVE FALSE
        OBVIOUS
    <2> DEFINE f == frames[decoded + 1]
    <2>1. decoded < Len(frames) /\ decoded + 1 \in DOMAIN frames
        <3>1. \A d \in 0..Len(frames) : d # Len(frames) => d < Len(frames) /\ d + 1 \in 1..Len(frames)
            BY <1>3, NextIndex
        <3>. QED  BY <1>2, <1>3, <3>1, Zenon
    <2>2. /\ f \in Frame /\ f.start + WireLen(f) <= wired /\ f.enc = Encrypted(f.off)
        BY <1>1, <2>1, FrameAt, ChainFacts DEF FramesChain
    <2>3. PartStart = f.start /\ readed = f.off
        BY <1>6, <2>1 DEF BetweenFrames, StartAfter, OffAfter
    <2>4. /\ f.start \in Nat /\ f.pad \in Nat /\ f.size \in Nat
          /\ HeaderLen(f.enc) \in Nat /\ Tag(f.enc) \in Nat
          /\ WireLen(f) = HeaderLen(f.enc) + f.pad + f.size + Tag(f.enc)
        <3>1. /\ f.start \in Nat /\ f.pad \in Nat /\ f.size \in Nat /\ f.enc \in BOOLEAN
            BY <2>2 DEF Frame
        <3>2. HeaderLen(f.enc) \in Nat /\ Tag(f.enc) \in Nat
            BY <3>1, SizeFacts
        <3>. QED  BY <3>1, <3>2 DEF WireLen
    <2>5. PartLen = HeaderLen(f.enc)
        BY <1>6, <2>2, <2>3
    <2>. HIDE DEF f
    <2>6. /\ PartStart \in Nat /\ PartLen \in Nat /\ f.pad + f.size + Tag(f.enc) \in Nat
          /\ PartStart + PartLen + (f.pad + f.size + Tag(f.enc)) <= wired
        BY <2>2, <2>3, <2>4, <2>5
    <2>. QED  BY <1>2, <1>3, <1>4, <2>6, PartTooLong
<1>8. readed = written /\ StartAfter(decoded) = wired
    BY <1>1, <1>2, <1>6, <1>7, ChainFacts DEF BetweenFrames
<1>9. Len(read_buffer) = 0
    BY <1>3, <1>4, <1>6, <1>8
<1>10. read_buffer = <<>>
    BY <1>1, <1>9 DEF TypeOK
<1>. QED  BY <1>1, <1>2, <1>8, <1>10 DEF EndsInStep

(* poll_read hands out exactly the bytes given to poll_write, in order     *)
(* (stream.rs:215-326 and 328-353).                                        *)
THEOREM InOrder == Spec => []DeliveredInOrder
<1>. QED  BY InStep, DeliveredRun, PTL

(* decrypt is never called with another nonce, limit or boundary than      *)
(* encrypt was (stream.rs:156-204 and 223-306).                            *)
THEOREM AlwaysValid == Spec => []NeverInvalid
<1>1. IInv => NeverInvalid
    BY DEF IInv, EndsInStep, NeverInvalid
<1>. QED  BY <1>1, InStep, PTL

(* No nonce is used twice under the writer's key (stream.rs:186-204,       *)
(* cipher.rs:93-103).                                                      *)
THEOREM NoncesFresh == Spec => []NonceFresh
<1>. QED  BY InStep, NoncesApart, PTL

(* End of stream falls between frames for the caller, even when the        *)
(* transport ended inside one (stream.rs:90-116).                          *)
THEOREM WholeFrames == Spec => []EndsAtFrame
<1>. QED  BY InStep, EndsBetween, PTL

(* poll_shutdown loses nothing of what poll_write accepted                 *)
(* (stream.rs:118-149 and 362-367).                                        *)
THEOREM Graceful == Spec => []GracefulEnd
<1>. QED  BY InStep, EndsWhole, PTL

-----------------------------------------------------------------------------
(* The refinement: EncryptedStream implements the safety part of           *)
(* ByteStream.  Each step is one of the byte stream's, or none, for the two*)
(* callers.                                                                *)

(* The writing half.                                                       *)

(* poll_write takes bytes of its caller, padding and boundaries aside. *)
LEMMA WriteAccepts ==
    ASSUME IInv, NEW want \in 1..(MaxPacket + 1), NEW pad \in 0..PadMax, NEW k \in 0..PipeCap,
           PollWrite(want, pad, k)
    PROVE  \E n \in 1..MaxBytes : Bytes!Accept(n)
<1>. DEFINE len == Lesser(want, MaxPacket)
<1>1. len \in Nat /\ len > 0 /\ written \in Nat /\ MaxBytes \in Nat
    BY StreamAssumption DEF Lesser, IInv, TypeOK
<1>2. writer = "open" /\ written + len <= MaxBytes /\ written' = written + len
    BY DEF PollWrite
<1>3. UNCHANGED <<writer, delivered, reader>>
    BY DEF PollWrite, readVars
<1>. HIDE DEF len
<1>4. len \in 1..MaxBytes
    BY <1>1, <1>2
<1>. QED  BY <1>1, <1>2, <1>3, <1>4 DEF Bytes!Accept

(* poll_flush changes nothing that is seen, poll_shutdown only when it ends*)
LEMMA WriterMoves ==
    ASSUME FlushSome \/ ShutdownSome \/ Die
    PROVE  Bytes!Close \/ Bytes!Die \/ UNCHANGED Bytes!vars
<1>1. CASE FlushSome
    BY <1>1 DEF FlushSome, Flush, readVars, Bytes!vars
<1>2. CASE ShutdownSome
    BY <1>2 DEF ShutdownSome, Shutdown, readVars, Bytes!Close, Bytes!vars
<1>3. CASE Die
    BY <1>3 DEF Die, readVars, Bytes!Die
<1>. QED  BY <1>1, <1>2, <1>3

-----------------------------------------------------------------------------
(* The reading half.                                                       *)

(* What poll_read adds to what it gave before is the bytes that follow.    *)
LEMMA GrowsInOrder ==
    ASSUME IInv, IInv', NEW piece \in Seq(Nat), Len(piece) > 0,
           delivered' = delivered \o piece,
           UNCHANGED <<written, writer, reader>>, reader = "reading"
    PROVE  \E n \in 1..MaxBytes : Bytes!Deliver(n)
<1>. DEFINE had == Len(delivered)
            n == Len(piece)
<1>1. DeliveredInOrder
    BY DeliveredRun
<1>2. DeliveredInOrder'
    BY DeliveredRun, PTL
<1>3. /\ delivered \in Seq(Nat) /\ delivered' \in Seq(Nat)
      /\ written \in 0..MaxBytes /\ MaxBytes \in Nat
    BY StreamAssumption DEF IInv, TypeOK
<1>4. had \in Nat /\ n \in Nat /\ Len(delivered') = had + n
    BY <1>3, ConcatFacts
<1>5. delivered = Run(0, had) /\ delivered' = Run(0, had + n) /\ had + n <= written
    BY <1>1, <1>2, <1>4 DEF DeliveredInOrder
<1>. HIDE DEF had, n
<1>6. Run(0, had + n) = Run(0, had) \o Run(had, n)
    <2>1. Run(0, had) \o Run(0 + had, n) = Run(0, had + n)
        BY <1>4, RunConcat
    <2>. QED  BY <1>4, <2>1
<1>7. delivered' = delivered \o [i \in 1..n |-> Len(delivered) + i]
    BY <1>5, <1>6 DEF Run, had
<1>8. n > 0 /\ n \in 1..MaxBytes
    BY <1>3, <1>4, <1>5 DEF n
<1>. QED  BY <1>5, <1>7, <1>8 DEF Bytes!Deliver, had

LEMMA HandOutDelivers ==
    ASSUME IInv, IInv', NEW plain \in Seq(Nat), NEW pos \in 0..Len(plain), NEW m \in Nat,
           m > 0, pos + m <= Len(plain), HandOut(plain, pos, m),
           UNCHANGED <<written, writer, reader>>, reader = "reading"
    PROVE  \E n \in 1..MaxBytes : Bytes!Deliver(n)
<1>. DEFINE piece == SubSeq(plain, pos + 1, pos + m)
<1>1. pos + m \in pos..Len(plain)
    OBVIOUS
<1>2. piece \in Seq(Nat) /\ Len(piece) = (pos + m) - pos
    BY <1>1, PieceFacts
<1>3. Len(piece) > 0
    BY <1>2
<1>4. delivered' = delivered \o piece
    BY DEF HandOut
<1>. HIDE DEF piece
<1>. QED  BY <1>2, <1>3, <1>4, GrowsInOrder

(* The blocks of poll_read for a header and a padding are not seen. *)
LEMMA HeaderUnseen ==
    ASSUME IInv', NEW n \in 0..PipeCap, ReadHeader(n) \/ ReadPadding(n)
    PROVE  UNCHANGED Bytes!vars
<1>1. UNCHANGED <<written, writer, delivered>>
    BY DEF ReadHeader, ReadPadding, writeVars
<1>2. reader' # "invalid"
    BY DEF IInv, EndsInStep
<1>3. reader' = reader
    BY <1>2 DEF ReadHeader, ReadPadding
<1>. QED  BY <1>1, <1>3 DEF Bytes!vars

LEMMA DataDelivers ==
    ASSUME IInv, IInv', NEW n \in 0..PipeCap, NEW m \in 0..MaxPacket, ReadData(n, m)
    PROVE  (\E x \in 1..MaxBytes : Bytes!Deliver(x)) \/ UNCHANGED Bytes!vars
<1>. DEFINE buf == Filled(n)
<1>1. /\ UNCHANGED <<written, writer>> /\ reader = "reading" /\ TypeOK
      /\ buf \in Seq(Nat)
    BY FillFacts DEF ReadData, writeVars, Fill, IInv
<1>2. CASE Len(buf) < PartLen
    BY <1>1, <1>2 DEF ReadData, Bytes!vars
<1>3. CASE ~(Len(buf) < PartLen) /\ (~Encrypted(readed) \/ DataIn(buf) # {})
    <2>1. m \in 1..Len(Plain(buf)) /\ HandOut(Plain(buf), 0, m) /\ reader' = reader
        BY <1>3 DEF ReadData
    <2>2. Plain(buf) \in Seq(Nat)
        BY <1>1, PlainType
    <2>. HIDE DEF buf
    <2>3. 0 \in 0..Len(Plain(buf)) /\ m \in Nat /\ m > 0 /\ 0 + m <= Len(Plain(buf))
        BY <2>1, <2>2
    <2>. QED  BY <1>1, <2>1, <2>2, <2>3, HandOutDelivers
<1>4. CASE ~(Len(buf) < PartLen) /\ ~(~Encrypted(readed) \/ DataIn(buf) # {})
    <2>1. reader' = "invalid"
        BY <1>4 DEF ReadData
    <2>. QED  BY <2>1 DEF IInv, EndsInStep
<1>. QED  BY <1>2, <1>3, <1>4

LEMMA ReadyDelivers ==
    ASSUME IInv, IInv', NEW m \in 1..MaxPacket, ReadReady(m)
    PROVE  \E n \in 1..MaxBytes : Bytes!Deliver(n)
<1>1. /\ m \in 1..(Len(read_buffer) - read_state.pos)
      /\ HandOut(read_buffer, read_state.pos, m)
      /\ UNCHANGED <<written, writer, reader>> /\ reader = "reading"
    BY DEF ReadReady, writeVars
<1>2. read_buffer \in Seq(Nat) /\ read_state.pos \in Nat
    BY DEF IInv, TypeOK
<1>3. /\ read_state.pos \in 0..Len(read_buffer) /\ m \in Nat /\ m > 0
      /\ read_state.pos + m <= Len(read_buffer)
    BY <1>1, <1>2
<1>. QED  BY <1>1, <1>2, <1>3, HandOutDelivers

(* End of stream: after a shutdown clean and behind everything written.    *)
LEMMA EofEnds == ASSUME IInv, IInv', ReadEof PROVE Bytes!End
<1>1. /\ reader = "reading" /\ reader' \in {"eof", "short"}
      /\ UNCHANGED <<written, writer, delivered>> /\ fin
    BY DEF ReadEof, writeVars
<1>2. writer \in {"closed", "dead"}
    BY <1>1 DEF IInv, EndsInStep
<1>3. GracefulEnd'
    BY EndsWhole, PTL
<1>4. writer = "closed" => reader' = "eof" /\ Len(delivered) = written
    BY <1>1, <1>3 DEF GracefulEnd
<1>. QED  BY <1>1, <1>2, <1>4 DEF Bytes!End

-----------------------------------------------------------------------------
LEMMA InitRefines == Init => Bytes!Init
    BY DEF Init, Bytes!Init

LEMMA StepRefines == IInv /\ IInv' /\ [Next]_vars => [Bytes!Next]_(Bytes!vars)
<1>. SUFFICES ASSUME IInv, IInv', [Next]_vars
              PROVE  Bytes!Next \/ UNCHANGED Bytes!vars
    OBVIOUS
<1>1. CASE Write
    <2>1. PICK want \in 1..(MaxPacket + 1), pad \in 0..PadMax, k \in 0..PipeCap :
              PollWrite(want, pad, k)
        BY <1>1 DEF Write
    <2>. QED  BY <2>1, WriteAccepts DEF Bytes!Next
<1>2. CASE FlushSome \/ ShutdownSome \/ Die
    BY <1>2, WriterMoves DEF Bytes!Next
<1>3. CASE ReadSome
    <2>1. CASE \E n \in 0..PipeCap : ReadHeader(n) \/ ReadPadding(n)
        BY <2>1, HeaderUnseen
    <2>2. CASE \E n \in 0..PipeCap, m \in 0..MaxPacket : ReadData(n, m)
        BY <2>2, DataDelivers DEF Bytes!Next, Bytes!Read
    <2>3. CASE \E m \in 1..MaxPacket : ReadReady(m)
        BY <2>3, ReadyDelivers DEF Bytes!Next, Bytes!Read
    <2>4. CASE ReadEof
        BY <2>4, EofEnds DEF Bytes!Next, Bytes!Read
    <2>. QED  BY <1>3, <2>1, <2>2, <2>3, <2>4 DEF ReadSome
<1>4. CASE Ended \/ UNCHANGED vars
    BY <1>4 DEF Ended, vars, writeVars, readVars, Bytes!vars
<1>. QED  BY <1>1, <1>2, <1>3, <1>4 DEF Next

(* stream.rs:215-368: the two callers see a reliable stream of bytes, which*)
(* ends cleanly behind all of them when it was shut down.                  *)
THEOREM Refines == Spec => Bytes!Spec
<1>. QED  BY InitRefines, StepRefines, InStep, PTL DEF Spec, Bytes!Spec

-----------------------------------------------------------------------------
(* Induction, and functions defined by recursion.                          *)

(* Induction over the natural numbers, for a set of them.                  *)
LEMMA Induction ==
    ASSUME NEW S, \A n \in Nat : (\A m \in Nat : m < n => m \in S) => n \in S
    PROVE  \A n \in Nat : n \in S
<1>. DEFINE I == Nat \ S
<1>1. CASE I = {}
    BY <1>1
<1>2. CASE I # {}
    <2>1. IsWellFoundedOn(OpToRel(<, Nat), I)
        <3>1. I \subseteq Nat
            OBVIOUS
        <3>. HIDE DEF I
        <3>. QED  BY <3>1, NatLessThanWellFounded, IsWellFoundedOnSubset
    <2>2. PICK n \in I : \A y \in I : ~(<<y, n>> \in OpToRel(<, Nat))
        BY <1>2, <2>1, WFMin
    <2>3. \A m \in Nat : m < n => m \in S
        BY <2>2 DEF OpToRel
    <2>. QED  BY <2>2, <2>3
<1>. QED  BY <1>1, <1>2

(* The same, one number after the other, up to a last one.                 *)
LEMMA Upwards ==
    ASSUME NEW N \in Nat, NEW S, 0 \in S, \A n \in 1..N : n - 1 \in S => n \in S
    PROVE  \A n \in 0..N : n \in S
<1>. DEFINE T == {n \in Nat : n <= N => n \in S}
<1>1. ASSUME NEW n \in Nat, \A m \in Nat : m < n => m \in T PROVE n \in T
    <2>1. CASE n = 0
        BY <2>1
    <2>2. CASE n # 0
        <3>1. n - 1 \in T
            BY <1>1, <2>2
        <3>. QED  BY <2>2, <3>1
    <2>. QED  BY <2>1, <2>2
<1>2. \A n \in Nat : n \in T
    <2>. HIDE DEF T
    <2>. QED  BY <1>1, Induction
<1>. QED  BY <1>2

(* What is defined from one number to the next exists.                     *)
Defined(N, V, first, G) ==
    \E g \in [0..N -> V] : g[0] = first /\ \A n \in 1..N : g[n] = G[<<n, g[n - 1]>>]

LEMMA Recursion ==
    \A N \in Nat : \A V : \A first \in V : \A G \in [(1..N) \X V -> V] : Defined(N, V, first, G)
<1>. SUFFICES ASSUME NEW N \in Nat, NEW V, NEW first \in V, NEW G \in [(1..N) \X V -> V]
              PROVE  Defined(N, V, first, G)
    OBVIOUS
<1>. DEFINE To(n, g) == /\ g \in [0..n -> V] /\ g[0] = first
                        /\ \A k \in 1..n : g[k] = G[<<k, g[k - 1]>>]
            S == {n \in Nat : \E g : To(n, g)}
<1>1. 0 \in S
    <2>. DEFINE g == [k \in 0..0 |-> first]
    <2>1. To(0, g)
        OBVIOUS
    <2>. QED  BY <2>1
<1>2. ASSUME NEW n \in 1..N, n - 1 \in S PROVE n \in S
    <2>1. PICK g : To(n - 1, g)
        BY <1>2
    <2>. DEFINE h == [k \in 0..n |-> IF k = n THEN G[<<n, g[n - 1]>>] ELSE g[k]]
    <2>2. n - 1 \in 0..(n - 1) /\ n - 1 \in Nat /\ n \in Nat
        OBVIOUS
    <2>3. g[n - 1] \in V
        BY <2>1, <2>2
    <2>4. G[<<n, g[n - 1]>>] \in V
        BY <2>3
    <2>5. ASSUME NEW k \in 0..n PROVE h[k] \in V
        BY <2>1, <2>4
    <2>6. h \in [0..n -> V] /\ h[n] = G[<<n, g[n - 1]>>] /\ \A k \in 0..(n - 1) : h[k] = g[k]
        BY <2>5
    <2>. HIDE DEF h
    <2>7. ASSUME NEW k \in 1..n PROVE h[k] = G[<<k, h[k - 1]>>]
        <3>1. k - 1 \in 0..(n - 1)
            OBVIOUS
        <3>2. CASE k = n
            BY <2>6, <3>1, <3>2
        <3>3. CASE k # n
            <4>1. k \in 1..(n - 1) /\ k \in 0..(n - 1)
                BY <3>3
            <4>2. g[k] = G[<<k, g[k - 1]>>]
                BY <2>1, <4>1
            <4>. QED  BY <2>6, <3>1, <4>1, <4>2
        <3>. QED  BY <3>2, <3>3
    <2>8. h[0] = first
        BY <2>1, <2>6
    <2>9. To(n, h)
        BY <2>6, <2>7, <2>8
    <2>. QED  BY <2>2, <2>9
<1>3. \A n \in 0..N : n \in S
    <2>. HIDE DEF S
    <2>. QED  BY <1>1, <1>2, Upwards
<1>4. N \in S
    BY <1>3
<1>. QED  BY <1>4 DEF Defined

(* Division by the base of the words.                                      *)
LEMMA Divides ==
    ASSUME NEW x \in Nat
    PROVE  /\ x % Base \in 0..(Base - 1) /\ x \div Base \in Nat
           /\ x % Base = x - Base * (x \div Base)
<1>1. Base \in Nat /\ Base > 1
    BY NonceAssumption
<1>. QED  BY <1>1

-----------------------------------------------------------------------------
(* The words of a nonce, from the lowest one, and the number they stand   *)
(* for: Upper gives those of its upper words, from the top one down.       *)

Word == 0..(Base - 1)
Nonce == [1..NonceSize -> Word]

LEMMA NumbersAre ==
    /\ \A n \in 0..NonceSize : Numbers[n] \in Nat \ {0}
    /\ Numbers[0] = 1
    /\ \A n \in 1..NonceSize : Numbers[n] = Base * Numbers[n - 1]
<1>. DEFINE G == [x \in (1..NonceSize) \X Nat |-> Base * x[2]]
<1>1. Base \in Nat /\ Base > 1 /\ NonceSize \in Nat
    BY NonceAssumption
<1>2. G \in [(1..NonceSize) \X Nat -> Nat]
    BY <1>1
<1>3. \A n \in 1..NonceSize, v \in Nat : G[<<n, v>>] = Base * v
    OBVIOUS
<1>. HIDE DEF G
<1>4. PICK g \in [0..NonceSize -> Nat] :
          g[0] = 1 /\ \A n \in 1..NonceSize : g[n] = G[<<n, g[n - 1]>>]
    <2>1. 1 \in Nat
        OBVIOUS
    <2>2. Defined(NonceSize, Nat, 1, G)
        BY <1>1, <1>2, <2>1, Recursion, Zenon
    <2>. QED  BY <2>2 DEF Defined
<1>5. ASSUME NEW n \in 0..NonceSize PROVE g[n] = IF n = 0 THEN 1 ELSE Base * g[n - 1]
    <2>1. CASE n = 0
        BY <1>4, <2>1
    <2>2. CASE n # 0
        <3>1. n \in 1..NonceSize /\ n - 1 \in 0..NonceSize
            BY <1>1, <2>2
        <3>2. g[n - 1] \in Nat
            BY <3>1
        <3>. QED  BY <1>3, <1>4, <2>2, <3>1, <3>2
    <2>. QED  BY <2>1, <2>2
<1>6. g = [n \in 0..NonceSize |-> IF n = 0 THEN 1 ELSE Base * g[n - 1]]
    BY <1>5
<1>7. Numbers = [n \in 0..NonceSize |-> IF n = 0 THEN 1 ELSE Base * Numbers[n - 1]]
    BY <1>6, Zenon DEF Numbers
<1>8. /\ Numbers[0] = 1
      /\ \A n \in 1..NonceSize : Numbers[n] = Base * Numbers[n - 1]
    <2>1. 0 \in 0..NonceSize /\ \A n \in 1..NonceSize : n \in 0..NonceSize /\ n # 0
        BY <1>1
    <2>2. \A n \in 0..NonceSize : Numbers[n] = IF n = 0 THEN 1 ELSE Base * Numbers[n - 1]
        BY <1>7, Zenon
    <2>. QED  BY <2>1, <2>2
<1>9. \A n \in 0..NonceSize : n \in {k \in Nat : Numbers[k] \in Nat \ {0}}
    <2>. DEFINE S == {k \in Nat : Numbers[k] \in Nat \ {0}}
    <2>1. 0 \in S
        BY <1>8
    <2>2. ASSUME NEW n \in 1..NonceSize, n - 1 \in S PROVE n \in S
        <3>1. Numbers[n - 1] \in Nat \ {0}
            BY <2>2
        <3>2. \A v \in Nat \ {0} : Base * v \in Nat \ {0}
            BY <1>1
        <3>. QED  BY <1>8, <3>1, <3>2
    <2>. HIDE DEF S
    <2>3. \A n \in 0..NonceSize : n \in S
        BY <1>1, <2>1, <2>2, Upwards
    <2>. QED  BY <2>3 DEF S
<1>. QED  BY <1>8, <1>9

(* The number that the n upper words of a nonce stand for.                 *)
Upper(nonce) ==
    CHOOSE g \in [0..NonceSize -> Nat] :
        /\ g[0] = 0
        /\ \A n \in 1..NonceSize : g[n] = nonce[NonceSize + 1 - n] + Base * g[n - 1]

LEMMA UpperIs ==
    ASSUME NEW nonce \in Nonce
    PROVE  /\ Upper(nonce) \in [0..NonceSize -> Nat] /\ Upper(nonce)[0] = 0
           /\ \A n \in 1..NonceSize :
                 Upper(nonce)[n] = nonce[NonceSize + 1 - n] + Base * Upper(nonce)[n - 1]
<1>. DEFINE G == [x \in (1..NonceSize) \X Nat |-> nonce[NonceSize + 1 - x[1]] + Base * x[2]]
<1>1. Base \in Nat /\ Base > 1 /\ NonceSize \in Nat
    BY NonceAssumption
<1>2. \A n \in 1..NonceSize : nonce[NonceSize + 1 - n] \in Nat
    <2>1. \A n \in 1..NonceSize : NonceSize + 1 - n \in 1..NonceSize
        BY <1>1
    <2>. QED  BY <1>1, <2>1 DEF Nonce, Word
<1>3. G \in [(1..NonceSize) \X Nat -> Nat]
    BY <1>1, <1>2
<1>4. \A n \in 1..NonceSize, v \in Nat : G[<<n, v>>] = nonce[NonceSize + 1 - n] + Base * v
    OBVIOUS
<1>. HIDE DEF G
<1>5. PICK g \in [0..NonceSize -> Nat] :
          g[0] = 0 /\ \A n \in 1..NonceSize : g[n] = G[<<n, g[n - 1]>>]
    <2>1. 0 \in Nat
        OBVIOUS
    <2>2. Defined(NonceSize, Nat, 0, G)
        BY <1>1, <1>3, <2>1, Recursion, Zenon
    <2>. QED  BY <2>2 DEF Defined
<1>6. ASSUME NEW n \in 1..NonceSize
      PROVE  g[n] = nonce[NonceSize + 1 - n] + Base * g[n - 1]
    <2>1. n - 1 \in 0..NonceSize
        BY <1>1
    <2>. QED  BY <1>4, <1>5, <2>1
<1>. QED  BY <1>5, <1>6, Zenon DEF Upper

(* The carry into each word.                                               *)
LEMMA CarriesAre ==
    ASSUME NEW nonce \in Nonce, NEW value \in Nat
    PROVE  \E add : /\ \A i \in 1..NonceSize : add[i] \in Nat
                    /\ add[1] = value
                    /\ \A i \in 2..NonceSize : add[i] = (nonce[i - 1] + add[i - 1]) \div Base
                    /\ IncNonce(nonce, value) =
                          [i \in 1..NonceSize |-> (nonce[i] + add[i]) % Base]
<1>. DEFINE N == NonceSize - 1
            G == [x \in (1..N) \X Nat |-> (nonce[x[1]] + x[2]) \div Base]
<1>1. Base \in Nat /\ Base > 1 /\ NonceSize \in Nat \ {0}
    BY NonceAssumption
<1>0. Len(nonce) = NonceSize
    BY <1>1 DEF Nonce
<1>2. \A i \in 1..NonceSize : nonce[i] \in Nat
    BY <1>1 DEF Nonce, Word
<1>3. N \in Nat /\ \A i \in 1..N : i \in 1..NonceSize
    BY <1>1
<1>4. G \in [(1..N) \X Nat -> Nat]
    BY <1>2, <1>3, Divides
<1>5. \A i \in 1..N, v \in Nat : G[<<i, v>>] = (nonce[i] + v) \div Base
    OBVIOUS
<1>. HIDE DEF G
<1>6. PICK g \in [0..N -> Nat] : g[0] = value /\ \A i \in 1..N : g[i] = G[<<i, g[i - 1]>>]
    <2>. HIDE DEF N
    <2>1. Defined(N, Nat, value, G)
        BY <1>3, <1>4, Recursion, Zenon
    <2>. QED  BY <2>1 DEF Defined
<1>. DEFINE h == [i \in 1..NonceSize |-> g[i - 1]]
<1>7. \A i \in 1..NonceSize : i - 1 \in 0..N /\ (i # 1 => i - 1 \in 1..N /\ i - 1 - 1 \in 0..N)
    BY <1>1
<1>8. \A i \in 1..NonceSize : h[i] = g[i - 1] /\ h[i] \in Nat
    BY <1>7
<1>9. h = [i \in 1..NonceSize |-> h[i]]
    OBVIOUS
<1>. HIDE DEF h, N
<1>10. ASSUME NEW i \in 1..NonceSize
       PROVE  h[i] = IF i = 1 THEN value ELSE (nonce[i - 1] + h[i - 1]) \div Base
    <2>1. CASE i = 1
        BY <1>6, <1>8, <2>1
    <2>2. CASE i # 1
        <3>1. i - 1 \in 1..N /\ i - 1 \in 1..NonceSize /\ i - 1 - 1 \in 0..N
            BY <1>1, <1>7, <2>2
        <3>2. g[i - 1] = (nonce[i - 1] + g[i - 1 - 1]) \div Base
            BY <1>5, <1>6, <3>1
        <3>3. h[i] = g[i - 1] /\ h[i - 1] = g[i - 1 - 1]
            BY <1>8, <3>1
        <3>. QED  BY <2>2, <3>2, <3>3
    <2>. QED  BY <2>1, <2>2
<1>11. h = [i \in 1..NonceSize |->
              IF i = 1 THEN value ELSE (nonce[i - 1] + h[i - 1]) \div Base]
    BY <1>9, <1>10
<1>. DEFINE add == CHOOSE f : f = [i \in 1..Len(nonce) |->
                       IF i = 1 THEN value ELSE (nonce[i - 1] + f[i - 1]) \div Base]
<1>12. add = [i \in 1..NonceSize |->
                IF i = 1 THEN value ELSE (nonce[i - 1] + add[i - 1]) \div Base]
    <2>1. add = [i \in 1..Len(nonce) |->
                   IF i = 1 THEN value ELSE (nonce[i - 1] + add[i - 1]) \div Base]
        <3>1. h = [i \in 1..Len(nonce) |->
                     IF i = 1 THEN value ELSE (nonce[i - 1] + h[i - 1]) \div Base]
            BY <1>0, <1>11
        <3>. QED  BY <3>1, Zenon
    <2>. HIDE DEF add
    <2>. QED  BY <1>0, <2>1
<1>13. IncNonce(nonce, value) = [i \in 1..NonceSize |-> (nonce[i] + add[i]) % Base]
    <2>1. IncNonce(nonce, value) = [i \in 1..Len(nonce) |-> (nonce[i] + add[i]) % Base]
        BY Zenon DEF IncNonce
    <2>. HIDE DEF add
    <2>. QED  BY <1>0, <2>1
<1>. HIDE DEF add
<1>14. add[1] = value /\ \A i \in 2..NonceSize : add[i] = (nonce[i - 1] + add[i - 1]) \div Base
    <2>1. 1 \in 1..NonceSize /\ \A i \in 2..NonceSize : i \in 1..NonceSize /\ i # 1
        BY <1>1
    <2>2. \A i \in 1..NonceSize :
              add[i] = IF i = 1 THEN value ELSE (nonce[i - 1] + add[i - 1]) \div Base
        BY <1>12, Zenon
    <2>. QED  BY <2>1, <2>2
<1>15. \A i \in 0..NonceSize : i \in {k \in Nat : k = 0 \/ add[k] \in Nat}
    <2>. DEFINE S == {k \in Nat : k = 0 \/ add[k] \in Nat}
    <2>1. 0 \in S
        OBVIOUS
    <2>2. ASSUME NEW i \in 1..NonceSize, i - 1 \in S PROVE i \in S
        <3>1. CASE i = 1
            BY <1>14, <3>1
        <3>2. CASE i # 1
            <4>1. i \in 2..NonceSize /\ i - 1 \in 1..NonceSize /\ i - 1 # 0 /\ i \in Nat
                BY <1>1, <3>2
            <4>2. nonce[i - 1] + add[i - 1] \in Nat
                BY <1>2, <2>2, <4>1
            <4>. QED  BY <1>14, <4>1, <4>2, Divides
        <3>. QED  BY <3>1, <3>2
    <2>. HIDE DEF S
    <2>3. \A i \in 0..NonceSize : i \in S
        BY <1>1, <2>1, <2>2, Upwards
    <2>. QED  BY <2>3 DEF S
<1>16. \A i \in 1..NonceSize : add[i] \in Nat
    BY <1>1, <1>15
<1>. QED  BY <1>13, <1>14, <1>16

(* Products with the base, and with what is lost. *)
LEMMA Distributes ==
    /\ \A x, y \in Nat : Base * x \in Nat /\ Base * (x + y) = Base * x + Base * y
    /\ \A x, y \in Nat : x * (Base * y) = Base * (x * y) /\ x * y \in Nat
<1>1. Base \in Nat
    BY NonceAssumption
<1>. QED  BY <1>1

Number(nonce) == Upper(nonce)[NonceSize]

(* inc_nonce adds to the number of the nonce what it is given, but for     *)
(* what leaves the last word.                                              *)
LEMMA IncAdds ==
    ASSUME NEW nonce \in Nonce, NEW value \in Nat
    PROVE  /\ IncNonce(nonce, value) \in Nonce
           /\ Number(nonce) \in Nat
           /\ \E lost \in Nat :
                 Number(IncNonce(nonce, value)) + lost * Numbers[NonceSize] = Number(nonce) + value
<1>. DEFINE N == NonceSize
            next == IncNonce(nonce, value)
<1>1. Base \in Nat /\ Base > 1 /\ N \in Nat /\ N # 0
    BY NonceAssumption
<1>2. PICK add : /\ \A i \in 1..N : add[i] \in Nat
                 /\ add[1] = value
                 /\ \A i \in 2..N : add[i] = (nonce[i - 1] + add[i - 1]) \div Base
                 /\ next = [i \in 1..N |-> (nonce[i] + add[i]) % Base]
    BY CarriesAre
<1>3. ASSUME NEW i \in 1..N PROVE nonce[i] \in Nat /\ nonce[i] + add[i] \in Nat
    <2>1. add[i] \in Nat
        BY <1>2, Zenon
    <2>2. nonce[i] \in Nat
        BY <1>1 DEF Nonce, Word
    <2>. QED  BY <2>1, <2>2
<1>4. next \in Nonce
    BY <1>2, <1>3, Divides DEF Nonce, Word
<1>. DEFINE lost == (nonce[N] + add[N]) \div Base
            Into(i) == IF i = N + 1 THEN lost ELSE add[i]
<1>5. lost \in Nat /\ \A i \in 1..(N + 1) : Into(i) \in Nat
    <2>1. N \in 1..N
        BY <1>1
    <2>2. lost \in Nat
        BY <1>3, <2>1, Divides
    <2>3. \A i \in 1..(N + 1) : i = N + 1 \/ i \in 1..N
        BY <1>1
    <2>. HIDE DEF lost, N
    <2>. QED  BY <1>2, <2>2, <2>3
<1>6. ASSUME NEW i \in 1..N
      PROVE  next[i] = (nonce[i] + Into(i)) - Base * Into(i + 1)
    <2>1. next[i] = (nonce[i] + add[i]) % Base /\ Into(i) = add[i]
        BY <1>1, <1>2
    <2>2. Into(i + 1) = (nonce[i] + add[i]) \div Base
        <3>1. CASE i = N
            BY <1>1, <3>1
        <3>2. CASE i # N
            <4>1. i + 1 \in 2..N /\ i + 1 # N + 1 /\ i + 1 - 1 = i
                BY <1>1, <3>2
            <4>2. add[i + 1] = (nonce[i + 1 - 1] + add[i + 1 - 1]) \div Base
                BY <1>2, <4>1
            <4>. QED  BY <4>1, <4>2
        <3>. QED  BY <3>1, <3>2
    <2>3. PICK x \in Nat : x = nonce[i] + add[i]
        BY <1>3
    <2>4. x % Base = x - Base * (x \div Base)
        BY Divides
    <2>. HIDE DEF Into, lost, N, next
    <2>5. next[i] = x - Base * Into(i + 1) /\ x = nonce[i] + Into(i)
        BY <2>1, <2>2, <2>3, <2>4
    <2>. QED  BY <2>5
<1>7. /\ Upper(nonce) \in [0..N -> Nat] /\ Upper(nonce)[0] = 0
      /\ \A n \in 1..N : Upper(nonce)[n] = nonce[N + 1 - n] + Base * Upper(nonce)[n - 1]
    BY UpperIs
<1>8. /\ Upper(next) \in [0..N -> Nat] /\ Upper(next)[0] = 0
      /\ \A n \in 1..N : Upper(next)[n] = next[N + 1 - n] + Base * Upper(next)[n - 1]
    BY <1>4, UpperIs
<1>9. /\ \A n \in 0..N : Numbers[n] \in Nat
      /\ Numbers[0] = 1 /\ \A n \in 1..N : Numbers[n] = Base * Numbers[n - 1]
    BY NumbersAre
<1>. DEFINE S == {n \in Nat : Upper(next)[n] + lost * Numbers[n] = Upper(nonce)[n] + Into(N + 1 - n)}
<1>. HIDE DEF next, lost
<1>10. 0 \in S
    <2>1. Into(N + 1 - 0) = lost
        BY <1>1
    <2>. HIDE DEF Into
    <2>2. Upper(next)[0] + lost * Numbers[0] = Upper(nonce)[0] + Into(N + 1 - 0)
        BY <1>5, <1>7, <1>8, <1>9, <2>1
    <2>. QED  BY <2>2
<1>11. ASSUME NEW n \in 1..N, n - 1 \in S PROVE n \in S
    <2>. DEFINE i == N + 1 - n
    <2>1. i \in 1..N /\ i \in 1..(N + 1) /\ i + 1 = N + 1 - (n - 1) /\ i + 1 \in 1..(N + 1)
          /\ n - 1 \in 0..N /\ n \in Nat
        BY <1>1
    <2>2. Upper(next)[n - 1] + lost * Numbers[n - 1] = Upper(nonce)[n - 1] + Into(i + 1)
        BY <1>11, <2>1
    <2>. HIDE DEF i, Into
    <2>3. next[i] = (nonce[i] + Into(i)) - Base * Into(i + 1)
        BY <1>6, <2>1
    <2>4. /\ nonce[i] \in Nat /\ Into(i) \in Nat /\ Into(i + 1) \in Nat /\ next[i] \in Nat
          /\ Upper(next)[n - 1] \in Nat /\ Upper(nonce)[n - 1] \in Nat /\ Numbers[n - 1] \in Nat
        <3>1. next[i] \in Nat
            BY <1>1, <1>4, <2>1 DEF Nonce, Word
        <3>. QED  BY <1>3, <1>5, <1>7, <1>8, <1>9, <2>1, <3>1
    <2>5. (next[i] + Base * Upper(next)[n - 1]) + lost * (Base * Numbers[n - 1])
            = (nonce[i] + Base * Upper(nonce)[n - 1]) + Into(i)
        <3>1. PICK word \in Nat, above \in Nat, w \in Nat, was \in Nat, carry \in Nat, more \in Nat :
                /\ word = next[i] /\ above = Upper(next)[n - 1]
                /\ w = nonce[i] /\ was = Upper(nonce)[n - 1]
                /\ carry = Into(i) /\ more = Into(i + 1)
            BY <2>4
        <3>2. PICK range \in Nat : range = Numbers[n - 1]
            BY <2>4
        <3>3. word = (w + carry) - Base * more /\ above + lost * range = was + more
            BY <2>2, <2>3, <3>1, <3>2
        <3>4. (word + Base * above) + lost * (Base * range) = (w + Base * was) + carry
            <4>1. PICK gone \in Nat : gone = lost * range /\ lost * (Base * range) = Base * gone
                BY <1>5, Distributes
            <4>2. Base * (above + gone) = Base * above + Base * gone
                BY Distributes
            <4>3. Base * (was + more) = Base * was + Base * more
                BY Distributes
            <4>4. /\ Base * above \in Nat /\ Base * gone \in Nat
                  /\ Base * was \in Nat /\ Base * more \in Nat
                BY Distributes
            <4>5. Base * above + Base * gone = Base * was + Base * more
                BY <3>3, <4>1, <4>2, <4>3
            <4>. QED  BY <3>3, <4>1, <4>4, <4>5
        <3>. QED  BY <3>1, <3>2, <3>4
    <2>6. /\ Upper(next)[n] = next[i] + Base * Upper(next)[n - 1]
          /\ Upper(nonce)[n] = nonce[i] + Base * Upper(nonce)[n - 1]
          /\ Numbers[n] = Base * Numbers[n - 1]
        BY <1>7, <1>8, <1>9 DEF i
    <2>7. Upper(next)[n] + lost * Numbers[n] = Upper(nonce)[n] + Into(i)
        BY <2>5, <2>6, Zenon
    <2>. QED  BY <2>1, <2>7 DEF i
<1>12. \A n \in 0..N : n \in S
    <2>. HIDE DEF S, N
    <2>. QED  BY <1>1, <1>10, <1>11, Upwards
<1>13. Number(next) + lost * Numbers[N] = Number(nonce) + value
    <2>1. N \in 0..N /\ N + 1 - N = 1 /\ 1 # N + 1
        BY <1>1
    <2>2. N \in S
        BY <1>12, <2>1
    <2>3. Into(1) = value
        BY <1>2, <2>1
    <2>. QED  BY <2>1, <2>2, <2>3 DEF Number
<1>14. Number(nonce) \in Nat
    BY <1>1, <1>7 DEF Number
<1>. QED  BY <1>4, <1>5, <1>13, <1>14 DEF next

-----------------------------------------------------------------------------
(* The parts that are sealed, in their order.                              *)

(* What the head and the tail of the salt are. *)
LEMMA SaltNonces == ClientNonce \in Nonce /\ ServerNonce \in Nonce
<1>1. NonceSize \in Nat \ {0} /\ Salt \in Seq(Word) /\ NonceSize <= Len(Salt) /\ Len(Salt) \in Nat
    BY NonceAssumption DEF Word
<1>2. ASSUME NEW a \in 1..(Len(Salt) - NonceSize + 1)
      PROVE  SubSeq(Salt, a, a + NonceSize - 1) \in Nonce
    <2>1. /\ SubSeq(Salt, a, a + NonceSize - 1) \in Seq(Word)
          /\ Len(SubSeq(Salt, a, a + NonceSize - 1)) = NonceSize
        BY <1>1
    <2>2. \A s \in Seq(Word) : Len(s) = NonceSize => s \in [1..NonceSize -> Word]
        OBVIOUS
    <2>. QED  BY <2>1, <2>2 DEF Nonce
<1>3. ClientNonce \in Nonce
    <2>1. 1 \in 1..(Len(Salt) - NonceSize + 1) /\ 1 + NonceSize - 1 = NonceSize
        BY <1>1
    <2>2. SubSeq(Salt, 1, 1 + NonceSize - 1) \in Nonce
        BY <1>2, <2>1
    <2>. QED  BY <2>1, <2>2 DEF ClientNonce
<1>4. ServerNonce \in Nonce
    <2>. DEFINE a == Len(Salt) - NonceSize + 1
    <2>1. a \in 1..(Len(Salt) - NonceSize + 1) /\ a + NonceSize - 1 = Len(Salt)
        BY <1>1
    <2>2. SubSeq(Salt, a, a + NonceSize - 1) \in Nonce
        BY <1>2, <2>1
    <2>. QED  BY <2>1, <2>2 DEF ServerNonce
<1>. QED  BY <1>3, <1>4

(* The encrypted frames are the first ones, at most EncLimit + 1, and none *)
(* moves the nonce by more than PadMax + 1.                                *)
LEMMA EncryptedFrames ==
    ASSUME TypeOK, FramesChain
    PROVE  /\ \A k \in DOMAIN frames :
                 /\ frames[k].off >= k - 1
                 /\ frames[k].nonce <= (k - 1) * (PadMax + 2)
           /\ \A j, k \in DOMAIN frames : j < k /\ frames[k].enc => frames[j].enc
           /\ \A k \in DOMAIN frames : frames[k].enc => k <= EncLimit + 1
<1>1. DOMAIN frames = 1..Len(frames) /\ Len(frames) \in Nat /\ PadMax \in Nat /\ EncLimit \in Nat
    BY FrameAt, StreamAssumption
<1>2. ASSUME NEW k \in DOMAIN frames
      PROVE  /\ frames[k].off \in Nat /\ frames[k].size \in Nat \ {0} /\ frames[k].nonce \in Nat
             /\ frames[k].pad \in 0..PadMax /\ frames[k].enc \in BOOLEAN
             /\ frames[k].enc = Encrypted(frames[k].off)
             /\ AfterFrame(frames[k]) \in Nat /\ AfterFrame(frames[k]) <= frames[k].nonce + (PadMax + 2)
    <2>1. frames[k] \in Frame
        BY FrameAt
    <2>2. \A f \in Frame : AfterFrame(f) \in Nat /\ AfterFrame(f) <= f.nonce + (PadMax + 2)
        BY <1>1 DEF Frame, AfterFrame, AfterHeader, AfterData, HeaderInc, Greater
    <2>3. frames[k].enc = Encrypted(frames[k].off)
        BY DEF FramesChain
    <2>. QED  BY <2>1, <2>2, <2>3 DEF Frame
<1>3. ASSUME NEW k \in DOMAIN frames, k + 1 \in DOMAIN frames
      PROVE  /\ frames[k].off + frames[k].size = frames[k + 1].off
             /\ AfterFrame(frames[k]) = frames[k + 1].nonce
    <2>1. k < Len(frames)
        BY <1>1, <1>3
    <2>. QED  BY <2>1 DEF FramesChain, OffAfter, NonceAfter
<1>4. 1 \in DOMAIN frames => frames[1].off = 0 /\ frames[1].nonce = 0
    <2>1. 1 \in DOMAIN frames => 0 < Len(frames)
        BY <1>1
    <2>. QED  BY <2>1 DEF FramesChain, OffAfter, NonceAfter
<1>. DEFINE C == PadMax + 2
            S == {k \in Nat : k # 0 => frames[k].off >= k - 1 /\ frames[k].nonce <= (k - 1) * C}
<1>5. 0 \in S
    BY Zenon
<1>6. ASSUME NEW k \in 1..Len(frames), k - 1 \in S PROVE k \in S
    <2>1. CASE k = 1
        <3>1. (1 - 1) * C = 0
            BY <1>1
        <3>. QED  BY <1>1, <1>4, <2>1, <3>1
    <2>2. CASE k # 1
        <3>. DEFINE j == k - 1
        <3>1. j \in DOMAIN frames /\ j + 1 = k /\ j # 0 /\ k \in Nat /\ j \in Nat /\ k \in DOMAIN frames
            BY <1>1, <2>2
        <3>2. frames[j].off >= j - 1 /\ frames[j].nonce <= (j - 1) * C
            BY <1>6, <3>1
        <3>3. C \in Nat /\ (j - 1) * C + C = j * C
            BY <1>1, <3>1
        <3>4. (j - 1) * C \in Nat /\ j * C \in Nat
            BY <3>1, <3>3
        <3>. HIDE DEF j
        <3>5. /\ frames[j].off + frames[j].size = frames[k].off
              /\ AfterFrame(frames[j]) = frames[k].nonce
              /\ AfterFrame(frames[j]) <= frames[j].nonce + C
            BY <1>2, <1>3, <3>1
        <3>. HIDE DEF C
        <3>6. frames[k].off >= k - 1
            BY <1>2, <3>1, <3>2, <3>5
        <3>7. frames[k].nonce <= j * C
            <4>1. frames[j].nonce \in Nat /\ frames[k].nonce \in Nat
                BY <1>2, <3>1
            <4>2. PICK low \in Nat, high \in Nat : low = (j - 1) * C /\ high = j * C
                BY <3>4
            <4>3. low + C = high /\ frames[j].nonce <= low
                BY <3>2, <3>3, <4>2
            <4>4. frames[k].nonce <= frames[j].nonce + C
                BY <3>5
            <4>5. frames[k].nonce <= high
                BY <3>3, <4>1, <4>3, <4>4
            <4>. QED  BY <4>2, <4>5
        <3>8. k - 1 = j
            BY <3>1
        <3>. QED  BY <3>1, <3>6, <3>7, <3>8
    <2>. QED  BY <2>1, <2>2
<1>7. \A k \in 0..Len(frames) : k \in S
    <2>. HIDE DEF S
    <2>. QED  BY <1>1, <1>5, <1>6, Upwards
<1>8. \A k \in DOMAIN frames : frames[k].off >= k - 1 /\ frames[k].nonce <= (k - 1) * C
    <2>1. \A k \in DOMAIN frames : k \in 0..Len(frames) /\ k # 0
        BY <1>1
    <2>. QED  BY <1>7, <2>1
<1>9. ASSUME NEW j \in DOMAIN frames, NEW k \in DOMAIN frames, j < k, frames[k].enc
      PROVE  frames[j].enc
    <2>1. frames[j].off + frames[j].size <= frames[k].off
        BY <1>9 DEF FramesChain
    <2>. QED  BY <1>1, <1>2, <1>9, <2>1 DEF Encrypted
<1>10. ASSUME NEW k \in DOMAIN frames, frames[k].enc PROVE k <= EncLimit + 1
    BY <1>1, <1>2, <1>8, <1>10 DEF Encrypted
<1>. QED  BY <1>8, <1>9, <1>10

(* So they are 1 to Sealed / 2. *)
LEMMA SealedAre ==
    ASSUME TypeOK, FramesChain
    PROVE  \E m \in 0..Len(frames) :
              /\ Sealed = 2 * m /\ m <= EncLimit + 1
              /\ \A k \in 1..m : frames[k].enc
<1>1. DOMAIN frames = 1..Len(frames) /\ Len(frames) \in Nat /\ EncLimit \in Nat
    BY FrameAt, StreamAssumption
<1>. DEFINE E == {k \in DOMAIN frames : frames[k].enc}
<1>2. PICK m \in 0..Len(frames) : E = 1..m
    <2>. DEFINE S == {n \in Nat : n <= Len(frames) /\ \E m \in 0..n : {k \in E : k <= n} = 1..m}
    <2>1. 0 \in S
        <3>1. {k \in E : k <= 0} = 1..0
            BY <1>1
        <3>. QED  BY <1>1, <3>1
    <2>2. ASSUME NEW n \in 1..Len(frames), n - 1 \in S PROVE n \in S
        <3>1. PICK m \in 0..(n - 1) : {k \in E : k <= n - 1} = 1..m
            BY <2>2
        <3>2. CASE frames[n].enc
            <4>1. \A k \in 1..n : k \in E
                <5>. SUFFICES ASSUME NEW k \in 1..n PROVE k \in DOMAIN frames /\ frames[k].enc
                    OBVIOUS
                <5>1. k \in DOMAIN frames /\ n \in DOMAIN frames /\ (k < n \/ k = n)
                    BY <1>1
                <5>. QED  BY <3>2, <5>1, EncryptedFrames
            <4>. HIDE DEF E
            <4>2. {k \in E : k <= n} = 1..n
                <5>1. \A k \in E : k \in Nat /\ k >= 1
                    BY <1>1 DEF E
                <5>. QED  BY <4>1, <5>1
            <4>. QED  BY <1>1, <4>2
        <3>3. CASE ~frames[n].enc
            <4>1. \A k \in E : k \in Nat /\ k # n
                BY <1>1, <3>3
            <4>. HIDE DEF E
            <4>2. {k \in E : k <= n} = {k \in E : k <= n - 1}
                BY <4>1
            <4>3. m \in 0..n /\ n \in Nat /\ n <= Len(frames)
                BY <1>1
            <4>. QED  BY <3>1, <4>2, <4>3
        <3>. QED  BY <3>2, <3>3
    <2>3. Len(frames) \in S
        <3>. HIDE DEF S
        <3>1. \A n \in 0..Len(frames) : n \in S
            BY <1>1, <2>1, <2>2, Upwards
        <3>. QED  BY <1>1, <3>1
    <2>4. {k \in E : k <= Len(frames)} = E
        BY <1>1
    <2>. QED  BY <2>3, <2>4
<1>3. Cardinality(E) = m
    <2>1. Cardinality(1..m) = m
        BY FS_Interval
    <2>. QED  BY <1>2, <2>1
<1>4. m <= EncLimit + 1
    <2>1. CASE m = 0
        BY <1>1, <2>1
    <2>2. CASE m # 0
        <3>1. m \in 1..m
            BY <2>2
        <3>2. m \in DOMAIN frames /\ frames[m].enc
            BY <1>2, <3>1
        <3>. QED  BY <3>2, EncryptedFrames
    <2>. QED  BY <2>1, <2>2
<1>5. \A k \in 1..m : frames[k].enc
    BY <1>2
<1>. QED  BY <1>3, <1>4, <1>5 DEF Sealed

(* How far the nonce moved before a part that was sealed. *)
Moved(part) == IF part % 2 = 1 THEN frames[(part + 1) \div 2].nonce
               ELSE frames[part \div 2].nonce + HeaderInc(frames[part \div 2].pad)

LEMMA Halves ==
    \A part \in Nat : \/ \E k \in Nat : /\ part = 2 * k /\ part % 2 = 0 /\ part \div 2 = k
                      \/ \E k \in Nat : /\ part + 1 = 2 * k /\ part % 2 = 1
                                        /\ (part + 1) \div 2 = k
    OBVIOUS

LEMMA MovedUp ==
    ASSUME TypeOK, FramesChain
    PROVE  /\ Sealed \in Nat
           /\ \A part \in 1..Sealed :
                 /\ Moved(part) \in Nat /\ MovedBy(part) \in Nat \ {0}
                 /\ Moved(part) < Numbers[NonceSize]
                 /\ part + 1 \in 1..Sealed => Moved(part + 1) = Moved(part) + MovedBy(part)
           /\ 1 \in 1..Sealed => Moved(1) = 0
<1>1. DOMAIN frames = 1..Len(frames) /\ Len(frames) \in Nat /\ PadMax \in Nat /\ EncLimit \in Nat
    BY FrameAt, StreamAssumption
<1>2. PICK m \in 0..Len(frames) :
          Sealed = 2 * m /\ m <= EncLimit + 1 /\ \A k \in 1..m : frames[k].enc
    BY SealedAre
<1>3. ASSUME NEW k \in 1..m
      PROVE  /\ k \in DOMAIN frames /\ frames[k].enc /\ frames[k].nonce \in Nat
             /\ HeaderInc(frames[k].pad) \in 1..(PadMax + 1)
             /\ AfterFrame(frames[k]) = frames[k].nonce + HeaderInc(frames[k].pad) + 1
             /\ frames[k].nonce + HeaderInc(frames[k].pad) < Numbers[NonceSize]
    <2>1. k \in DOMAIN frames /\ frames[k].enc
        BY <1>1, <1>2
    <2>2. frames[k] \in Frame
        BY <2>1, FrameAt
    <2>3. \A f \in Frame : f.enc => /\ f.nonce \in Nat
                                    /\ HeaderInc(f.pad) \in 1..(PadMax + 1)
                                    /\ AfterFrame(f) = f.nonce + HeaderInc(f.pad) + 1
        BY <1>1 DEF Frame, AfterFrame, AfterHeader, AfterData, HeaderInc, Greater
    <2>4. frames[k].nonce <= (k - 1) * (PadMax + 2)
        BY <2>1, EncryptedFrames
    <2>5. (k - 1) * (PadMax + 2) + (PadMax + 2) <= (EncLimit + 1) * (PadMax + 2)
        <3>1. PICK d \in Nat : EncLimit + 1 = k + d
            <4>1. EncLimit + 1 - k \in Nat /\ EncLimit + 1 = k + (EncLimit + 1 - k)
                BY <1>1, <1>2
            <4>. QED  BY <4>1
        <3>. DEFINE C == PadMax + 2
        <3>2. C \in Nat
            BY <1>1
        <3>. HIDE DEF C
        <3>3. (k - 1) * C + C = k * C /\ (k + d) * C = k * C + d * C /\ d * C \in Nat /\ k * C \in Nat
            BY <1>2, <3>2
        <3>4. (k - 1) * C + C <= (EncLimit + 1) * C
            BY <3>1, <3>3
        <3>. QED  BY <3>4 DEF C
    <2>6. Numbers[NonceSize] \in Nat /\ (EncLimit + 1) * (PadMax + 2) <= Numbers[NonceSize]
        <3>1. NonceSize \in 0..NonceSize
            BY NonceAssumption
        <3>. QED  BY <3>1, NumbersAre, RangeAssumption
    <2>7. PICK low \in Nat, all \in Nat :
              low = (k - 1) * (PadMax + 2) /\ all = (EncLimit + 1) * (PadMax + 2)
        <3>1. k - 1 \in Nat /\ PadMax + 2 \in Nat /\ EncLimit + 1 \in Nat
            BY <1>1, <1>2
        <3>2. (k - 1) * (PadMax + 2) \in Nat /\ (EncLimit + 1) * (PadMax + 2) \in Nat
            BY <3>1
        <3>. QED  BY <3>2
    <2>8. frames[k].nonce + HeaderInc(frames[k].pad) < Numbers[NonceSize]
        BY <1>1, <2>1, <2>2, <2>3, <2>4, <2>5, <2>6, <2>7
    <2>. QED  BY <2>1, <2>2, <2>3, <2>8
<1>4. ASSUME NEW k \in 1..m, k + 1 \in 1..m
      PROVE  frames[k + 1].nonce = frames[k].nonce + HeaderInc(frames[k].pad) + 1
    <2>1. k \in DOMAIN frames /\ k < Len(frames)
        BY <1>1, <1>2, <1>4
    <2>2. AfterFrame(frames[k]) = NonceAfter(k)
        BY <2>1 DEF FramesChain
    <2>3. NonceAfter(k) = frames[k + 1].nonce
        BY <2>1 DEF NonceAfter
    <2>. QED  BY <1>3, <2>2, <2>3
<1>5. ASSUME NEW part \in 1..Sealed
      PROVE  /\ Moved(part) \in Nat /\ MovedBy(part) \in Nat \ {0}
             /\ Moved(part) < Numbers[NonceSize]
             /\ part + 1 \in 1..Sealed => Moved(part + 1) = Moved(part) + MovedBy(part)
    <2>1. part \in Nat /\ part >= 1 /\ part <= 2 * m /\ m \in Nat
        BY <1>2
    <2>2. CASE part % 2 = 1
        <3>1. PICK k \in Nat : part + 1 = 2 * k /\ (part + 1) \div 2 = k
            BY <2>1, <2>2, Halves
        <3>2. k \in 1..m /\ (part + 1) % 2 = 0
            BY <2>1, <3>1
        <3>3. Moved(part) = frames[k].nonce /\ MovedBy(part) = HeaderInc(frames[k].pad)
            BY <2>2, <3>1 DEF Moved, MovedBy
        <3>4. Moved(part + 1) = frames[k].nonce + HeaderInc(frames[k].pad)
            BY <3>1, <3>2 DEF Moved
        <3>. HIDE DEF Moved, MovedBy
        <3>5. NonceSize \in 0..NonceSize /\ Numbers[NonceSize] \in Nat
            <4>1. NonceSize \in 0..NonceSize
                BY NonceAssumption
            <4>. QED  BY <4>1, NumbersAre
        <3>. QED  BY <1>1, <1>3, <3>2, <3>3, <3>4, <3>5
    <2>3. CASE part % 2 # 1
        <3>1. PICK k \in Nat : part = 2 * k /\ part \div 2 = k
            BY <2>1, <2>3, Halves
        <3>2. k \in 1..m /\ (part + 1) % 2 = 1 /\ (part + 1 + 1) \div 2 = k + 1
            BY <2>1, <3>1
        <3>3. /\ Moved(part) = frames[k].nonce + HeaderInc(frames[k].pad) /\ MovedBy(part) = 1
            BY <2>3, <3>1 DEF Moved, MovedBy
        <3>4. part + 1 \in 1..Sealed => k + 1 \in 1..m
            BY <1>2, <2>1, <3>1
        <3>5. Moved(part + 1) = frames[k + 1].nonce
            BY <3>1, <3>2 DEF Moved
        <3>6. part + 1 \in 1..Sealed => Moved(part + 1) = Moved(part) + MovedBy(part)
            BY <1>4, <3>2, <3>3, <3>4, <3>5
        <3>7. Moved(part) \in Nat /\ Moved(part) < Numbers[NonceSize]
            BY <1>1, <1>3, <3>2, <3>3
        <3>. QED  BY <3>3, <3>6, <3>7
    <2>. QED  BY <2>2, <2>3
<1>6. 1 \in 1..Sealed => Moved(1) = 0
    <2>. SUFFICES ASSUME 1 \in 1..Sealed PROVE Moved(1) = 0
        OBVIOUS
    <2>1. 1 % 2 = 1 /\ (1 + 1) \div 2 = 1 /\ 0 < Len(frames)
        BY <1>1, <1>2
    <2>2. frames[1].nonce = 0
        BY <2>1 DEF FramesChain, NonceAfter
    <2>. QED  BY <2>1, <2>2 DEF Moved
<1>7. Sealed \in Nat
    BY <1>1, <1>2
<1>. QED  BY <1>5, <1>6, <1>7

(* The nonces of the parts, from one to the next. *)
LEMMA NoncesAre ==
    ASSUME NEW first \in Nonce, Sealed \in Nat, \A part \in 1..Sealed : MovedBy(part) \in Nat
    PROVE  /\ NonceOf(first)[1] = first
           /\ \A part \in 1..Sealed :
                 NonceOf(first)[part + 1] = IncNonce(NonceOf(first)[part], MovedBy(part))
<1>. DEFINE G == [x \in (1..Sealed) \X Nonce |-> IncNonce(x[2], MovedBy(x[1]))]
<1>1. G \in [(1..Sealed) \X Nonce -> Nonce]
    <2>1. \A part \in 1..Sealed, v \in Nonce : IncNonce(v, MovedBy(part)) \in Nonce
        BY IncAdds
    <2>. QED  BY <2>1
<1>2. \A part \in 1..Sealed, v \in Nonce : G[<<part, v>>] = IncNonce(v, MovedBy(part))
    OBVIOUS
<1>. HIDE DEF G
<1>3. PICK g \in [0..Sealed -> Nonce] :
          g[0] = first /\ \A part \in 1..Sealed : g[part] = G[<<part, g[part - 1]>>]
    <2>1. Defined(Sealed, Nonce, first, G)
        BY <1>1, Recursion, Zenon
    <2>. QED  BY <2>1 DEF Defined
<1>. DEFINE h == [part \in 1..(Sealed + 1) |-> g[part - 1]]
<1>4. h = [part \in 1..(Sealed + 1) |->
             IF part = 1 THEN first ELSE IncNonce(h[part - 1], MovedBy(part - 1))]
    <2>1. ASSUME NEW part \in 1..(Sealed + 1)
          PROVE  h[part] = IF part = 1 THEN first ELSE IncNonce(h[part - 1], MovedBy(part - 1))
        <3>1. h[part] = g[part - 1]
            OBVIOUS
        <3>2. CASE part = 1
            BY <1>3, <3>1, <3>2
        <3>3. CASE part # 1
            <4>1. /\ part - 1 \in 1..Sealed /\ part - 1 \in 1..(Sealed + 1)
                  /\ part - 1 - 1 \in 0..Sealed
                BY <3>3
            <4>2. h[part - 1] = g[part - 1 - 1] /\ g[part - 1 - 1] \in Nonce
                BY <4>1
            <4>. HIDE DEF h
            <4>3. g[part - 1] = IncNonce(g[part - 1 - 1], MovedBy(part - 1))
                BY <1>2, <1>3, <4>1, <4>2
            <4>. QED  BY <3>1, <3>3, <4>2, <4>3
        <3>. QED  BY <3>2, <3>3
    <2>2. h = [part \in 1..(Sealed + 1) |-> h[part]]
        OBVIOUS
    <2>. HIDE DEF h
    <2>. QED  BY <2>1, <2>2
<1>. HIDE DEF h
<1>5. NonceOf(first) = [part \in 1..(Sealed + 1) |->
          IF part = 1 THEN first ELSE IncNonce(NonceOf(first)[part - 1], MovedBy(part - 1))]
    BY <1>4, Zenon DEF NonceOf
<1>. DEFINE at == NonceOf(first)
<1>6. \A part \in 1..(Sealed + 1) :
          at[part] = IF part = 1 THEN first ELSE IncNonce(at[part - 1], MovedBy(part - 1))
    BY <1>5, Zenon
<1>. HIDE DEF at
<1>7. at[1] = first
    <2>1. 1 \in 1..(Sealed + 1)
        OBVIOUS
    <2>. QED  BY <1>6, <2>1
<1>8. ASSUME NEW part \in 1..Sealed PROVE at[part + 1] = IncNonce(at[part], MovedBy(part))
    <2>1. part + 1 \in 1..(Sealed + 1) /\ part + 1 # 1 /\ part + 1 - 1 = part
        OBVIOUS
    <2>. QED  BY <1>6, <2>1
<1>. QED  BY <1>7, <1>8 DEF at

-----------------------------------------------------------------------------
(* Their nonces differ.                                                    *)

(* A multiple of the range that is less than it is none. *)
LEMMA NoMultiple ==
    ASSUME NEW range \in Nat, NEW a \in Nat, NEW b \in Nat, NEW low \in Nat, NEW high \in Nat,
           NEW x \in Nat, NEW y \in Nat,
           x + a * range = y + low, x + b * range = y + high, low < high, high < range
    PROVE  FALSE
<1>1. a * range \in Nat /\ b * range \in Nat
    OBVIOUS
<1>2. CASE b <= a
    <2>1. PICK d \in Nat : a = b + d
        <3>1. a - b \in Nat /\ a = b + (a - b)
            BY <1>2
        <3>. QED  BY <3>1
    <2>2. a * range = b * range + d * range /\ d * range \in Nat
        BY <2>1
    <2>. QED  BY <1>1, <2>2
<1>3. CASE a < b
    <2>1. PICK d \in Nat : b = a + 1 + d
        <3>1. b - a - 1 \in Nat /\ b = a + 1 + (b - a - 1)
            BY <1>3
        <3>. QED  BY <3>1
    <2>2. b * range = a * range + range + d * range /\ d * range \in Nat
        BY <2>1
    <2>. QED  BY <1>1, <2>2
<1>. QED  BY <1>2, <1>3

LEMMA FreshFrom ==
    ASSUME TypeOK, FramesChain, NEW first \in Nonce,
           NEW i \in 1..Sealed, NEW j \in 1..Sealed, i < j
    PROVE  NonceOf(first)[i] # NonceOf(first)[j]
<1>. DEFINE at == NonceOf(first)
            range == Numbers[NonceSize]
<1>1. /\ Sealed \in Nat
      /\ \A part \in 1..Sealed :
            /\ Moved(part) \in Nat /\ MovedBy(part) \in Nat \ {0} /\ Moved(part) < range
            /\ part + 1 \in 1..Sealed => Moved(part + 1) = Moved(part) + MovedBy(part)
      /\ 1 \in 1..Sealed => Moved(1) = 0
    BY MovedUp
<1>2. at[1] = first /\ \A part \in 1..Sealed : at[part + 1] = IncNonce(at[part], MovedBy(part))
    BY <1>1, NoncesAre
<1>3. range \in Nat
    <2>1. NonceSize \in 0..NonceSize
        BY NonceAssumption
    <2>. QED  BY <2>1, NumbersAre
<1>. HIDE DEF at, range
<1>. DEFINE From(part) ==
                /\ at[part] \in Nonce
                /\ \E lost \in Nat : Number(at[part]) + lost * range = Number(first) + Moved(part)
            S == {n \in Nat : n # 0 => From(n)}
            T == {n \in Nat : \A k \in 1..Sealed : k < n => Moved(k) < Moved(n)}
<1>4. Number(first) \in Nat
    BY IncAdds
<1>5. \A n \in 0..Sealed : n \in S
    <2>1. 0 \in S
        BY Zenon
    <2>2. ASSUME NEW n \in 1..Sealed, n - 1 \in S PROVE n \in S
        <3>1. CASE n = 1
            <4>1. Number(first) + 0 * range = Number(first) + Moved(1)
                BY <1>1, <1>3, <1>4, <3>1
            <4>2. From(1)
                BY <1>2, <4>1
            <4>. QED  BY <3>1, <4>2
        <3>2. CASE n # 1
            <4>. DEFINE k == n - 1
            <4>1. k \in 1..Sealed /\ k + 1 = n /\ k # 0 /\ n \in Nat
                BY <1>1, <3>2
            <4>2. From(k)
                BY <2>2, <4>1
            <4>. HIDE DEF k
            <4>3. PICK lost \in Nat :
                      Number(at[k]) + lost * range = Number(first) + Moved(k)
                BY <4>2
            <4>4. at[n] = IncNonce(at[k], MovedBy(k)) /\ MovedBy(k) \in Nat /\ Moved(k) \in Nat
                  /\ Moved(n) = Moved(k) + MovedBy(k)
                BY <1>1, <1>2, <4>1
            <4>5. /\ at[n] \in Nonce /\ Number(at[k]) \in Nat /\ Number(at[n]) \in Nat
                  /\ \E more \in Nat :
                        Number(at[n]) + more * range = Number(at[k]) + MovedBy(k)
                <5>1. at[k] \in Nonce
                    BY <4>2
                <5>2. /\ at[n] \in Nonce /\ Number(at[k]) \in Nat
                      /\ \E more \in Nat :
                            Number(at[n]) + more * range = Number(at[k]) + MovedBy(k)
                    <6>1. PICK v \in Nonce, value \in Nat : v = at[k] /\ value = MovedBy(k)
                        BY <4>4, <5>1
                    <6>2. /\ IncNonce(v, value) \in Nonce /\ Number(v) \in Nat
                          /\ \E more \in Nat :
                                Number(IncNonce(v, value)) + more * range = Number(v) + value
                        BY IncAdds DEF range
                    <6>. QED  BY <4>4, <6>1, <6>2
                <5>3. Number(at[n]) \in Nat
                    BY <5>2, IncAdds
                <5>. QED  BY <5>2, <5>3
            <4>6. PICK more \in Nat : Number(at[n]) + more * range = Number(at[k]) + MovedBy(k)
                BY <4>5
            <4>7. /\ (more + lost) * range = more * range + lost * range
                  /\ more * range \in Nat /\ lost * range \in Nat
                BY <1>3
            <4>8. Number(at[n]) + (more + lost) * range = Number(first) + Moved(n)
                BY <1>4, <4>3, <4>4, <4>5, <4>6, <4>7
            <4>9. From(n)
                <5>1. more + lost \in Nat
                    OBVIOUS
                <5>. QED  BY <4>5, <4>8, <5>1
            <4>. QED  BY <4>1, <4>9
        <3>. QED  BY <3>1, <3>2
    <2>. HIDE DEF S
    <2>. QED  BY <1>1, <2>1, <2>2, Upwards
<1>6. \A n \in 0..Sealed : n \in T
    <2>1. 0 \in T
        OBVIOUS
    <2>2. ASSUME NEW n \in 1..Sealed, n - 1 \in T PROVE n \in T
        <3>. SUFFICES ASSUME NEW k \in 1..Sealed, k < n PROVE Moved(k) < Moved(n)
            OBVIOUS
        <3>. DEFINE p == n - 1
        <3>1. p \in 1..Sealed /\ p + 1 = n /\ (k < p \/ k = p)
            BY <1>1
        <3>2. k < p => Moved(k) < Moved(p)
            BY <2>2
        <3>. HIDE DEF p
        <3>3. Moved(n) = Moved(p) + MovedBy(p) /\ MovedBy(p) \in Nat \ {0}
              /\ Moved(p) \in Nat /\ Moved(k) \in Nat
            BY <1>1, <3>1
        <3>. QED  BY <3>1, <3>2, <3>3
    <2>. HIDE DEF T
    <2>. QED  BY <1>1, <2>1, <2>2, Upwards
<1>7. /\ i \in 0..Sealed /\ j \in 0..Sealed /\ i # 0 /\ j # 0
    BY <1>1
<1>8. Moved(i) < Moved(j) /\ Moved(j) < range /\ Moved(i) \in Nat /\ Moved(j) \in Nat
    <2>1. j \in T
        BY <1>6, <1>7
    <2>. QED  BY <1>1, <2>1
<1>9. From(i) /\ From(j)
    <2>1. i \in S /\ j \in S
        BY <1>5, <1>7
    <2>. QED  BY <1>7, <2>1
<1>10. Number(at[i]) \in Nat
    BY <1>9, IncAdds
<1>11. PICK a \in Nat, b \in Nat :
          /\ Number(at[i]) + a * range = Number(first) + Moved(i)
          /\ Number(at[j]) + b * range = Number(first) + Moved(j)
    BY <1>9
<1>. SUFFICES ASSUME at[i] = at[j] PROVE FALSE
    BY DEF at
<1>12. Number(at[i]) + b * range = Number(first) + Moved(j)
    BY <1>11
<1>13. PICK x \in Nat, y \in Nat, low \in Nat, high \in Nat :
          x = Number(at[i]) /\ y = Number(first) /\ low = Moved(i) /\ high = Moved(j)
    BY <1>4, <1>8, <1>10
<1>. QED  BY <1>3, <1>8, <1>11, <1>12, <1>13, NoMultiple

(* cipher.rs:41-56 and 93-111, stream.rs:185-204: no two parts of a        *)
(* direction are sealed under the same bytes.                              *)
THEOREM NonceBytesFresh == Spec => []WordsFresh
<1>1. IInv => WordsFresh
    <2>. SUFFICES ASSUME IInv, NEW first \in {ClientNonce, ServerNonce},
                         NEW i \in 1..Sealed, NEW j \in 1..Sealed,
                         NonceOf(first)[i] = NonceOf(first)[j]
                  PROVE  i = j
        BY DEF WordsFresh
    <2>1. TypeOK /\ FramesChain /\ first \in Nonce
        BY SaltNonces DEF IInv
    <2>2. i \in Nat /\ j \in Nat
        BY <2>1, MovedUp
    <2>3. ~(i < j) /\ ~(j < i)
        BY <2>1, FreshFrom
    <2>. QED  BY <2>2, <2>3
<1>. QED  BY <1>1, InStep, PTL
===============================================================================
