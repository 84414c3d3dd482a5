----------------------- MODULE ProxyConnectionsProofs -----------------------
(***************************************************************************)
(* Proofs about ProxyConnections, for every set of frames and of USBIP     *)
(* messages, any number of frames, any buffer and any segmentation: the    *)
(* WebSocket parser stays at the client's frames, unmasks every byte with  *)
(* its own byte of the key and answers once per part of a frame, and the   *)
(* USBIP server and the host agree on where a message ends.                *)
(***************************************************************************)
EXTENDS ProxyConnections, TLAPS

----------------------------------------------------------------------------
(* The inductive invariant of the WebSocket parser *)

Opcodes == {"binary", "text", "ping", "pong", "cont", "close", "bad"}
FrameRecord == [op : Opcodes, ext : {0, 2, 8}, mask : BOOLEAN, len : Nat]
FrameType == {f \in FrameRecord : f.len < LengthRange \/ (f.ext = 8 /\ f.len >= LengthTop)}
PlacedFrame == [frame : FrameType, start : Nat]
BlockType == [OPCODE : Opcodes, MASK : BOOLEAN, payload_len : Nat, skip_frame : BOOLEAN]
Counters == [1..MaxFrames -> Nat]
HeaderStatus == {"HEADER", "EXTEND_LENGTH", "MASK"}

\* The frames lie one after the other.
Layout ==
    /\ stream \in Seq(PlacedFrame)
    /\ Len(stream) <= MaxFrames
    /\ StartOf(1) = 0
    /\ \A i \in 1..Len(stream) : StartOf(i + 1) = StartOf(i) + Length(stream[i].frame)
    /\ \A i, j \in 1..(Len(stream) + 1) :
          i < j => StartOf(i) + Length(stream[i].frame) <= StartOf(j)

\* The buffer holds the stretch of the stream from head to rx.
Buffer ==
    /\ head \in Nat /\ remaining_len \in Nat /\ read_len \in Nat
    /\ rx = head + remaining_len
    /\ rx <= StreamLen
    /\ read_len <= remaining_len

\* The last recv ended in the payload of frame i.
CutIn(i) == PayloadOf(i) <= rx /\ rx < StartOf(i + 1)

\* Frame c is at the head of the buffer and its header is being read.
ReadingHeader(c) ==
    /\ head = StartOf(c)
    /\ ws_pc \in {"recv", "header"}
    /\ status = "HEADER" => read_len = 0
    /\ status # "HEADER" =>
          /\ c <= Len(stream)
          /\ wcb.MASK = stream[c].frame.mask
          /\ stream[c].frame.op # "cont" => wcb.OPCODE = stream[c].frame.op
    /\ status = "EXTEND_LENGTH" => read_len = 2 /\ stream[c].frame.ext > 0
    /\ status = "MASK" =>
          /\ stream[c].frame.mask
          /\ read_len = 2 + stream[c].frame.ext
          /\ wcb.payload_len = stream[c].frame.len
    /\ ws_pc = "recv" /\ c <= Len(stream) => rx < PayloadOf(c)

\* The payload of frame c is next, from its first byte, with the header still
\* at the head of the buffer, or from a later part.
ReadingPayload(c) ==
    /\ c <= Len(stream)
    /\ wcb.MASK = stream[c].frame.mask
    /\ stream[c].frame.op # "cont" => wcb.OPCODE = stream[c].frame.op
    /\ head + read_len + wcb.payload_len = StartOf(c + 1)
    /\ \/ head = StartOf(c) /\ read_len = HeaderLen(stream[c].frame) /\ ws_pc = "payload"
       \/ /\ read_len = 0 /\ PayloadOf(c) <= head /\ head < StartOf(c + 1)
          /\ ws_pc = "payload" \/ (ws_pc = "recv" /\ remaining_len = 0)
    /\ got[c] = (head + read_len) - PayloadOf(c)
    /\ wcb.MASK /\ wcb.OPCODE # "ping" => mask_at = got[c] % 4
    /\ stream[c].frame.op = "binary" =>
          cuts[c] = execs[c] + (IF ws_pc = "payload" /\ CutIn(c) THEN 1 ELSE 0)

\* Nothing was done for frame i yet, which may have been received in part.
Untouched(i) ==
    got[i] = 0 /\ execs[i] = 0 /\ cuts[i] = IF CutIn(i) THEN 1 ELSE 0

\* Where the parser is: at frame c, or at the end of the stream.
At(c) ==
    /\ status \in HeaderStatus => ReadingHeader(c)
    /\ status = "PAYLOAD" => ReadingPayload(c)
    /\ \A i \in 1..Len(stream) :
          /\ i < c /\ stream[i].frame.op = "binary" => execs[i] = 1 + cuts[i]
          /\ i > c \/ (i = c /\ status # "PAYLOAD") => Untouched(i)

Histories ==
    /\ got \in Counters /\ execs \in Counters /\ cuts \in Counters
    /\ \A i \in (Len(stream) + 1)..MaxFrames : got[i] = 0 /\ execs[i] = 0 /\ cuts[i] = 0

WsInv ==
    /\ wcb \in BlockType /\ status \in Open \cup {"HANDSHAKE", "CLOSING"}
    /\ Layout /\ Histories /\ garbled = FALSE
    /\ status \in Open => Buffer /\ \E c \in 1..(Len(stream) + 1) : At(c)
    /\ status \notin Open => stream = <<>> /\ ws_pc = "recv"
    /\ status = "HANDSHAKE" => rx = 0 /\ head = 0 /\ read_len = 0

----------------------------------------------------------------------------
(* Frames and where they are *)

LEMMA FrameSizes ==
    ASSUME NEW f \in FrameType
    PROVE  /\ f.op \in Opcodes /\ f.ext \in {0, 2, 8} /\ f.mask \in BOOLEAN /\ f.len \in Nat
           /\ HeaderLen(f) = IF f.mask THEN 6 + f.ext ELSE 2 + f.ext
           /\ HeaderLen(f) \in Nat /\ HeaderLen(f) >= 2
           /\ Length(f) = HeaderLen(f) + f.len /\ Length(f) \in Nat /\ Length(f) >= 2
<1>1. f.op \in Opcodes /\ f.ext \in {0, 2, 8} /\ f.mask \in BOOLEAN /\ f.len \in Nat
  BY DEF FrameType, FrameRecord
<1>2. HeaderLen(f) = IF f.mask THEN 6 + f.ext ELSE 2 + f.ext
  BY <1>1 DEF HeaderLen
<1>3. HeaderLen(f) \in Nat /\ HeaderLen(f) >= 2
  BY <1>1, <1>2
<1> HIDE DEF HeaderLen
<1> QED
  BY <1>1, <1>2, <1>3 DEF Length

LEMMA Places ==
    ASSUME Layout
    PROVE  /\ Len(stream) \in Nat
           /\ \A i \in 1..Len(stream) : stream[i].frame \in FrameType
           /\ \A i \in 1..(Len(stream) + 1) : StartOf(i) \in Nat /\ StartOf(i) <= StreamLen
           /\ \A i \in 1..Len(stream) :
                 /\ i + 1 \in 1..(Len(stream) + 1) /\ i \in 1..(Len(stream) + 1)
                 /\ PayloadOf(i) = StartOf(i) + HeaderLen(stream[i].frame)
                 /\ PayloadOf(i) \in Nat /\ StartOf(i) < PayloadOf(i)
                 /\ StartOf(i + 1) = PayloadOf(i) + stream[i].frame.len
                 /\ PayloadOf(i) <= StartOf(i + 1)
           /\ \A i, j \in 1..(Len(stream) + 1) : i < j => StartOf(i) < StartOf(j)
           /\ \A i, j \in 1..Len(stream) : i < j => StartOf(i + 1) <= StartOf(j)
           /\ StreamLen \in Nat
<1>1. Len(stream) \in Nat /\ stream \in Seq(PlacedFrame)
  BY DEF Layout
<1>2. \A i \in 1..Len(stream) : stream[i] \in PlacedFrame
  BY <1>1
<1>3. \A i \in 1..Len(stream) : stream[i].frame \in FrameType /\ stream[i].start \in Nat
  BY <1>2 DEF PlacedFrame
<1>4. ASSUME NEW i \in 1..Len(stream)
      PROVE  /\ StartOf(i) \in Nat /\ i + 1 \in 1..(Len(stream) + 1) /\ i \in 1..(Len(stream) + 1)
             /\ StartOf(i + 1) \in Nat
             /\ PayloadOf(i) = StartOf(i) + HeaderLen(stream[i].frame)
             /\ PayloadOf(i) \in Nat /\ StartOf(i) < PayloadOf(i)
             /\ StartOf(i + 1) = PayloadOf(i) + stream[i].frame.len
             /\ PayloadOf(i) <= StartOf(i + 1)
             /\ Length(stream[i].frame) \in Nat /\ Length(stream[i].frame) >= 2
             /\ StartOf(i + 1) = StartOf(i) + Length(stream[i].frame)
  <2>1. StartOf(i) \in Nat /\ i + 1 \in 1..(Len(stream) + 1) /\ i \in 1..(Len(stream) + 1)
    BY <1>1, <1>3 DEF StartOf
  <2>2. StartOf(i + 1) = StartOf(i) + Length(stream[i].frame)
    BY DEF Layout
  <2>3. PayloadOf(i) = StartOf(i) + HeaderLen(stream[i].frame)
    BY DEF PayloadOf
  <2>4. PICK h \in Nat, l \in Nat, n \in Nat :
           /\ h = HeaderLen(stream[i].frame) /\ h >= 2
           /\ l = stream[i].frame.len
           /\ n = Length(stream[i].frame) /\ n = h + l
    <3>1. PICK f \in FrameType : f = stream[i].frame
      BY <1>3
    <3>2. /\ f.len \in Nat /\ HeaderLen(f) \in Nat /\ HeaderLen(f) >= 2
          /\ Length(f) = HeaderLen(f) + f.len /\ Length(f) \in Nat
      BY FrameSizes
    <3> QED
      BY <3>1, <3>2
  <2>5. PICK a \in Nat : a = StartOf(i)
    BY <2>1
  <2>6. PayloadOf(i) = a + h /\ StartOf(i + 1) = a + n
    BY <2>2, <2>3, <2>4, <2>5
  <2>7. a + h \in Nat /\ a < a + h /\ a + n = (a + h) + l /\ a + h <= a + n /\ n >= 2 /\ a + n \in Nat
    <3>1. h >= 2 /\ n = h + l
      BY <2>4
    <3> QED
      BY <3>1
  <2> QED
    BY <2>1, <2>2, <2>3, <2>4, <2>5, <2>6, <2>7
<1>5. ASSUME NEW i \in 1..(Len(stream) + 1) PROVE StartOf(i) \in Nat
  <2>1. CASE i \in 1..Len(stream)
    BY <1>4, <2>1
  <2>2. CASE i = 1
    BY <2>2 DEF Layout
  <2>3. CASE i \notin 1..Len(stream) /\ i # 1
    <3>1. i - 1 \in 1..Len(stream) /\ (i - 1) + 1 = i
      BY <1>1, <2>3
    <3> QED
      BY <1>4, <3>1
  <2> QED
    BY <2>1, <2>2, <2>3
<1>6. ASSUME NEW i \in 1..(Len(stream) + 1), NEW j \in 1..(Len(stream) + 1), i < j
      PROVE  StartOf(i) < StartOf(j) /\ StartOf(i + 1) <= StartOf(j)
  <2>1. i \in 1..Len(stream)
    BY <1>1, <1>6
  <2>2. StartOf(i) + Length(stream[i].frame) <= StartOf(j)
    BY <1>6 DEF Layout
  <2>3. StartOf(i + 1) = StartOf(i) + Length(stream[i].frame) /\ Length(stream[i].frame) \in Nat
        /\ Length(stream[i].frame) >= 2
    BY <1>4, <2>1
  <2> QED
    BY <1>5, <2>2, <2>3
<1>7. Len(stream) + 1 \in 1..(Len(stream) + 1) /\ StreamLen = StartOf(Len(stream) + 1)
  BY <1>1 DEF StreamLen
<1>8. ASSUME NEW i \in 1..(Len(stream) + 1) PROVE StartOf(i) <= StreamLen
  <2>1. CASE i = Len(stream) + 1
    BY <1>5, <1>7, <2>1
  <2>2. CASE i < Len(stream) + 1
    BY <1>5, <1>6, <1>7, <2>2
  <2> QED
    BY <1>1, <2>1, <2>2
<1>9. \A i, j \in 1..Len(stream) : i < j => StartOf(i + 1) <= StartOf(j)
  BY <1>4, <1>6
<1> QED
  BY <1>1, <1>3, <1>4, <1>5, <1>6, <1>7, <1>8, <1>9

\* The frame that the head of the buffer is in.
LEMMA CurrentIs ==
    ASSUME Layout, head \in Nat, NEW c \in 1..Len(stream),
           StartOf(c) <= head, head < StartOf(c + 1)
    PROVE  /\ Current = c
           /\ AtFrame <=> head = StartOf(c)
           /\ Frame = stream[c].frame
<1> DEFINE at == {i \in 1..Len(stream) : StartOf(i) <= head /\ head < StartOf(i + 1)}
<1>1. c \in at
  OBVIOUS
<1>2. ASSUME NEW i \in at PROVE i = c
  <2>1. i \in 1..Len(stream) /\ StartOf(i) <= head /\ head < StartOf(i + 1) /\ Len(stream) \in Nat
    BY Places
  <2>2. StartOf(i) \in Nat /\ StartOf(c) \in Nat /\ StartOf(i + 1) \in Nat /\ StartOf(c + 1) \in Nat
    BY <2>1, Places
  <2>3. ~(i < c)
    BY <2>1, <2>2, Places
  <2>4. ~(c < i)
    BY <2>1, <2>2, Places
  <2> QED
    BY <2>1, <2>3, <2>4
<1>3. Current = IF at = {} THEN 0 ELSE CHOOSE i \in at : TRUE
  BY DEF Current
<1> HIDE DEF at
<1>4. Current = c
  BY <1>1, <1>2, <1>3
<1>5. c # 0
  BY Places
<1> QED
  BY <1>4, <1>5 DEF AtFrame, Frame

\* As long as the client sends nothing the frames stay where they are.
LEMMA SameStream ==
    ASSUME UNCHANGED stream
    PROVE  /\ Layout' = Layout /\ StreamLen' = StreamLen /\ Len(stream)' = Len(stream)
           /\ \A i : StartOf(i)' = StartOf(i) /\ PayloadOf(i)' = PayloadOf(i)
  BY DEF Layout, StreamLen, StartOf, PayloadOf

----------------------------------------------------------------------------
(* Headers *)

LEMMA TypesOfBlock ==
    ASSUME NEW w \in BlockType
    PROVE  w.OPCODE \in Opcodes /\ w.MASK \in BOOLEAN /\ w.payload_len \in Nat /\ w.skip_frame \in BOOLEAN
  BY DEF BlockType

\* A header is only looked at where the client put one.
LEMMA FrameIs ==
    ASSUME WsInv, status \in HeaderStatus, NEW c \in 1..(Len(stream) + 1), At(c),
           remaining_len >= 1 \/ status # "HEADER" \/ c <= Len(stream)
    PROVE  /\ c \in 1..Len(stream) /\ AtFrame /\ Frame = stream[c].frame
           /\ stream[c].frame \in FrameType /\ head = StartOf(c)
<1>1. Layout /\ Buffer /\ ReadingHeader(c)
  BY DEF WsInv, At, HeaderStatus, Open
<1>2. /\ Len(stream) \in Nat /\ head = StartOf(c) /\ head \in Nat /\ remaining_len \in Nat
      /\ head + remaining_len <= StreamLen /\ StreamLen \in Nat
  BY <1>1, Places DEF Buffer, ReadingHeader
<1>3. c <= Len(stream)
  <2>1. CASE status # "HEADER"
    BY <1>1, <2>1 DEF ReadingHeader
  <2>2. CASE remaining_len >= 1
    <3>1. SUFFICES ASSUME c = Len(stream) + 1 PROVE FALSE
      BY <1>2
    <3>2. head = StreamLen
      BY <1>2, <3>1 DEF StreamLen
    <3> QED
      BY <1>2, <2>2, <3>2
  <2> QED
    BY <2>1, <2>2
<1>4. c \in 1..Len(stream)
  BY <1>2, <1>3
<1>5. StartOf(c) \in Nat /\ StartOf(c + 1) \in Nat /\ StartOf(c) < StartOf(c + 1)
      /\ stream[c].frame \in FrameType
  <2>1. c + 1 \in 1..(Len(stream) + 1) /\ c < c + 1
    BY <1>2, <1>4
  <2> QED
    BY <1>1, <1>4, <2>1, Places
<1>6. AtFrame /\ Frame = stream[c].frame
  BY <1>1, <1>2, <1>4, <1>5, CurrentIs
<1> QED
  BY <1>2, <1>4, <1>5, <1>6

\* A step that reads of a header leaves the rest alone.
LEMMA HeaderStep ==
    ASSUME WsInv, status \in HeaderStatus, NEW c \in 1..(Len(stream) + 1), At(c),
           UNCHANGED <<stream, rx, head, remaining_len, history>>,
           status' \in Open, wcb' \in BlockType,
           read_len' \in Nat, read_len' <= remaining_len,
           status' \in HeaderStatus => ReadingHeader(c)',
           status' = "PAYLOAD" => ReadingPayload(c)'
    PROVE  WsInv'
<1>1. UNCHANGED stream /\ UNCHANGED rx /\ UNCHANGED head /\ UNCHANGED remaining_len
      /\ UNCHANGED got /\ UNCHANGED execs /\ UNCHANGED cuts /\ UNCHANGED garbled
  BY DEF history
<1>2. Layout' /\ Histories' /\ garbled' = FALSE
  BY <1>1, SameStream DEF WsInv, Histories, Counters
<1>3. Buffer'
  BY <1>1, SameStream DEF WsInv, Buffer, HeaderStatus, Open
<1>4. \A i : CutIn(i)' = CutIn(i) /\ Untouched(i)' = Untouched(i)
  BY <1>1, SameStream DEF CutIn, Untouched
<1>5. At(c)'
  <2>1. ASSUME NEW i \in 1..Len(stream)
        PROVE  /\ i < c /\ stream[i].frame.op = "binary" => execs[i] = 1 + cuts[i]
               /\ i > c \/ i = c => Untouched(i)
    BY DEF At, HeaderStatus
  <2> QED
    BY <1>1, <1>4, <2>1 DEF At
<1>6. c \in 1..(Len(stream') + 1)
  BY <1>1
<1>7. status' # "HANDSHAKE" /\ status' \in Open \cup {"HANDSHAKE", "CLOSING"}
  BY DEF Open
<1> QED
  BY <1>2, <1>3, <1>5, <1>6, <1>7 DEF WsInv

\* The header is complete.
LEMMA PayloadBegins ==
    ASSUME WsInv, status \in HeaderStatus, NEW c \in 1..Len(stream), At(c),
           UNCHANGED <<stream, rx, head, remaining_len, history>>,
           wcb' \in BlockType, wcb'.MASK = stream[c].frame.mask,
           stream[c].frame.op # "cont" => wcb'.OPCODE = stream[c].frame.op,
           wcb'.payload_len = stream[c].frame.len,
           read_len' = HeaderLen(stream[c].frame), ws_pc' = "payload",
           stream[c].frame.mask => mask_at' = 0
    PROVE  ReadingPayload(c)'
<1>1. UNCHANGED stream /\ UNCHANGED rx /\ UNCHANGED head
      /\ UNCHANGED got /\ UNCHANGED execs /\ UNCHANGED cuts
  BY DEF history
<1>2. Layout /\ head = StartOf(c) /\ Untouched(c) /\ Len(stream) \in Nat
  BY Places DEF WsInv, At, ReadingHeader, HeaderStatus
<1>3. /\ PayloadOf(c) = StartOf(c) + HeaderLen(stream[c].frame)
      /\ StartOf(c + 1) = PayloadOf(c) + stream[c].frame.len
      /\ StartOf(c) \in Nat /\ PayloadOf(c) \in Nat
  BY <1>2, Places
<1>4. /\ head + read_len' + wcb'.payload_len = StartOf(c + 1)
      /\ head + read_len' = PayloadOf(c)
  BY <1>2, <1>3
<1>5. got[c] = (head + read_len') - PayloadOf(c) /\ 0 = got[c] % 4
  <2>1. got[c] = 0
    BY <1>2 DEF Untouched
  <2>2. (head + read_len') - PayloadOf(c) = 0
    <3>1. PICK n \in Nat : n = PayloadOf(c)
      BY <1>3
    <3>2. head + read_len' = n /\ n - n = 0
      BY <1>4, <3>1
    <3> QED
      BY <3>1, <3>2
  <2>3. 0 % 4 = 0
    OBVIOUS
  <2> QED
    BY <2>1, <2>2, <2>3
<1>6. execs[c] = 0 /\ cuts[c] = 0 + (IF CutIn(c) THEN 1 ELSE 0) /\ CutIn(c)' = CutIn(c)
  BY <1>1, <1>2, SameStream DEF Untouched, CutIn
<1>7. c <= Len(stream)
  BY <1>2
<1> QED
  BY <1>1, <1>2, <1>4, <1>5, <1>6, <1>7, SameStream DEF ReadingPayload

\* Which step is next says where the parser is.
LEMMA HeaderNext ==
    ASSUME WsInv, ws_pc = "header"
    PROVE  /\ status \in HeaderStatus /\ Layout /\ Buffer /\ wcb \in BlockType
           /\ \E c \in 1..(Len(stream) + 1) : At(c) /\ ReadingHeader(c)
<1>1. status \in Open
  BY DEF WsInv
<1>2. PICK c \in 1..(Len(stream) + 1) : At(c)
  BY <1>1 DEF WsInv
<1>3. status # "PAYLOAD"
  BY <1>2 DEF At, ReadingPayload
<1>4. status \in HeaderStatus
  BY <1>1, <1>3 DEF Open, HeaderStatus
<1> QED
  BY <1>1, <1>2, <1>4 DEF WsInv, At

LEMMA HeaderWaitKeeps ==
    ASSUME WsInv, HeaderWait
    PROVE  WsInv'
<1>1. PICK c \in 1..(Len(stream) + 1) : At(c) /\ ReadingHeader(c)
  BY HeaderNext DEF HeaderWait
<1>2. status \in HeaderStatus /\ Layout /\ Buffer /\ wcb \in BlockType
  BY HeaderNext DEF HeaderWait
<1>3. /\ UNCHANGED <<stream, rx, head, remaining_len, history>>
      /\ UNCHANGED <<stream, read_len, status, wcb, rx, head>> /\ ws_pc' = "recv"
  BY DEF HeaderWait, fixed
<1>4. c <= Len(stream) => rx < PayloadOf(c)
  <2>1. SUFFICES ASSUME c <= Len(stream) PROVE rx < PayloadOf(c)
    OBVIOUS
  <2>2. /\ c \in 1..Len(stream) /\ Frame = stream[c].frame /\ head = StartOf(c)
        /\ stream[c].frame \in FrameType
    BY <1>1, <1>2, <2>1, FrameIs
  <2>3. PICK f \in FrameType : f = stream[c].frame
    BY <2>2
  <2>4. PayloadOf(c) = head + HeaderLen(f)
    BY <1>2, <2>2, <2>3, Places
  <2>5. rx = head + remaining_len /\ head \in Nat /\ remaining_len \in Nat
    BY <1>2 DEF Buffer
  <2>6. HeaderLen(f) \in Nat /\ f.ext \in Nat /\ remaining_len < HeaderLen(f)
    <3>0. /\ HeaderLen(f) = IF f.mask THEN 6 + f.ext ELSE 2 + f.ext
          /\ HeaderLen(f) \in Nat /\ HeaderLen(f) >= 2 /\ f.ext \in {0, 2, 8} /\ f.ext \in Nat
          /\ f.mask \in BOOLEAN
      BY FrameSizes
    <3>1. CASE status = "HEADER"
      BY <2>5, <3>0, <3>1 DEF HeaderWait
    <3>2. CASE status = "EXTEND_LENGTH"
      <4>1. remaining_len < 2 + f.ext
        BY <1>1, <2>2, <2>3, <3>2 DEF HeaderWait, ReadingHeader
      <4> QED
        BY <2>5, <3>0, <4>1
    <3>3. CASE status = "MASK"
      <4>1. remaining_len < 2 + f.ext + 4 /\ f.mask
        BY <1>1, <2>2, <2>3, <3>3 DEF HeaderWait, ReadingHeader
      <4> QED
        BY <2>5, <3>0, <4>1
    <3> QED
      BY <1>2, <3>1, <3>2, <3>3 DEF HeaderStatus
  <2> QED
    BY <2>4, <2>5, <2>6
<1>5. ReadingHeader(c)'
  BY <1>1, <1>3, <1>4, SameStream DEF ReadingHeader
<1>6. status' \in Open /\ status' # "PAYLOAD" /\ read_len' \in Nat /\ read_len' <= remaining_len
  BY <1>2, <1>3 DEF HeaderStatus, Open, Buffer
<1> QED
  BY <1>1, <1>2, <1>3, <1>5, <1>6, HeaderStep

LEMMA HeaderMaskKeeps ==
    ASSUME WsInv, HeaderMask
    PROVE  WsInv'
<1>1. PICK c \in 1..(Len(stream) + 1) : At(c) /\ ReadingHeader(c)
  BY HeaderNext DEF HeaderMask
<1>2. status \in HeaderStatus /\ Layout /\ Buffer /\ wcb \in BlockType /\ status = "MASK"
  BY HeaderNext DEF HeaderMask
<1>3. /\ UNCHANGED <<stream, rx, head, remaining_len, history>> /\ UNCHANGED wcb
      /\ ws_pc' = "payload" /\ status' = "PAYLOAD" /\ mask_at' = 0
      /\ read_len' = read_len + 4 /\ remaining_len >= read_len + 4
  BY DEF HeaderMask, fixed
<1>4. /\ c \in 1..Len(stream) /\ stream[c].frame \in FrameType
  BY <1>1, <1>2, FrameIs
<1>5. /\ stream[c].frame.mask /\ read_len = 2 + stream[c].frame.ext
      /\ wcb.payload_len = stream[c].frame.len /\ wcb.MASK = stream[c].frame.mask
      /\ stream[c].frame.op # "cont" => wcb.OPCODE = stream[c].frame.op
  BY <1>1, <1>2 DEF ReadingHeader
<1>6. read_len' = HeaderLen(stream[c].frame)
  <2>1. PICK f \in FrameType : f = stream[c].frame
    BY <1>4
  <2>2. HeaderLen(f) = 6 + f.ext /\ f.ext \in Nat
    <3>1. f.mask
      BY <1>5, <2>1
    <3>2. f.ext \in {0, 2, 8} /\ HeaderLen(f) = IF f.mask THEN 6 + f.ext ELSE 2 + f.ext
      BY FrameSizes
    <3> QED
      BY <3>1, <3>2
  <2> QED
    BY <1>3, <1>5, <2>1, <2>2, SMTT(30)
<1>7. ReadingPayload(c)'
  BY <1>1, <1>2, <1>3, <1>4, <1>5, <1>6, PayloadBegins
<1>8. status' \in Open /\ status' \notin HeaderStatus /\ read_len' \in Nat /\ read_len' <= remaining_len
  BY <1>2, <1>3 DEF HeaderStatus, Open, Buffer
<1> QED
  BY <1>1, <1>2, <1>3, <1>7, <1>8, HeaderStep

\* The length of a frame that is not refused fits in 32 bits.
LEMMA LengthFits ==
    ASSUME NEW f \in FrameType, ~(f.ext = 8 /\ f.len >= LengthTop)
    PROVE  f.len % LengthRange = f.len
<1>1. f.len \in Nat /\ f.len < LengthRange /\ LengthRange \in Nat \ {0}
  BY FrameSizes, WsStreamAssumption DEF FrameType
<1> QED
  BY <1>1

LEMMA HeaderLengthKeeps ==
    ASSUME WsInv, HeaderLength
    PROVE  WsInv' \/ Return
<1>0. SUFFICES ASSUME ~Return PROVE WsInv'
  OBVIOUS
<1>1. PICK c \in 1..(Len(stream) + 1) : At(c) /\ ReadingHeader(c)
  BY HeaderNext DEF HeaderLength
<1>2. status \in HeaderStatus /\ Layout /\ Buffer /\ wcb \in BlockType /\ status = "EXTEND_LENGTH"
  BY HeaderNext DEF HeaderLength
<1>3. /\ c \in 1..Len(stream) /\ stream[c].frame \in FrameType /\ Frame = stream[c].frame
  BY <1>1, <1>2, FrameIs
<1>4. PICK f \in FrameType : f = stream[c].frame
  BY <1>3
<1>5. /\ UNCHANGED <<stream, rx, head, remaining_len, history>> /\ UNCHANGED stream
      /\ status' = IF wcb.MASK THEN "MASK" ELSE "PAYLOAD"
      /\ ws_pc' = IF wcb.MASK THEN "header" ELSE "payload"
      /\ read_len' = read_len + f.ext /\ remaining_len >= read_len + f.ext
      /\ wcb' = [wcb EXCEPT !.payload_len = f.len]
      /\ UNCHANGED head
  <2>1. ~(f.ext = 8 /\ f.len >= LengthTop)
    BY <1>0, <1>3, <1>4 DEF HeaderLength
  <2>2. f.len % LengthRange = f.len
    BY <1>4, <2>1, LengthFits
  <2> QED
    BY <1>0, <1>3, <1>4, <2>1, <2>2 DEF HeaderLength, fixed
<1>6. /\ read_len = 2 /\ wcb.MASK = f.mask
      /\ f.op # "cont" => wcb.OPCODE = f.op
      /\ head = StartOf(c)
  BY <1>1, <1>2, <1>4 DEF ReadingHeader
<1>7. f.ext \in Nat /\ f.len \in Nat /\ f.mask \in BOOLEAN
      /\ HeaderLen(f) = IF f.mask THEN 6 + f.ext ELSE 2 + f.ext
  BY FrameSizes
<1>8. /\ wcb' \in BlockType /\ wcb'.MASK = wcb.MASK /\ wcb'.OPCODE = wcb.OPCODE
      /\ wcb'.payload_len = f.len
  BY <1>2, <1>5, <1>7 DEF BlockType
<1>9. status' \in Open /\ read_len' \in Nat /\ read_len' <= remaining_len /\ read_len' = 2 + f.ext
  BY <1>5, <1>6, <1>7 DEF Open
<1>10. CASE f.mask
  <2>1. status' = "MASK" /\ ws_pc' = "header"
    BY <1>5, <1>6, <1>10
  <2>2. c <= Len(stream)
    BY <1>2, <1>3, Places
  <2>3. ReadingHeader(c)'
    BY <1>4, <1>5, <1>6, <1>8, <1>9, <1>10, <2>1, <2>2, SameStream DEF ReadingHeader
  <2> QED
    BY <1>1, <1>2, <1>5, <1>8, <1>9, <2>1, <2>3, HeaderStep
<1>11. CASE ~f.mask
  <2>1. status' = "PAYLOAD" /\ ws_pc' = "payload" /\ read_len' = HeaderLen(f)
    BY <1>5, <1>6, <1>7, <1>9, <1>11
  <2>2. ReadingPayload(c)'
    BY <1>1, <1>2, <1>3, <1>4, <1>5, <1>6, <1>8, <1>11, <2>1, PayloadBegins
  <2> QED
    BY <1>1, <1>2, <1>5, <1>8, <1>9, <2>1, <2>2, HeaderStep DEF HeaderStatus
<1> QED
  BY <1>7, <1>10, <1>11

LEMMA HeaderBytesKeeps ==
    ASSUME WsInv, HeaderBytes
    PROVE  WsInv' \/ Return
<1>0. SUFFICES ASSUME ~Return PROVE WsInv'
  OBVIOUS
<1>1. PICK c \in 1..(Len(stream) + 1) : At(c) /\ ReadingHeader(c)
  BY HeaderNext DEF HeaderBytes
<1>2. /\ status \in HeaderStatus /\ Layout /\ Buffer /\ wcb \in BlockType /\ status = "HEADER"
      /\ remaining_len >= 2 /\ remaining_len \in Nat
  BY HeaderNext DEF HeaderBytes, Buffer
<1>3. /\ c \in 1..Len(stream) /\ stream[c].frame \in FrameType /\ Frame = stream[c].frame /\ AtFrame
  <2>1. remaining_len >= 1
    BY <1>2
  <2> QED
    BY <1>1, <1>2, <2>1, FrameIs
<1>4. PICK f \in FrameType : f = stream[c].frame
  BY <1>3
<1>5. /\ UNCHANGED <<stream, rx, head, remaining_len, history>> /\ UNCHANGED stream /\ UNCHANGED head
      /\ read_len' = 2
      /\ wcb' = [wcb EXCEPT !.OPCODE = OpcodeOf(f), !.MASK = f.mask,
                            !.payload_len = CASE f.ext = 2 -> 126
                                              [] f.ext = 8 -> 127
                                              [] OTHER     -> f.len]
      /\ status' = IF f.ext > 0 THEN "EXTEND_LENGTH" ELSE IF f.mask THEN "MASK" ELSE "PAYLOAD"
      /\ ws_pc' = IF status' = "PAYLOAD" THEN "payload" ELSE "header"
  BY <1>0, <1>3, <1>4 DEF HeaderBytes, fixed
<1>6. /\ f.ext \in {0, 2, 8} /\ f.ext \in Nat /\ f.len \in Nat /\ f.mask \in BOOLEAN /\ f.op \in Opcodes
      /\ HeaderLen(f) = IF f.mask THEN 6 + f.ext ELSE 2 + f.ext
  BY FrameSizes
<1>7. OpcodeOf(f) \in Opcodes /\ (f.op # "cont" => OpcodeOf(f) = f.op)
  BY <1>2, <1>6, TypesOfBlock DEF OpcodeOf
<1>8. /\ wcb' \in BlockType /\ wcb'.MASK = f.mask /\ (f.op # "cont" => wcb'.OPCODE = f.op)
      /\ f.ext = 0 => wcb'.payload_len = f.len
  <2> DEFINE n == CASE f.ext = 2 -> 126 [] f.ext = 8 -> 127 [] OTHER -> f.len
  <2>1. n \in Nat /\ (f.ext = 0 => n = f.len)
    BY <1>6
  <2>2. wcb' = [wcb EXCEPT !.OPCODE = OpcodeOf(f), !.MASK = f.mask, !.payload_len = n]
    BY <1>5
  <2> HIDE DEF n
  <2> QED
    BY <1>2, <1>6, <1>7, <2>1, <2>2 DEF BlockType
<1>9. status' \in Open /\ read_len' \in Nat /\ read_len' <= remaining_len
  BY <1>2, <1>5 DEF Open
<1>10. c <= Len(stream) /\ head = StartOf(c)
  BY <1>1, <1>2, <1>3, Places DEF ReadingHeader
<1>11. CASE f.ext > 0
  <2>1. status' = "EXTEND_LENGTH" /\ ws_pc' = "header"
    BY <1>5, <1>11
  <2>2. ReadingHeader(c)'
    BY <1>4, <1>5, <1>8, <1>10, <1>11, <2>1, SameStream DEF ReadingHeader
  <2> QED
    BY <1>1, <1>2, <1>5, <1>8, <1>9, <2>1, <2>2, HeaderStep
<1>12. CASE ~(f.ext > 0) /\ f.mask
  <2>1. status' = "MASK" /\ ws_pc' = "header" /\ f.ext = 0
    BY <1>5, <1>6, <1>12
  <2>2. read_len' = 2 + f.ext /\ wcb'.payload_len = f.len
    BY <1>5, <1>8, <2>1
  <2>3. ReadingHeader(c)'
    BY <1>4, <1>5, <1>8, <1>10, <1>12, <2>1, <2>2, SameStream DEF ReadingHeader
  <2> QED
    BY <1>1, <1>2, <1>5, <1>8, <1>9, <2>1, <2>3, HeaderStep
<1>13. CASE ~(f.ext > 0) /\ ~f.mask
  <2>1. status' = "PAYLOAD" /\ ws_pc' = "payload" /\ f.ext = 0
    BY <1>5, <1>6, <1>13
  <2>2. read_len' = HeaderLen(f) /\ wcb'.payload_len = f.len
    BY <1>5, <1>6, <1>8, <1>13, <2>1
  <2>3. ReadingPayload(c)'
    BY <1>1, <1>2, <1>3, <1>4, <1>5, <1>8, <1>13, <2>1, <2>2, PayloadBegins
  <2> QED
    BY <1>1, <1>2, <1>5, <1>8, <1>9, <2>1, <2>3, HeaderStep DEF HeaderStatus
<1> QED
  BY <1>6, <1>11, <1>12, <1>13

----------------------------------------------------------------------------
(* The beginning and the end of a connection, frames sent and received *)

LEMMA WsStartKeeps ==
    ASSUME NEW h, NEW first \in {"HANDSHAKE", "CLOSING"}, WsStart(h, first)
    PROVE  WsInv'
<1>1. Layout'
  <2>1. stream' = <<>> /\ Len(<<>>) = 0 /\ MaxFrames \in Nat
    BY WsStreamAssumption DEF WsStart
  <2>2. StartOf(1)' = 0
    BY <2>1 DEF StartOf
  <2> QED
    BY <2>1, <2>2 DEF Layout
<1>2. Histories'
  <2>1. Zero \in Counters /\ \A i \in 1..MaxFrames : Zero[i] = 0
    BY DEF Zero, Counters
  <2>2. got' = Zero /\ execs' = Zero /\ cuts' = Zero /\ stream' = <<>>
    BY DEF WsStart
  <2> HIDE DEF Zero, Counters
  <2>3. Len(stream') + 1 = 1
    BY <2>2
  <2> QED
    BY <2>1, <2>2, <2>3 DEF Histories, Counters
<1>3. NoFrame \in BlockType
  BY DEF NoFrame, BlockType, Opcodes
<1> QED
  BY <1>1, <1>2, <1>3 DEF WsStart, WsInv, Open

LEMMA HandshakeKeeps ==
    ASSUME WsInv, NEW n \in Nat, Handshake(n)
    PROVE  WsInv'
<1>1. CASE Return
  BY <1>1, WsStartKeeps DEF Return
<1>2. CASE ~Return
  <2>1. /\ UNCHANGED <<stream, rx, head, read_len, wcb, ws_pc, got, execs, cuts, garbled>>
        /\ status = "HANDSHAKE"
        /\ \/ UNCHANGED status
           \/ remaining_len' = 0 /\ status' = "HEADER"
    BY <1>2 DEF Handshake, fixed, history
  <2>2. /\ stream = <<>> /\ ws_pc = "recv" /\ rx = 0 /\ head = 0 /\ read_len = 0
    BY <2>1 DEF WsInv, Open
  <2>3. Layout' /\ Histories' /\ garbled' = FALSE /\ wcb' \in BlockType
    <3>1. UNCHANGED stream /\ UNCHANGED got /\ UNCHANGED execs /\ UNCHANGED cuts
      BY <2>1
    <3>2. Layout' /\ Histories'
      BY <3>1, SameStream DEF WsInv, Histories, Counters
    <3> QED
      BY <2>1, <3>2 DEF WsInv
  <2>4. CASE UNCHANGED status
    BY <2>1, <2>2, <2>3, <2>4 DEF WsInv, Open
  <2>5. CASE remaining_len' = 0 /\ status' = "HEADER"
    <3>1. Len(stream') = 0 /\ StartOf(1)' = 0 /\ StreamLen' = 0
      BY <2>1, <2>2 DEF StartOf, StreamLen
    <3>2. Buffer'
      BY <2>1, <2>2, <2>5, <3>1 DEF Buffer
    <3>3. ReadingHeader(1)'
      BY <2>1, <2>2, <2>5, <3>1 DEF ReadingHeader
    <3>4. At(1)' /\ 1 \in 1..(Len(stream') + 1)
      BY <2>5, <3>1, <3>3 DEF At
    <3> QED
      BY <2>3, <2>5, <3>2, <3>4 DEF WsInv, Open
  <2> QED
    BY <2>1, <2>4, <2>5
<1> QED
  BY <1>1, <1>2

LEMMA SendLayout ==
    ASSUME Layout, NEW f \in Frames, Len(stream) < MaxFrames, NEW m, m = Len(stream),
           stream' = Append(stream, [frame |-> f, start |-> StreamLen])
    PROVE  /\ Layout'
           /\ Len(stream') = Len(stream) + 1
           /\ \A i \in 1..Len(stream) : stream'[i] = stream[i] /\ PayloadOf(i)' = PayloadOf(i)
           /\ \A i \in 1..(Len(stream) + 1) : StartOf(i)' = StartOf(i)
           /\ StreamLen <= StreamLen' /\ StreamLen < PayloadOf(m + 1)'
           /\ StreamLen' \in Nat /\ PayloadOf(m + 1)' \in Nat
<1> DEFINE x == [frame |-> f, start |-> StreamLen]
<1>0. m \in Nat /\ MaxFrames \in Nat /\ StreamLen \in Nat
  BY Places, WsStreamAssumption
<1>1. f \in FrameType
  <2>1. f \in FrameRecord
    BY WsStreamAssumption DEF FrameRecord, Opcodes
  <2>2. f.len < LengthRange \/ (f.ext = 8 /\ f.len >= LengthTop)
    BY WsStreamAssumption
  <2> QED
    BY <2>1, <2>2 DEF FrameType
<1>2. x \in PlacedFrame /\ x.frame = f /\ x.start = StreamLen
  BY <1>0, <1>1 DEF PlacedFrame
<1> HIDE DEF x
<1>3. /\ stream' \in Seq(PlacedFrame) /\ Len(stream') = m + 1
      /\ stream'[m + 1] = x /\ \A i \in 1..m : stream'[i] = stream[i]
  <2>1. stream \in Seq(PlacedFrame) /\ stream' = Append(stream, x)
    BY DEF Layout, x
  <2> QED
    BY <1>2, <2>1
<1>4. \A i \in 1..(m + 1) : StartOf(i)' = StartOf(i)
  <2>1. ASSUME NEW i \in 1..m PROVE StartOf(i)' = StartOf(i)
    <3>1. i <= m /\ i <= Len(stream') /\ stream'[i] = stream[i]
      BY <1>0, <1>3
    <3> QED
      BY <3>1 DEF StartOf
  <2>2. StartOf(m + 1)' = StreamLen
    <3>1. m + 1 <= Len(stream') /\ stream'[m + 1].start = StreamLen
      BY <1>0, <1>2, <1>3
    <3>2. StartOf(m + 1)' = stream'[m + 1].start
      BY <3>1 DEF StartOf
    <3> QED
      BY <3>1, <3>2
  <2>3. StreamLen = StartOf(m + 1)
    BY DEF StreamLen
  <2>4. \A i \in 1..(m + 1) : i \in 1..m \/ i = m + 1
    BY <1>0
  <2> QED
    BY <2>1, <2>2, <2>3, <2>4
<1>5. StartOf(m + 2)' = StreamLen + Length(f)
  <2>1. ~(m + 2 <= Len(stream')) /\ m + 2 # 1 /\ (m + 2) - 1 = m + 1
    BY <1>0, <1>3
  <2>2. StartOf(m + 2)' = stream'[m + 1].start + Length(stream'[m + 1].frame)
    BY <2>1 DEF StartOf, Length, HeaderLen
  <2> QED
    BY <1>2, <1>3, <2>2
<1>6. \A i \in 1..m : PayloadOf(i)' = PayloadOf(i)
  BY <1>0, <1>3, <1>4 DEF PayloadOf, HeaderLen
<1>7. /\ Length(f) \in Nat /\ Length(f) >= 2 /\ HeaderLen(f) \in Nat /\ HeaderLen(f) >= 2
  BY <1>1, FrameSizes
<1>8. StreamLen' = StreamLen + Length(f)
  <2>1. StreamLen' = StartOf(m + 2)'
    <3>1. Len(stream') + 1 = m + 2
      BY <1>0, <1>3
    <3> QED
      BY <3>1 DEF StreamLen
  <2> QED
    BY <1>5, <2>1
<1>9. PayloadOf(m + 1)' = StreamLen + HeaderLen(f)
  <2>1. PayloadOf(m + 1)' = StartOf(m + 1)' + HeaderLen(stream'[m + 1].frame)
    BY DEF PayloadOf, StartOf, HeaderLen
  <2>2. StartOf(m + 1)' = StreamLen /\ stream'[m + 1].frame = f
    BY <1>0, <1>2, <1>3, <1>4 DEF StreamLen
  <2> QED
    BY <2>1, <2>2
<1>10. Layout'
  <2>1. StartOf(1)' = 0
    BY <1>0, <1>4 DEF Layout
  <2>2. \A i \in 1..m : Length(stream'[i].frame) = Length(stream[i].frame)
    BY <1>3
  <2>3. StartOf(m + 1)' = StreamLen
    BY <1>0, <1>4 DEF StreamLen
  <2>4. ASSUME NEW i \in 1..(m + 1) PROVE StartOf(i + 1)' = StartOf(i)' + Length(stream'[i].frame)
    <3>1. CASE i = m + 1
      <4>1. i + 1 = m + 2 /\ stream'[i].frame = f
        BY <1>0, <1>2, <1>3, <3>1
      <4> QED
        BY <1>5, <2>3, <3>1, <4>1
    <3>2. CASE i # m + 1
      <4>1. i \in 1..m /\ i + 1 \in 1..(m + 1)
        BY <1>0, <3>2
      <4> QED
        BY <1>4, <2>2, <4>1 DEF Layout
    <3> QED
      BY <3>1, <3>2
  <2>5. ASSUME NEW i \in 1..(m + 2), NEW j \in 1..(m + 2), i < j
        PROVE  StartOf(i)' + Length(stream'[i].frame) <= StartOf(j)'
    <3>1. CASE i = m + 1
      <4>1. j = m + 2 /\ stream'[i].frame = f
        BY <1>0, <1>2, <1>3, <2>5, <3>1
      <4> QED
        BY <1>0, <1>5, <1>7, <2>3, <3>1, <4>1
    <3>2. CASE i # m + 1
      <4>1. i \in 1..m /\ i \in 1..(m + 1) /\ m + 1 \in 1..(m + 1) /\ i < m + 1
        BY <1>0, <2>5, <3>2
      <4>2. \A l \in 1..(m + 1) : i < l => StartOf(i)' + Length(stream'[i].frame) <= StartOf(l)'
        BY <1>4, <2>2, <4>1 DEF Layout
      <4>3. CASE j = m + 2
        <5>1. StartOf(i)' + Length(stream'[i].frame) <= StreamLen
          BY <2>3, <4>1, <4>2
        <5>2. StartOf(i)' \in Nat /\ Length(stream'[i].frame) \in Nat
          <6>1. StartOf(i) \in Nat /\ stream[i].frame \in FrameType
            BY <4>1, Places
          <6> QED
            BY <1>4, <2>2, <4>1, <6>1, FrameSizes
        <5>3. PICK a \in Nat, l \in Nat : a = StartOf(i)' /\ l = Length(stream'[i].frame)
          BY <5>2
        <5>4. a + l <= StreamLen + Length(f)
          <6>1. a + l <= StreamLen
            BY <5>1, <5>3
          <6> QED
            BY <1>0, <1>7, <6>1
        <5> QED
          BY <1>5, <4>3, <5>3, <5>4
      <4>4. CASE j # m + 2
        <5>1. j \in 1..(m + 1)
          BY <1>0, <4>4
        <5> QED
          BY <2>5, <4>2, <5>1
      <4> QED
        BY <4>3, <4>4
    <3> QED
      BY <3>1, <3>2
  <2>6. Len(stream') <= MaxFrames /\ Len(stream') + 1 = m + 2
    BY <1>0, <1>3
  <2> QED
    BY <1>3, <2>1, <2>4, <2>5, <2>6 DEF Layout
<1> QED
  BY <1>0, <1>3, <1>4, <1>6, <1>7, <1>8, <1>9, <1>10

LEMMA SendKeeps ==
    ASSUME WsInv, NEW f \in Frames, Send(f)
    PROVE  WsInv'
<1>0. PICK m \in Nat : m = Len(stream)
  BY Places DEF WsInv
<1>1. /\ UNCHANGED <<rx, head, remaining_len, read_len, status, wcb, mask_at, ws_pc>>
      /\ UNCHANGED got /\ UNCHANGED execs /\ UNCHANGED cuts /\ UNCHANGED garbled
      /\ status \in Open /\ m < MaxFrames
      /\ stream' = Append(stream, [frame |-> f, start |-> StreamLen])
  BY <1>0 DEF Send, history
<1>2. PICK c \in 1..(m + 1) : At(c)
  BY <1>0, <1>1 DEF WsInv
<1>3. Layout /\ Histories /\ Buffer /\ MaxFrames \in Nat
  BY <1>1, WsStreamAssumption DEF WsInv
<1>4. /\ Layout' /\ Len(stream') = m + 1
      /\ \A i \in 1..m : stream'[i] = stream[i] /\ PayloadOf(i)' = PayloadOf(i)
      /\ \A i \in 1..(m + 1) : StartOf(i)' = StartOf(i)
      /\ StreamLen <= StreamLen' /\ StreamLen < PayloadOf(m + 1)'
      /\ StreamLen' \in Nat /\ PayloadOf(m + 1)' \in Nat
  BY <1>0, <1>1, <1>3, SendLayout
<1>5. /\ rx \in Nat /\ rx <= StreamLen /\ StreamLen \in Nat /\ StreamLen' \in Nat
      /\ PayloadOf(m + 1)' \in Nat
  <2>1. rx \in Nat /\ rx <= StreamLen
    BY <1>3 DEF Buffer
  <2>2. StreamLen \in Nat
    BY <1>3, Places
  <2> QED
    BY <1>4, <2>1, <2>2
<1>6. Buffer'
  BY <1>1, <1>3, <1>4, <1>5 DEF Buffer
<1>7. Histories'
  <2>1. \A i \in ((m + 1) + 1)..MaxFrames : i \in (m + 1)..MaxFrames
    BY <1>3
  <2> QED
    BY <1>0, <1>1, <1>3, <1>4, <2>1 DEF Histories
<1>8. \A i \in 1..m : CutIn(i)' = CutIn(i) /\ Untouched(i)' = Untouched(i) /\ i + 1 \in 1..(m + 1)
  <2>1. \A i \in 1..m : i + 1 \in 1..(m + 1)
    OBVIOUS
  <2> QED
    BY <1>1, <1>4, <2>1 DEF CutIn, Untouched
<1>9. ~CutIn(m + 1)' /\ rx < PayloadOf(m + 1)'
  <2>1. rx < PayloadOf(m + 1)'
    BY <1>4, <1>5
  <2> QED
    BY <1>1, <1>5, <2>1 DEF CutIn
<1>10. Untouched(m + 1)'
  <2>1. m + 1 \in (m + 1)..MaxFrames
    BY <1>1, <1>3
  <2>2. got[m + 1] = 0 /\ execs[m + 1] = 0 /\ cuts[m + 1] = 0
    BY <1>0, <1>3, <2>1 DEF Histories
  <2> QED
    BY <1>1, <1>9, <2>2 DEF Untouched
<1>11. status \in HeaderStatus => ReadingHeader(c)'
  <2>1. SUFFICES ASSUME status \in HeaderStatus PROVE ReadingHeader(c)'
    OBVIOUS
  <2>2. ReadingHeader(c)
    BY <1>2, <2>1 DEF At
  <2>3. CASE c \in 1..m
    <3>1. c <= m /\ c <= m + 1
      BY <2>3
    <3> QED
      BY <1>0, <1>1, <1>4, <2>2, <2>3, <3>1 DEF ReadingHeader
  <2>4. CASE c = m + 1
    <3>1. status = "HEADER"
      BY <1>0, <2>2, <2>4 DEF ReadingHeader
    <3> QED
      BY <1>1, <1>2, <1>4, <1>9, <2>2, <2>4, <3>1 DEF ReadingHeader
  <2> QED
    BY <2>3, <2>4
<1>12. status = "PAYLOAD" => ReadingPayload(c)'
  <2>1. SUFFICES ASSUME status = "PAYLOAD" PROVE ReadingPayload(c)'
    OBVIOUS
  <2>2. ReadingPayload(c) /\ c \in 1..m
    <3>1. ReadingPayload(c)
      BY <1>2, <2>1 DEF At
    <3> QED
      BY <1>0, <3>1 DEF ReadingPayload
  <2>3. c <= m /\ c <= m + 1 /\ c + 1 \in 1..(m + 1)
    BY <2>2
  <2> QED
    BY <1>0, <1>1, <1>4, <1>8, <2>2, <2>3 DEF ReadingPayload
<1>13. At(c)'
  <2>1. ASSUME NEW i \in 1..(m + 1)
        PROVE  /\ i < c /\ stream'[i].frame.op = "binary" => execs'[i] = 1 + cuts'[i]
               /\ i > c \/ (i = c /\ status' # "PAYLOAD") => Untouched(i)'
    <3>1. CASE i \in 1..m
      BY <1>0, <1>1, <1>2, <1>4, <1>8, <3>1 DEF At
    <3>2. CASE i = m + 1
      BY <1>10, <3>2
    <3> QED
      BY <3>1, <3>2
  <2> QED
    BY <1>1, <1>4, <1>11, <1>12, <2>1 DEF At
<1>14. c \in 1..(Len(stream') + 1)
  BY <1>4
<1> QED
  BY <1>1, <1>4, <1>6, <1>7, <1>13, <1>14 DEF WsInv, Open

LEMMA RecvKeeps ==
    ASSUME WsInv, NEW n \in Nat, Recv(n)
    PROVE  WsInv'
<1>0. PICK m \in Nat : m = Len(stream)
  BY Places DEF WsInv
<1>1. /\ UNCHANGED stream /\ UNCHANGED head /\ UNCHANGED <<read_len, status, wcb, mask_at>>
      /\ UNCHANGED got /\ UNCHANGED execs /\ UNCHANGED garbled
      /\ status \in Open /\ ws_pc = "recv" /\ n >= 1
      /\ rx' = rx + n /\ remaining_len' = remaining_len + n /\ rx + n <= StreamLen
      /\ ws_pc' = IF status = "PAYLOAD" THEN "payload" ELSE "header"
  BY DEF Recv, fixed
<1>2. PICK c \in 1..(m + 1) : At(c)
  BY <1>0, <1>1 DEF WsInv
<1>3. Layout /\ Histories /\ Buffer /\ MaxFrames \in Nat /\ m <= MaxFrames
  BY <1>0, <1>1, WsStreamAssumption DEF WsInv, Layout
<1>4. /\ Layout' /\ StreamLen' = StreamLen /\ Len(stream') = m
      /\ \A i : StartOf(i)' = StartOf(i) /\ PayloadOf(i)' = PayloadOf(i)
  BY <1>0, <1>1, <1>3, SameStream
<1>5. /\ head \in Nat /\ remaining_len \in Nat /\ rx \in Nat /\ rx = head + remaining_len
      /\ rx' \in Nat /\ rx < rx' /\ head <= rx
  BY <1>1, <1>3 DEF Buffer
<1>6. Buffer'
  BY <1>1, <1>3, <1>4, <1>5 DEF Buffer
<1>7. cuts' = [i \in 1..MaxFrames |-> IF i <= m /\ CutIn(i)' THEN cuts[i] + 1 ELSE cuts[i]]
  BY <1>0, <1>1, <1>4 DEF Recv, CutIn
<1>8. Histories'
  <2>1. cuts' \in Counters
    BY <1>3, <1>7 DEF Histories, Counters
  <2>2. \A i \in (m + 1)..MaxFrames : i \in 1..MaxFrames /\ ~(i <= m)
    BY <1>3
  <2>3. \A i \in (m + 1)..MaxFrames : cuts'[i] = 0
    BY <1>0, <1>3, <1>7, <2>2 DEF Histories
  <2> QED
    BY <1>0, <1>1, <1>3, <1>4, <2>1, <2>3 DEF Histories
<1>9. \A i \in 1..m : cuts'[i] = IF CutIn(i)' THEN cuts[i] + 1 ELSE cuts[i]
  <2>1. \A i \in 1..m : i \in 1..MaxFrames /\ i <= m
    BY <1>3
  <2> QED
    BY <1>7, <2>1
<1>10. status \in HeaderStatus => ReadingHeader(c) /\ ReadingHeader(c)'
  <2>1. SUFFICES ASSUME status \in HeaderStatus PROVE ReadingHeader(c) /\ ReadingHeader(c)'
    OBVIOUS
  <2>2. ReadingHeader(c) /\ ws_pc' = "header"
    BY <1>1, <1>2, <2>1 DEF At, HeaderStatus
  <2> QED
    BY <1>1, <1>4, <2>2 DEF ReadingHeader
<1>11. status = "PAYLOAD" => ReadingPayload(c) /\ remaining_len = 0 /\ c \in 1..m /\ head < StartOf(c + 1)
                             /\ PayloadOf(c) <= head /\ ws_pc' = "payload"
  <2>1. SUFFICES ASSUME status = "PAYLOAD"
                 PROVE  ReadingPayload(c) /\ remaining_len = 0 /\ c \in 1..m /\ head < StartOf(c + 1)
                        /\ PayloadOf(c) <= head /\ ws_pc' = "payload"
    OBVIOUS
  <2>2. ReadingPayload(c)
    BY <1>2, <2>1 DEF At
  <2> QED
    BY <1>0, <1>1, <2>1, <2>2 DEF ReadingPayload
<1>12. \A i \in 1..m : /\ StartOf(i) \in Nat /\ StartOf(i + 1) \in Nat /\ PayloadOf(i) \in Nat
                       /\ StartOf(i) < PayloadOf(i) /\ PayloadOf(i) <= StartOf(i + 1)
                       /\ i + 1 \in 1..(m + 1) /\ i \in 1..(m + 1)
  BY <1>0, <1>3, Places
<1>13. StartOf(c) \in Nat /\ StartOf(c) <= head
  <2>1. StartOf(c) \in Nat
    BY <1>0, <1>3, Places
  <2>2. CASE status \in HeaderStatus
    BY <1>10, <2>1, <2>2 DEF ReadingHeader
  <2>3. CASE status = "PAYLOAD"
    BY <1>5, <1>11, <1>12, <2>1, <2>3
  <2> QED
    BY <1>1, <2>1, <2>2, <2>3 DEF Open, HeaderStatus
<1>14. ASSUME NEW i \in 1..m, i < c PROVE ~CutIn(i)'
  <2>1. StartOf(i + 1) <= StartOf(c)
    <3>1. CASE c \in 1..m
      BY <1>0, <1>3, <1>14, <3>1, Places
    <3>2. CASE c = m + 1
      <4>1. \A j \in 1..(m + 1) : StartOf(j) <= StreamLen
        BY <1>0, <1>3, Places
      <4>2. StreamLen = StartOf(c)
        BY <1>0, <3>2 DEF StreamLen
      <4> QED
        BY <1>12, <4>1, <4>2
    <3> QED
      BY <3>1, <3>2
  <2>2. StartOf(i + 1) <= rx'
    BY <1>5, <1>12, <1>13, <2>1
  <2> QED
    BY <1>4, <1>5, <1>12, <2>2 DEF CutIn
<1>15. ASSUME NEW i \in 1..m, i > c PROVE ~CutIn(i)
  <2>0. c \in 1..m
    BY <1>15
  <2>1. StartOf(c + 1) <= StartOf(i)
    BY <1>0, <1>3, <1>15, <2>0, Places
  <2>2. rx < StartOf(c + 1)
    <3>1. CASE status \in HeaderStatus
      <4>1. rx < PayloadOf(c)
        BY <1>0, <1>1, <1>10, <2>0, <3>1 DEF ReadingHeader
      <4> QED
        BY <1>5, <1>12, <2>0, <4>1
    <3>2. CASE status = "PAYLOAD"
      BY <1>5, <1>11, <3>2
    <3> QED
      BY <1>1, <3>1, <3>2 DEF Open, HeaderStatus
  <2>3. rx < PayloadOf(i)
    BY <1>5, <1>12, <2>0, <2>1, <2>2
  <2> QED
    BY <1>5, <1>12, <2>3 DEF CutIn
<1>16. ASSUME NEW i \in 1..m, i = c, status # "PAYLOAD" PROVE ~CutIn(i)
  <2>1. rx < PayloadOf(i)
    BY <1>0, <1>1, <1>10, <1>16 DEF ReadingHeader, Open, HeaderStatus
  <2> QED
    BY <1>5, <1>12, <2>1 DEF CutIn
<1>17. ASSUME NEW i \in 1..m, Untouched(i), ~CutIn(i) PROVE Untouched(i)'
  <2>1. got'[i] = 0 /\ execs'[i] = 0 /\ cuts[i] = 0
    BY <1>1, <1>17 DEF Untouched
  <2>2. cuts'[i] = IF CutIn(i)' THEN 1 ELSE 0
    BY <1>9, <2>1
  <2> QED
    BY <2>1, <2>2 DEF Untouched
<1>18. status = "PAYLOAD" => ReadingPayload(c)'
  <2>1. SUFFICES ASSUME status = "PAYLOAD" PROVE ReadingPayload(c)'
    OBVIOUS
  <2>2. /\ ReadingPayload(c) /\ c \in 1..m /\ ws_pc' = "payload"
        /\ PayloadOf(c) <= head /\ head < StartOf(c + 1)
    BY <1>11, <2>1
  <2>3. read_len = 0
    BY <1>1, <2>2 DEF ReadingPayload
  <2>4. stream[c].frame.op = "binary" =>
           cuts'[c] = execs'[c] + (IF ws_pc' = "payload" /\ CutIn(c)' THEN 1 ELSE 0)
    <3>1. SUFFICES ASSUME stream[c].frame.op = "binary"
                   PROVE  cuts'[c] = execs'[c] + (IF CutIn(c)' THEN 1 ELSE 0)
      BY <2>2
    <3>2. cuts[c] = execs[c] + 0
      BY <1>1, <2>2, <3>1 DEF ReadingPayload
    <3>3. execs[c] \in Nat /\ execs'[c] = execs[c]
      <4>1. c \in 1..MaxFrames
        BY <1>3, <2>2
      <4> QED
        BY <1>1, <1>3, <4>1 DEF Histories, Counters
    <3>4. cuts'[c] = IF CutIn(c)' THEN cuts[c] + 1 ELSE cuts[c]
      BY <1>9, <2>2
    <3> QED
      BY <3>2, <3>3, <3>4
  <2> QED
    BY <1>0, <1>1, <1>4, <2>2, <2>3, <2>4 DEF ReadingPayload
<1>19. At(c)'
  <2>1. ASSUME NEW i \in 1..m
        PROVE  /\ i < c /\ stream'[i].frame.op = "binary" => execs'[i] = 1 + cuts'[i]
               /\ i > c \/ (i = c /\ status' # "PAYLOAD") => Untouched(i)'
    <3>1. i < c /\ stream'[i].frame.op = "binary" => execs'[i] = 1 + cuts'[i]
      BY <1>0, <1>1, <1>2, <1>9, <1>14 DEF At
    <3>2. i > c \/ (i = c /\ status' # "PAYLOAD") => Untouched(i)'
      <4>1. i > c \/ (i = c /\ status # "PAYLOAD") => Untouched(i)
        BY <1>0, <1>2 DEF At
      <4> QED
        BY <1>1, <1>15, <1>16, <1>17, <4>1
    <3> QED
      BY <3>1, <3>2
  <2> QED
    BY <1>1, <1>4, <1>10, <1>18, <2>1 DEF At
<1>20. c \in 1..(Len(stream') + 1)
  BY <1>4
<1> QED
  BY <1>1, <1>3, <1>4, <1>6, <1>8, <1>19, <1>20 DEF WsInv, Open

----------------------------------------------------------------------------
(* Payload *)

\* Remainders of 4.
LEMMA Mod4 ==
    ASSUME NEW a \in Int, NEW b \in Int
    PROVE  /\ (a + (b % 4)) % 4 = (a + b) % 4
           /\ ((a % 4) + b) % 4 = (a + b) % 4
           /\ (a + (4 * b)) % 4 = a % 4
           /\ a % 4 \in 0..3
<1>1. (a + (4 * b)) % 4 = a % 4 /\ a % 4 \in 0..3
  OBVIOUS
<1>2. (a + (b % 4)) % 4 = (a + b) % 4
  OBVIOUS
<1>3. ((a % 4) + b) % 4 = (a + b) % 4
  OBVIOUS
<1> QED
  BY <1>1, <1>2, <1>3

\* The word-wise masking applies to byte j what the byte-wise one does.
LEMMA FastMask ==
    ASSUME NEW dst \in Nat, NEW len \in Nat, NEW j \in 0..(len - 1)
    PROVE  /\ co_websocket_fast_mask(dst, len, j) \in Int
           /\ co_websocket_fast_mask(dst, len, j) % 4 = j % 4
<1> DEFINE align == (-dst) % 4
           q == (len - align) \div 4
           words == 4 * q
<1>1. align \in 0..3 /\ j \in Int
  OBVIOUS
<1> HIDE DEF align
<1>2. q \in Int
  BY <1>1
<1> HIDE DEF q
<1>3. (align + ((j - align) % 4)) % 4 = j % 4
  <2>1. (align + ((j - align) % 4)) % 4 = (align + (j - align)) % 4
    BY <1>1, Mod4
  <2> QED
    BY <1>1, <2>1
<1>4. (align + ((j - align - words) % 4)) % 4 = j % 4
  <2>1. j - align - words \in Int /\ align + (j - align - words) = j + (4 * (-q)) /\ -q \in Int
    BY <1>1, <1>2
  <2>2. (align + ((j - align - words) % 4)) % 4 = (align + (j - align - words)) % 4
    BY <1>1, <2>1, Mod4
  <2>3. (j + (4 * (-q))) % 4 = j % 4
    BY <1>1, <2>1, Mod4
  <2> QED
    BY <2>1, <2>2, <2>3
<1>5. \A x \in Int : x % 4 \in Int /\ (x % 4) % 4 = x % 4
  OBVIOUS
<1>6. co_websocket_fast_mask(dst, len, j) =
         IF len < 8 THEN j % 4
         ELSE IF j < align THEN j
         ELSE IF j < align + words THEN (align + ((j - align) % 4)) % 4
         ELSE (align + ((j - align - words) % 4)) % 4
  BY DEF co_websocket_fast_mask, align, q
<1>7. CASE len < 8
  BY <1>1, <1>5, <1>6, <1>7
<1>8. CASE ~(len < 8) /\ j < align
  BY <1>1, <1>6, <1>8
<1>9. CASE ~(len < 8) /\ ~(j < align)
  BY <1>1, <1>3, <1>4, <1>5, <1>6, <1>9
<1> QED
  BY <1>7, <1>8, <1>9

LEMMA PayloadNext ==
    ASSUME WsInv, ws_pc = "payload"
    PROVE  /\ status = "PAYLOAD" /\ Layout /\ Buffer /\ Histories /\ wcb \in BlockType
           /\ \E c \in 1..Len(stream) : At(c) /\ ReadingPayload(c)
<1>1. status \in Open
  BY DEF WsInv
<1>2. PICK c \in 1..(Len(stream) + 1) : At(c)
  BY <1>1 DEF WsInv
<1>3. status \notin HeaderStatus
  BY <1>2 DEF At, ReadingHeader
<1>4. status = "PAYLOAD"
  BY <1>1, <1>3 DEF Open, HeaderStatus
<1>5. ReadingPayload(c) /\ c \in 1..Len(stream)
  <2>1. ReadingPayload(c)
    BY <1>2, <1>4 DEF At
  <2> QED
    BY <2>1, Places DEF WsInv, ReadingPayload
<1> QED
  BY <1>1, <1>2, <1>4, <1>5 DEF WsInv

LEMMA PayloadLenIs ==
    ASSUME Buffer, wcb \in BlockType
    PROVE  /\ PayloadLen \in Nat /\ PayloadLen <= wcb.payload_len
           /\ PayloadLen <= remaining_len - read_len
           /\ PayloadLen = wcb.payload_len \/ PayloadLen = remaining_len - read_len
<1>1. wcb.payload_len \in Nat /\ remaining_len \in Nat /\ read_len \in Nat /\ read_len <= remaining_len
  BY TypesOfBlock DEF Buffer
<1> QED
  BY <1>1 DEF PayloadLen

\* The place of the parser in the payload of frame c, in numbers.
LEMMA PayloadPlace ==
    ASSUME Layout, Buffer, wcb \in BlockType, NEW c \in 1..Len(stream), ReadingPayload(c)
    PROVE  /\ StartOf(c) \in Nat /\ PayloadOf(c) \in Nat /\ StartOf(c + 1) \in Nat
           /\ StartOf(c) < PayloadOf(c) /\ PayloadOf(c) <= StartOf(c + 1)
           /\ StartOf(c) <= head /\ head < StartOf(c + 1)
           /\ PayloadOf(c) <= head + read_len
           /\ head + read_len <= StartOf(c + 1)
           /\ \/ head = StartOf(c)
              \/ read_len = 0 /\ PayloadOf(c) <= head
<1>1. /\ StartOf(c) \in Nat /\ PayloadOf(c) \in Nat /\ StartOf(c + 1) \in Nat
      /\ StartOf(c) < PayloadOf(c) /\ PayloadOf(c) <= StartOf(c + 1)
      /\ PayloadOf(c) = StartOf(c) + HeaderLen(stream[c].frame)
  BY Places
<1>2. head \in Nat /\ read_len \in Nat /\ wcb.payload_len \in Nat
  BY TypesOfBlock DEF Buffer
<1>3. head + read_len + wcb.payload_len = StartOf(c + 1)
  BY DEF ReadingPayload
<1>4. CASE head = StartOf(c) /\ read_len = HeaderLen(stream[c].frame)
  <2>1. head + read_len = PayloadOf(c)
    BY <1>1, <1>4
  <2> QED
    BY <1>1, <1>2, <1>4, <2>1
<1>5. CASE read_len = 0 /\ PayloadOf(c) <= head /\ head < StartOf(c + 1)
  BY <1>1, <1>2, <1>5
<1> QED
  BY <1>4, <1>5 DEF ReadingPayload

LEMMA PayloadFrameIs ==
    ASSUME Layout, Buffer, wcb \in BlockType, NEW c \in 1..Len(stream), ReadingPayload(c)
    PROVE  PayloadFrame = c
<1> DEFINE at == head + read_len
           owns == {i \in 1..Len(stream) : PayloadOf(i) <= at /\ at <= StartOf(i + 1)}
           more == {i \in owns : at + PayloadLen <= StartOf(i + 1) /\ (AtFrame => i = Current)}
<1>1. /\ StartOf(c) \in Nat /\ PayloadOf(c) \in Nat /\ StartOf(c + 1) \in Nat
      /\ StartOf(c) < PayloadOf(c)
      /\ StartOf(c) <= head /\ head < StartOf(c + 1)
      /\ PayloadOf(c) <= at /\ at <= StartOf(c + 1)
      /\ \/ head = StartOf(c)
         \/ read_len = 0 /\ PayloadOf(c) <= head
  BY PayloadPlace
<1>2. head \in Nat /\ read_len \in Nat /\ wcb.payload_len \in Nat /\ at \in Nat /\ Len(stream) \in Nat
  BY TypesOfBlock, Places DEF Buffer
<1>3. Current = c /\ (AtFrame <=> head = StartOf(c))
  BY <1>1, <1>2, CurrentIs
<1>4. at + PayloadLen <= StartOf(c + 1)
  <2>1. at + wcb.payload_len = StartOf(c + 1)
    BY DEF ReadingPayload
  <2>2. PayloadLen \in Nat /\ PayloadLen <= wcb.payload_len
    BY PayloadLenIs
  <2> HIDE DEF at
  <2> QED
    BY <1>1, <1>2, <2>1, <2>2
<1>5. c \in more
  BY <1>1, <1>3, <1>4
<1>6. ASSUME NEW i \in more PROVE i = c
  <2>1. i \in 1..Len(stream) /\ PayloadOf(i) <= at /\ at <= StartOf(i + 1) /\ (AtFrame => i = Current)
    OBVIOUS
  <2>2. CASE head = StartOf(c)
    BY <1>3, <2>1, <2>2
  <2>3. CASE read_len = 0 /\ PayloadOf(c) <= head
    <3>1. at = head
      BY <1>2, <2>3
    <3>2. /\ StartOf(i) \in Nat /\ PayloadOf(i) \in Nat /\ StartOf(i + 1) \in Nat
          /\ StartOf(i) < PayloadOf(i)
          /\ i < c => StartOf(i + 1) <= StartOf(c)
          /\ c < i => StartOf(c + 1) <= StartOf(i)
      BY <2>1, Places
    <3>3. PayloadOf(i) <= head /\ head <= StartOf(i + 1)
      BY <2>1, <3>1
    <3>4. ~(i < c)
      BY <1>1, <1>2, <2>3, <3>2, <3>3
    <3>5. ~(c < i)
      BY <1>1, <1>2, <3>2, <3>3
    <3> QED
      BY <1>2, <2>1, <3>4, <3>5
  <2> QED
    BY <1>1, <2>2, <2>3
<1>7. PayloadFrame = IF more = {} THEN 0 ELSE CHOOSE i \in more : \A j \in more : j <= i
  BY DEF PayloadFrame
<1> HIDE DEF more
<1>8. c <= c
  BY <1>2
<1> QED
  BY <1>5, <1>6, <1>7, <1>8

\* The key is in step with the payload.
LEMMA UnmaskedIs ==
    ASSUME Layout, Buffer, wcb \in BlockType, NEW c \in 1..Len(stream), ReadingPayload(c),
           wcb.MASK, wcb.OPCODE # "ping", NEW len \in Nat
    PROVE  Unmasked(c, len) /\ NewMask(mask_at, len) = (got[c] + len) % 4
<1>1. /\ head \in Nat /\ read_len \in Nat /\ PayloadOf(c) \in Nat /\ PayloadOf(c) <= head + read_len
  BY PayloadPlace DEF Buffer
<1>2. got[c] = (head + read_len) - PayloadOf(c) /\ mask_at = got[c] % 4
  BY DEF ReadingPayload
<1>3. got[c] \in Nat /\ got[c] = head + read_len - PayloadOf(c)
  BY <1>1, <1>2
<1>4. PICK g \in Nat : g = got[c]
  BY <1>3
<1>5. ASSUME NEW j \in 0..(len - 1)
      PROVE  (mask_at + co_websocket_fast_mask(read_len, len, j)) % 4 = (g + j) % 4
  <2>1. PICK m \in Int : m = co_websocket_fast_mask(read_len, len, j) /\ m % 4 = j % 4
    BY <1>1, FastMask, ZenonT(40)
  <2>2. ((g % 4) + m) % 4 = (g + m) % 4 /\ (g + (m % 4)) % 4 = (g + m) % 4
    BY Mod4
  <2>3. (g + (j % 4)) % 4 = (g + j) % 4
    BY Mod4
  <2> QED
    BY <1>2, <1>4, <2>1, <2>2, <2>3
<1>6. Unmasked(c, len)
  BY <1>3, <1>4, <1>5 DEF Unmasked
<1>7. NewMask(mask_at, len) = (g + len) % 4
  <2>1. ((g % 4) + (len % 4)) % 4 = (g + (len % 4)) % 4 /\ (g + (len % 4)) % 4 = (g + len) % 4
    <3>1. len % 4 \in Int
      OBVIOUS
    <3> QED
      BY <3>1, Mod4
  <2> QED
    BY <1>2, <1>4, <2>1 DEF NewMask
<1> QED
  BY <1>4, <1>6, <1>7

\* Where a part leaves the parser: at the end of the frame, or inside it with
\* an empty buffer.
LEMMA AdvanceIs ==
    ASSUME Buffer, wcb \in BlockType, Advance(PayloadLen)
    PROVE  /\ wcb' \in BlockType /\ wcb'.OPCODE = wcb.OPCODE /\ wcb'.MASK = wcb.MASK
           /\ head' \in Nat /\ remaining_len' \in Nat /\ head' + remaining_len' = rx
           /\ head' = head + read_len + PayloadLen
           /\ \/ /\ status' = "HEADER" /\ PayloadLen = wcb.payload_len
                 /\ ws_pc' \in {"recv", "header"} /\ (ws_pc' = "recv" => remaining_len' = 0)
              \/ /\ status' = status /\ ws_pc' = "recv" /\ remaining_len' = 0
                 /\ wcb'.payload_len = wcb.payload_len - PayloadLen
                 /\ wcb'.payload_len > 0
<1> DEFINE new_len == remaining_len - read_len - PayloadLen
<1>1. /\ head \in Nat /\ read_len \in Nat /\ remaining_len \in Nat /\ rx = head + remaining_len
      /\ wcb.payload_len \in Nat
  BY TypesOfBlock DEF Buffer
<1>2. PICK l \in Nat : /\ l = PayloadLen /\ l <= wcb.payload_len /\ l <= remaining_len - read_len
                       /\ l = wcb.payload_len \/ l = remaining_len - read_len
  BY PayloadLenIs
<1>3. Skipping(PayloadLen) \in BOOLEAN
  BY DEF Skipping
<1>4. new_len \in Nat
  BY <1>1, <1>2
<1>5. CASE new_len > 0
  <2>1. /\ head' = head + read_len + PayloadLen /\ remaining_len' = new_len /\ status' = "HEADER"
        /\ wcb' = [wcb EXCEPT !.payload_len = 0, !.skip_frame = Skipping(PayloadLen)]
        /\ ws_pc' = "header"
    BY <1>4, <1>5 DEF Advance, AfterPart
  <2>2. wcb' \in BlockType /\ wcb'.OPCODE = wcb.OPCODE /\ wcb'.MASK = wcb.MASK
    BY <1>3, <2>1 DEF BlockType
  <2>3. PayloadLen = wcb.payload_len /\ head + read_len + PayloadLen + new_len = rx
    BY <1>1, <1>2, <1>5
  <2> HIDE DEF new_len
  <2> QED
    BY <1>1, <1>2, <1>4, <2>1, <2>2, <2>3
<1>6. CASE ~(new_len > 0) /\ wcb.payload_len > PayloadLen
  <2>1. /\ head' = head + remaining_len /\ remaining_len' = 0 /\ status' = status
        /\ wcb' = [wcb EXCEPT !.payload_len = @ - PayloadLen, !.skip_frame = Skipping(PayloadLen)]
        /\ ws_pc' = "recv"
    BY <1>4, <1>6 DEF Advance, AfterPart
  <2>2. wcb.payload_len - l \in Nat /\ wcb.payload_len - l > 0 /\ head + remaining_len = head + read_len + l
    BY <1>1, <1>2, <1>4, <1>6
  <2>3. /\ wcb' \in BlockType /\ wcb'.OPCODE = wcb.OPCODE /\ wcb'.MASK = wcb.MASK
        /\ wcb'.payload_len = wcb.payload_len - l
    <3>1. PICK n \in Nat : n = wcb.payload_len - l
      BY <2>2
    <3>2. wcb' = [wcb EXCEPT !.payload_len = n, !.skip_frame = Skipping(PayloadLen)]
      BY <1>2, <2>1, <3>1
    <3> QED
      BY <1>3, <3>1, <3>2 DEF BlockType
  <2> QED
    BY <1>1, <1>2, <2>1, <2>2, <2>3
<1>7. CASE ~(new_len > 0) /\ ~(wcb.payload_len > PayloadLen)
  <2>1. /\ head' = head + remaining_len /\ remaining_len' = 0 /\ status' = "HEADER"
        /\ wcb' = [wcb EXCEPT !.payload_len = 0, !.skip_frame = Skipping(PayloadLen)]
        /\ ws_pc' = "recv"
    BY <1>4, <1>7 DEF Advance, AfterPart
  <2>2. wcb' \in BlockType /\ wcb'.OPCODE = wcb.OPCODE /\ wcb'.MASK = wcb.MASK
    BY <1>3, <2>1 DEF BlockType
  <2>3. PayloadLen = wcb.payload_len /\ head + remaining_len = head + read_len + PayloadLen
    BY <1>1, <1>2, <1>4, <1>7
  <2> QED
    BY <1>1, <2>1, <2>2, <2>3
<1> QED
  BY <1>5, <1>6, <1>7

LEMMA PayloadKeeps ==
    ASSUME WsInv, Payload
    PROVE  WsInv'
<1>0. PICK m \in Nat : m = Len(stream)
  BY Places DEF WsInv
<1>1. /\ status = "PAYLOAD" /\ Layout /\ Buffer /\ Histories /\ wcb \in BlockType /\ ws_pc = "payload"
  BY PayloadNext DEF Payload
<1>2. PICK c \in 1..m : At(c) /\ ReadingPayload(c)
  BY <1>0, PayloadNext DEF Payload
<1>3. PICK l \in Nat : l = PayloadLen /\ l <= wcb.payload_len
  BY <1>1, PayloadLenIs
<1>4. PayloadFrame = c
  BY <1>0, <1>1, <1>2, PayloadFrameIs
<1>5. /\ UNCHANGED stream /\ UNCHANGED rx /\ UNCHANGED cuts /\ read_len' = 0
      /\ mask_at' = IF wcb.MASK /\ wcb.OPCODE # "ping" THEN NewMask(mask_at, l) ELSE mask_at
      /\ garbled' = (\/ garbled \/ c = 0
                     \/ head + read_len # PayloadOf(c) + got[c]
                     \/ (wcb.MASK /\ wcb.OPCODE # "ping") /\ ~Unmasked(c, l))
      /\ got' = [j \in 1..MaxFrames |-> IF j = c THEN got[j] + l ELSE got[j]]
      /\ execs' = [j \in 1..MaxFrames |->
                     IF j = c /\ wcb.OPCODE = "binary" THEN execs[j] + 1 ELSE execs[j]]
      /\ Advance(PayloadLen)
  BY <1>3, <1>4 DEF Payload, fixed
<1>6. /\ Layout' /\ StreamLen' = StreamLen /\ Len(stream') = m
      /\ \A i : StartOf(i)' = StartOf(i) /\ PayloadOf(i)' = PayloadOf(i)
  BY <1>0, <1>1, <1>5, SameStream
<1>7. /\ StartOf(c) \in Nat /\ PayloadOf(c) \in Nat /\ StartOf(c + 1) \in Nat
      /\ head \in Nat /\ read_len \in Nat /\ PayloadOf(c) <= head + read_len
      /\ wcb.payload_len \in Nat
  BY <1>0, <1>1, <1>2, PayloadPlace, TypesOfBlock DEF Buffer
<1>8. /\ got[c] = (head + read_len) - PayloadOf(c) /\ got[c] \in Nat
      /\ head + read_len = PayloadOf(c) + got[c]
      /\ (head + read_len) + wcb.payload_len = StartOf(c + 1)
  <2>1. got[c] = (head + read_len) - PayloadOf(c)
    BY <1>2 DEF ReadingPayload
  <2>2. head + read_len + wcb.payload_len = StartOf(c + 1)
    BY <1>2 DEF ReadingPayload
  <2> QED
    BY <1>7, <2>1, <2>2
<1>9. wcb.MASK /\ wcb.OPCODE # "ping" => Unmasked(c, l) /\ mask_at' = (got[c] + l) % 4
  BY <1>0, <1>1, <1>2, <1>5, UnmaskedIs
<1>10. garbled' = FALSE
  <2>1. garbled = FALSE /\ c # 0
    BY DEF WsInv
  <2> QED
    BY <1>5, <1>8, <1>9, <2>1
<1>11. MaxFrames \in Nat /\ m <= MaxFrames /\ c \in 1..MaxFrames
  <2>1. MaxFrames \in Nat /\ m <= MaxFrames
    BY <1>0, <1>1, WsStreamAssumption DEF Layout
  <2> QED
    BY <2>1
<1>12. Histories'
  <2>1. got' \in Counters /\ execs' \in Counters
    BY <1>1, <1>5, <1>11, SMTT(30) DEF Histories, Counters
  <2>2. ASSUME NEW i \in (m + 1)..MaxFrames PROVE got'[i] = 0 /\ execs'[i] = 0 /\ cuts'[i] = 0
    <3>1. i \in 1..MaxFrames /\ i # c
      BY <1>11
    <3> QED
      BY <1>0, <1>1, <1>5, <3>1 DEF Histories
  <2> QED
    BY <1>1, <1>5, <1>6, <2>1, <2>2 DEF Histories
<1>13. got'[c] = got[c] + l /\ (wcb.OPCODE = "binary" => execs'[c] = execs[c] + 1)
       /\ execs[c] \in Nat /\ cuts[c] \in Nat
  BY <1>1, <1>5, <1>11 DEF Histories, Counters
<1>14. /\ wcb' \in BlockType /\ wcb'.OPCODE = wcb.OPCODE /\ wcb'.MASK = wcb.MASK
       /\ head' \in Nat /\ remaining_len' \in Nat /\ head' + remaining_len' = rx
       /\ head' = head + read_len + l
       /\ \/ /\ status' = "HEADER" /\ l = wcb.payload_len
             /\ ws_pc' \in {"recv", "header"} /\ (ws_pc' = "recv" => remaining_len' = 0)
          \/ /\ status' = status /\ ws_pc' = "recv" /\ remaining_len' = 0
             /\ wcb'.payload_len = wcb.payload_len - l
             /\ wcb'.payload_len > 0
  BY <1>1, <1>3, <1>5, AdvanceIs
<1>15. Buffer'
  <2>1. rx <= StreamLen
    BY <1>1 DEF Buffer
  <2> QED
    BY <1>5, <1>6, <1>14, <2>1 DEF Buffer
<1>16. ASSUME NEW i \in 1..m
       PROVE  /\ CutIn(i)' = CutIn(i)
              /\ i < c /\ stream[i].frame.op = "binary" => execs'[i] = 1 + cuts'[i]
              /\ i > c => Untouched(i)'
  <2>1. CutIn(i)' = CutIn(i)
    BY <1>5, <1>6 DEF CutIn
  <2>2. i \in 1..MaxFrames
    BY <1>11
  <2>3. i # c => got'[i] = got[i] /\ execs'[i] = execs[i]
    BY <1>5, <2>2
  <2>4. i < c /\ stream[i].frame.op = "binary" => execs[i] = 1 + cuts[i]
    BY <1>0, <1>2 DEF At
  <2>5. i > c => Untouched(i)
    BY <1>0, <1>2 DEF At
  <2>6. (i < c => i # c) /\ (i > c => i # c)
    OBVIOUS
  <2> QED
    BY <1>5, <2>1, <2>3, <2>4, <2>5, <2>6 DEF Untouched
<1>17. stream[c].frame.op = "binary" =>
          wcb.OPCODE = "binary" /\ cuts[c] = execs[c] + (IF CutIn(c) THEN 1 ELSE 0)
  BY <1>1, <1>2 DEF ReadingPayload
<1>18. rx \in Nat /\ head' <= rx
  <2>1. PICK a \in Nat, b \in Nat : a = head' /\ b = remaining_len' /\ a + b = rx
    BY <1>14
  <2> QED
    BY <2>1
<1>19. CASE status' = "HEADER" /\ l = wcb.payload_len
            /\ ws_pc' \in {"recv", "header"} /\ (ws_pc' = "recv" => remaining_len' = 0)
  <2>1. head' = StartOf(c + 1)
    BY <1>3, <1>7, <1>8, <1>14, <1>19
  <2>2. stream[c].frame.op = "binary" => execs'[c] = 1 + cuts'[c]
    <3>1. ~CutIn(c)
      BY <1>7, <1>18, <2>1 DEF CutIn
    <3> QED
      BY <1>5, <1>13, <1>17, <3>1
  <2>3. ws_pc' = "recv" /\ c + 1 <= m => rx < PayloadOf(c + 1)
    <3>1. SUFFICES ASSUME ws_pc' = "recv", c + 1 <= m PROVE rx < PayloadOf(c + 1)
      OBVIOUS
    <3>2. rx = StartOf(c + 1)
      BY <1>14, <1>19, <2>1, <3>1
    <3>3. c + 1 \in 1..m
      BY <3>1
    <3> QED
      BY <1>0, <1>1, <3>2, <3>3, Places
  <2>4. ReadingHeader(c + 1)'
    BY <1>5, <1>6, <1>19, <2>1, <2>3 DEF ReadingHeader
  <2>5. ASSUME NEW i \in 1..m
        PROVE  /\ i < c + 1 /\ stream[i].frame.op = "binary" => execs'[i] = 1 + cuts'[i]
               /\ i > c + 1 \/ i = c + 1 => Untouched(i)'
    <3>1. (i < c + 1 => i < c \/ i = c) /\ (i > c + 1 \/ i = c + 1 => i > c)
      OBVIOUS
    <3> QED
      BY <1>16, <2>2, <3>1
  <2>6. At(c + 1)' /\ c + 1 \in 1..(Len(stream') + 1)
    <3>1. c + 1 \in 1..(m + 1) /\ status' # "PAYLOAD"
      BY <1>19
    <3>2. \A i \in 1..Len(stream') :
             /\ i < c + 1 /\ stream'[i].frame.op = "binary" => execs'[i] = 1 + cuts'[i]
             /\ i > c + 1 \/ (i = c + 1 /\ status' # "PAYLOAD") => Untouched(i)'
      BY <1>5, <1>6, <2>5
    <3> QED
      BY <1>6, <2>4, <3>1, <3>2 DEF At
  <2> QED
    BY <1>6, <1>10, <1>12, <1>14, <1>15, <1>19, <2>6 DEF WsInv, Open
<1>20. CASE status' = status /\ ws_pc' = "recv" /\ remaining_len' = 0
            /\ wcb'.payload_len = wcb.payload_len - l /\ wcb'.payload_len > 0
  <2>1. head' = (head + read_len) + l /\ rx = head'
    BY <1>3, <1>7, <1>14, <1>20
  <2>2. /\ head' + wcb'.payload_len = StartOf(c + 1) /\ head' < StartOf(c + 1)
        /\ PayloadOf(c) <= head' /\ got'[c] = head' - PayloadOf(c)
    BY <1>3, <1>7, <1>8, <1>13, <1>20, <2>1
  <2>3. stream[c].frame.op = "binary" => cuts'[c] = execs'[c] + 0
    <3>1. CutIn(c)
      BY <2>1, <2>2 DEF CutIn
    <3> QED
      BY <1>5, <1>13, <1>17, <3>1
  <2>4. wcb'.MASK /\ wcb'.OPCODE # "ping" => mask_at' = got'[c] % 4
    BY <1>9, <1>13, <1>14
  <2>5. c <= m /\ c \in 1..(m + 1)
    OBVIOUS
  <2>6. /\ wcb'.MASK = stream[c].frame.mask
        /\ stream[c].frame.op # "cont" => wcb'.OPCODE = stream[c].frame.op
    BY <1>2, <1>14 DEF ReadingPayload
  <2>7. head' + read_len' + wcb'.payload_len = StartOf(c + 1) /\ head' + read_len' = head'
    BY <1>5, <1>14, <2>2
  <2>8. ReadingPayload(c)'
    BY <1>5, <1>6, <1>20, <2>2, <2>3, <2>4, <2>5, <2>6, <2>7 DEF ReadingPayload
  <2>9. At(c)'
    BY <1>1, <1>5, <1>6, <1>16, <1>20, <2>8 DEF At, HeaderStatus
  <2> QED
    BY <1>1, <1>6, <1>10, <1>12, <1>14, <1>15, <1>20, <2>5, <2>9 DEF WsInv, Open
<1> QED
  BY <1>14, <1>19, <1>20

LEMMA WsKeeps ==
    ASSUME WsInv, \/ \E f \in Frames : Send(f)
                  \/ WsRecv \/ WsStep \/ PeerGone \/ UNCHANGED wsVars
    PROVE  WsInv'
<1>1. CASE \E f \in Frames : Send(f)
  BY <1>1, SendKeeps
<1>2. CASE WsRecv
  <2>1. \A n \in 0..BufferSize : n \in Nat
    BY WsStreamAssumption
  <2> QED
    BY <1>2, <2>1, HandshakeKeeps, RecvKeeps DEF WsRecv
<1>3. CASE PeerGone \/ PayloadEnds \/ Return
  BY <1>3, WsStartKeeps DEF PeerGone, PayloadEnds, Return
<1>4. CASE WsStep
  BY <1>3, <1>4, HeaderWaitKeeps, HeaderBytesKeeps, HeaderLengthKeeps, HeaderMaskKeeps, PayloadKeeps
     DEF WsStep
<1>5. CASE UNCHANGED wsVars
  <2>1. /\ UNCHANGED stream /\ UNCHANGED rx /\ UNCHANGED head /\ UNCHANGED remaining_len
        /\ UNCHANGED read_len /\ UNCHANGED status /\ UNCHANGED wcb /\ UNCHANGED mask_at
        /\ UNCHANGED ws_pc /\ UNCHANGED got /\ UNCHANGED execs /\ UNCHANGED cuts /\ UNCHANGED garbled
    BY <1>5 DEF wsVars
  <2>2. Layout' = Layout /\ Buffer' = Buffer /\ Histories' = Histories
    BY <2>1, SameStream DEF Buffer, Histories, Counters
  <2>3. \A c : At(c)' = At(c)
    BY <2>1, SameStream DEF At, ReadingHeader, ReadingPayload, Untouched, CutIn
  <2> QED
    BY <2>1, <2>2, <2>3 DEF WsInv
<1> QED
  BY <1>1, <1>2, <1>3, <1>4, <1>5

----------------------------------------------------------------------------
(* The parser and the client agree *)

\* What the invariant says of a connection being served.
LEMMA WsPlace ==
    ASSUME WsInv, status \in Open
    PROVE  \E c \in 1..(Len(stream) + 1) :
              /\ At(c)
              /\ status \in HeaderStatus =>
                    /\ head = StartOf(c)
                    /\ c \in 1..Len(stream) => AtFrame
                    /\ c = Len(stream) + 1 => head = StreamLen /\ remaining_len = 0
              /\ status = "PAYLOAD" =>
                    /\ c \in 1..Len(stream) /\ PayloadFrame = c
                    /\ head < StartOf(c + 1)
                    /\ head + read_len + wcb.payload_len = StartOf(c + 1)
<1>1. Layout /\ Buffer /\ wcb \in BlockType
  BY DEF WsInv
<1>2. PICK c \in 1..(Len(stream) + 1) : At(c)
  BY DEF WsInv
<1>3. ASSUME status \in HeaderStatus
      PROVE  /\ head = StartOf(c)
             /\ c \in 1..Len(stream) => AtFrame
             /\ c = Len(stream) + 1 => head = StreamLen /\ remaining_len = 0
  <2>1. head = StartOf(c)
    BY <1>2, <1>3 DEF At, ReadingHeader
  <2>2. c \in 1..Len(stream) => AtFrame
    <3>1. SUFFICES ASSUME c \in 1..Len(stream) PROVE AtFrame
      OBVIOUS
    <3>2. c <= Len(stream)
      BY <1>1, <3>1, Places
    <3> QED
      BY <1>2, <1>3, <3>2, FrameIs
  <2>3. c = Len(stream) + 1 => head = StreamLen /\ remaining_len = 0
    <3>1. SUFFICES ASSUME c = Len(stream) + 1 PROVE head = StreamLen /\ remaining_len = 0
      OBVIOUS
    <3>2. head = StreamLen
      BY <2>1, <3>1 DEF StreamLen
    <3> QED
      BY <1>1, <3>2 DEF Buffer
  <2> QED
    BY <2>1, <2>2, <2>3
<1>4. ASSUME status = "PAYLOAD"
      PROVE  /\ c \in 1..Len(stream) /\ PayloadFrame = c
             /\ head < StartOf(c + 1)
             /\ head + read_len + wcb.payload_len = StartOf(c + 1)
  <2>1. ReadingPayload(c)
    BY <1>2, <1>4 DEF At
  <2>2. c \in 1..Len(stream)
    BY <1>1, <2>1, Places DEF ReadingPayload
  <2> QED
    BY <1>1, <2>1, <2>2, PayloadPlace, PayloadFrameIs DEF ReadingPayload
<1> QED
  BY <1>2, <1>3, <1>4

LEMMA WsAgrees ==
    ASSUME WsInv
    PROVE  ParserInSync /\ PayloadUnmasked /\ AnswersPerFrame
<1>1. PayloadUnmasked
  BY DEF WsInv, PayloadUnmasked
<1>2. CASE status \notin Open
  <2>1. stream = <<>>
    BY <1>2 DEF WsInv
  <2> QED
    BY <1>1, <1>2, <2>1 DEF ParserInSync, AnswersPerFrame, Open
<1>3. CASE status \in Open
  <2>1. Layout /\ Len(stream) \in Nat /\ head \in Nat
    BY <1>3, Places DEF WsInv, Buffer
  <2>2. PICK c \in 1..(Len(stream) + 1) :
              /\ At(c)
              /\ status \in HeaderStatus =>
                    /\ head = StartOf(c)
                    /\ c \in 1..Len(stream) => AtFrame
                    /\ c = Len(stream) + 1 => head = StreamLen /\ remaining_len = 0
              /\ status = "PAYLOAD" =>
                    /\ c \in 1..Len(stream) /\ PayloadFrame = c
                    /\ head < StartOf(c + 1)
                    /\ head + read_len + wcb.payload_len = StartOf(c + 1)
    BY <1>3, WsPlace
  <2>3. c \in 1..Len(stream) \/ c = Len(stream) + 1
    BY <2>1
  <2>4. ParserInSync
    <3>1. c \in 1..Len(stream) => c # 0
      BY <2>1
    <3> QED
      BY <2>2, <2>3, <3>1 DEF ParserInSync, HeaderStatus
  <2>5. ASSUME NEW i \in 1..Len(stream), stream[i].frame.op = "binary", head >= StartOf(i + 1)
        PROVE  execs[i] = 1 + cuts[i]
    <3>1. StartOf(i) \in Nat /\ StartOf(i + 1) \in Nat /\ StartOf(i) < StartOf(i + 1)
          /\ i \in 1..(Len(stream) + 1) /\ StartOf(c) \in Nat
      <4>1. i < i + 1 /\ i + 1 \in 1..(Len(stream) + 1) /\ i \in 1..(Len(stream) + 1)
        BY <2>1
      <4> QED
        BY <2>1, <4>1, Places
    <3>2. ~(c <= i)
      <4>1. SUFFICES ASSUME c <= i PROVE FALSE
        OBVIOUS
      <4>2. CASE status \in HeaderStatus
        <5>1. StartOf(c) <= StartOf(i)
          <6>1. c = i \/ c < i
            BY <4>1
          <6> QED
            BY <2>1, <3>1, <6>1, Places
        <5> QED
          BY <2>1, <2>2, <2>5, <3>1, <4>2, <5>1
      <4>3. CASE status = "PAYLOAD"
        <5>0. c \in 1..Len(stream) /\ head < StartOf(c + 1)
          BY <2>2, <4>3
        <5>1. StartOf(c + 1) <= StartOf(i + 1) /\ StartOf(c + 1) \in Nat
          <6>1. c = i \/ c < i
            BY <4>1
          <6>2. c < i => StartOf(c + 1) <= StartOf(i)
            BY <2>1, <5>0, Places
          <6>3. StartOf(c + 1) \in Nat
            BY <2>1, <5>0, Places
          <6> QED
            BY <3>1, <6>1, <6>2, <6>3
        <5> QED
          BY <2>1, <2>5, <3>1, <5>0, <5>1
      <4> QED
        BY <1>3, <4>2, <4>3 DEF Open, HeaderStatus
    <3>3. i < c
      BY <2>1, <3>2
    <3> QED
      BY <2>2, <2>5, <3>3 DEF At
  <2> QED
    BY <1>1, <2>4, <2>5 DEF AnswersPerFrame
<1> QED
  BY <1>2, <1>3

THEOREM WsInvariance == Spec => []WsInv
<1>1. Init => WsInv
  <2>1. SUFFICES ASSUME Init PROVE WsInv
    OBVIOUS
  <2>2. /\ stream = <<>> /\ status = "CLOSING" /\ ws_pc = "recv" /\ wcb = NoFrame
        /\ got = Zero /\ execs = Zero /\ cuts = Zero /\ garbled = FALSE
    BY <2>1 DEF Init, WsIdle
  <2>3. Layout
    <3>1. Len(<<>>) = 0 /\ MaxFrames \in Nat
      BY WsStreamAssumption
    <3>2. StartOf(1) = 0
      BY <2>2, <3>1 DEF StartOf
    <3> QED
      BY <2>2, <3>1, <3>2 DEF Layout
  <2>4. Histories
    <3>1. Zero \in Counters /\ \A i \in 1..MaxFrames : Zero[i] = 0
      BY DEF Zero, Counters
    <3>2. Len(stream) + 1 = 1
      BY <2>2
    <3> HIDE DEF Zero, Counters
    <3> QED
      BY <2>2, <3>1, <3>2 DEF Histories
  <2>5. NoFrame \in BlockType
    BY DEF NoFrame, BlockType, Opcodes
  <2> QED
    BY <2>2, <2>3, <2>4, <2>5 DEF WsInv, Open
<1>2. WsInv /\ [Next]_proxyVars => WsInv'
  <2>1. SUFFICES ASSUME WsInv, [Next]_proxyVars PROVE WsInv'
    OBVIOUS
  <2>2. CASE Accept
    <3>1. CASE AcceptWebSocket
      BY <3>1, WsStartKeeps DEF AcceptWebSocket
    <3>2. CASE AcceptUsbip
      BY <3>2, WsStartKeeps DEF AcceptUsbip
    <3> QED
      BY <2>2, <3>1, <3>2 DEF Accept
  <2>3. CASE ServeWebSocket
    BY <2>1, <2>3, WsKeeps DEF ServeWebSocket
  <2>4. CASE ServeUsbip \/ UNCHANGED proxyVars
    <3>1. UNCHANGED wsVars
      BY <2>4 DEF ServeUsbip, proxyVars
    <3> QED
      BY <2>1, <3>1, WsKeeps
  <2> QED
    BY <2>1, <2>2, <2>3, <2>4 DEF Next
<1> QED
  BY <1>1, <1>2, PTL DEF Spec

\* Wherever the stream is cut and however many frames share the buffer, the
\* parser stays at the client's frames (websocket_server.c:199-309, 595-640).
THEOREM ParserStaysInSync == Spec => []ParserInSync
  BY WsInvariance, WsAgrees, PTL

\* Every payload byte is handled once, in order, and unmasked with the byte of
\* the key that belongs to its place, for every length, alignment and
\* segmentation (websocket_server.c:452-521).
THEOREM PayloadIsUnmasked == Spec => []PayloadUnmasked
  BY WsInvariance, WsAgrees, PTL

\* The host gets one answer for a binary frame and one more for every cut that
\* falls into its payload (websocket_server.c:587-593, 649-683).
THEOREM FramesAreAnswered == Spec => []AnswersPerFrame
  BY WsInvariance, WsAgrees, PTL

----------------------------------------------------------------------------
(* USBIP *)

\* What is left of the host's message is what the server still reads; while the
\* data of a message are read its header is in network order.
UsbInv ==
    /\ urb.ep \in Nat
    /\ usbip_state # "closed" => sz = owed
    /\ usbip_state = "WAIT_URB" =>
          /\ part \in {"header", "data"}
          /\ part = "data" => order = "net" /\ reply = NoReply
          /\ reply.sent \in {"submit", "unlink"} /\ urb.ep <= 1 => reply.order = "net"
          /\ reply.sent = "submit" => reply.announced = reply.bytes
          /\ part = "header" /\ reply.sent = "none" => urb.req = "unknown"

LEMMA UsbStartKeeps ==
    ASSUME NEW first \in {"WAIT_DEVLIST", "WAIT_IMPORT", "closed"}, UsbStart(first)
    PROVE  UsbInv'
<1>1. NoUrb.ep \in Nat
  BY DEF NoUrb
<1> QED
  BY <1>1 DEF UsbStart, UsbInv

\* As many bytes of a descriptor are announced as are sent.
LEMMA DescriptorLengths ==
    ASSUME NEW u
    PROVE  GetDescriptor(u)[1] = GetDescriptor(u)[2]
  BY DEF GetDescriptor, ConfigLen

LEMMA ControlReplies ==
    ASSUME NEW u
    PROVE  /\ ControlReply(u, "host") = NoReply => u.req = "unknown"
           /\ \/ ControlReply(u, "host") = NoReply
              \/ \E n : ControlReply(u, "host") = Submitted("host", n, n)
<1>1. CASE u.req = "unknown"
  BY <1>1 DEF ControlReply
<1>2. CASE u.req # "unknown"
  <2>1. \E n : ControlReply(u, "host") = Submitted("host", n, n)
    BY <1>2, DescriptorLengths DEF ControlReply
  <2>2. \A n : Submitted("host", n, n) # NoReply
    <3>1. \A n : Submitted("host", n, n).sent = "submit" /\ NoReply.sent = "none"
      BY DEF Submitted, NoReply
    <3> QED
      BY <3>1
  <2> QED
    BY <2>1, <2>2
<1> QED
  BY <1>1, <1>2

LEMMA UsbStepKeeps ==
    ASSUME UsbInv, UsbStep
    PROVE  UsbInv'
<1>1. CASE Stage1
  BY <1>1 DEF Stage1, UsbInv
<1>2. ASSUME NEW u \in Urbs, UrbHeader(u) PROVE UsbInv'
  <2>1. u.dir = "out" /\ u.command # "submit" => u.data = 0
    BY UsbipStreamAssumption
  <2>2. sz' = owed'
    BY <1>2, <2>1 DEF UrbHeader
  <2>3. part' = "data" /\ order' = "net" /\ reply' = NoReply /\ urb'.ep \in Nat
    BY <1>2, UsbipStreamAssumption DEF UrbHeader
  <2> QED
    BY <2>2, <2>3 DEF UsbInv, NoReply
<1>3. CASE BulkIn \/ BulkOut
  <2>1. reply'.sent = "bulk" /\ NextHeader /\ UNCHANGED urb
    BY <1>3 DEF BulkIn, BulkOut
  <2> QED
    BY <2>1 DEF NextHeader, UsbInv
<1>4. CASE Control
  <2>1. /\ order = "net" /\ UNCHANGED urb /\ NextHeader
        /\ reply' = ControlReply(urb, "host")
    BY <1>4 DEF Control, Dispatching, UsbInv, Flip
  <2>2. CASE reply' = NoReply
    <3>1. urb'.req = "unknown" /\ reply'.sent = "none"
      BY <2>1, <2>2, ControlReplies DEF NoReply
    <3> QED
      BY <2>1, <3>1 DEF NextHeader, UsbInv
  <2>3. CASE \E n : reply' = Submitted("host", n, n)
    <3>1. reply'.sent = "submit" /\ reply'.order = "net" /\ reply'.announced = reply'.bytes
      BY <2>3 DEF Submitted, Flip
    <3> QED
      BY <2>1, <3>1 DEF NextHeader, UsbInv
  <2> QED
    BY <2>1, <2>2, <2>3, ControlReplies
<1>5. CASE Reserved
  <2>1. /\ reply' = Submitted(order, 0, 0) /\ NextHeader /\ UNCHANGED urb
        /\ ~(urb'.ep <= 1)
    <3>1. urb'.ep \in Nat /\ urb'.ep > 1
      BY <1>5 DEF Reserved, UsbInv
    <3> QED
      BY <1>5, <3>1 DEF Reserved
  <2>2. reply'.sent = "submit" /\ reply'.announced = reply'.bytes
    BY <2>1 DEF Submitted
  <2> QED
    BY <2>1, <2>2 DEF NextHeader, UsbInv
<1>6. CASE handle_unlink
  <2>1. /\ order = "net" /\ NextHeader /\ UNCHANGED urb
        /\ reply' = [sent |-> "unlink", order |-> "net"]
    BY <1>6 DEF handle_unlink, Dispatching, UsbInv, Flip
  <2>2. reply'.sent = "unlink" /\ reply'.order = "net"
    BY <2>1
  <2> QED
    BY <2>1, <2>2 DEF NextHeader, UsbInv
<1>7. CASE UnknownCommand
  BY <1>7, UsbStartKeeps DEF UnknownCommand
<1> QED
  BY <1>1, <1>2, <1>3, <1>4, <1>5, <1>6, <1>7 DEF UsbStep

\* The USBIP server reads of a message what the host sends, replies in network
\* order and with as many bytes as announced, the reserved endpoint excepted,
\* for every message and segmentation (usbip_server.c:178-236, 347-412,
\* usb_handle.c:31-330).
THEOREM UrbsAreExchanged == Spec => []UrbExchange
<1>1. Init => UsbInv
  BY DEF Init, UsbIdle, UsbInv, NoUrb
<1>2. UsbInv /\ [Next]_proxyVars => UsbInv'
  <2>1. SUFFICES ASSUME UsbInv, [Next]_proxyVars PROVE UsbInv'
    OBVIOUS
  <2>2. CASE Accept
    BY <2>2, UsbStartKeeps DEF Accept, AcceptWebSocket, AcceptUsbip
  <2>3. CASE \E n \in 1..48 : UsbRecv(n)
    BY <2>1, <2>3 DEF UsbRecv, UsbInv
  <2>4. CASE UsbStep
    BY <2>1, <2>4, UsbStepKeeps
  <2>5. CASE UsbGone
    BY <2>5, UsbStartKeeps DEF UsbGone
  <2>6. CASE UNCHANGED usbVars
    BY <2>1, <2>6 DEF usbVars, UsbInv
  <2> QED
    BY <2>1, <2>2, <2>3, <2>4, <2>5, <2>6 DEF Next, ServeWebSocket, ServeUsbip, proxyVars
<1>3. UsbInv => UrbExchange
  BY DEF UsbInv, UrbExchange
<1> QED
  BY <1>1, <1>2, <1>3, PTL DEF Spec

=============================================================================
