------------------------------ MODULE WsStream ------------------------------
(***************************************************************************)
(* The WebSocket server of the debug port (components/dap_proxy,           *)
(* websocket_server.c): a frame parser over a TCP stream that may be cut   *)
(* anywhere.                                                               *)
(*                                                                         *)
(* The stream is a sequence of frames and a byte is its offset in it.  The *)
(* receive buffer always holds a stretch of the stream, so it is described *)
(* by the offset of its first byte, the bytes in it and the bytes parsed.  *)
(***************************************************************************)
EXTENDS Integers, Sequences

CONSTANTS
    Frames,         \* bound: the frames a client may send
    MaxFrames,      \* bound: frames of one connection
    BufferSize,     \* CONFIG_CO_SOCKET_BUFFER_SIZE, scaled down
    TextBufferSize, \* CONFIG_CO_WS_TEXT_BUFFER_SIZE, scaled down
    LengthRange,    \* 2^32, the values of wcb.payload_len, scaled down
    LengthTop,      \* 2^63, the top bit of a 64-bit length, scaled down
    Requests        \* bound: HTTP requests, their length and whether they are good

ASSUME WsStreamAssumption ==
    /\ Frames \subseteq [op : {"binary", "text", "ping", "pong", "cont", "close", "bad"},
                         ext : {0, 2, 8}, mask : BOOLEAN, len : Nat]
    /\ LengthRange \in Nat \ {0} /\ LengthTop \in Nat
    \* No frame of 4 GiB or more, but one that is refused for its length.
    /\ \A f \in Frames : f.len < LengthRange \/ (f.ext = 8 /\ f.len >= LengthTop)
    /\ MaxFrames \in Nat
    /\ BufferSize \in Nat /\ BufferSize >= 14    \* the longest frame header
    /\ TextBufferSize \in 0..BufferSize
    /\ Requests \subseteq [len : Nat \ 0..4, good : BOOLEAN]

VARIABLES
    stream,         \* the frames the client has sent, and where each starts
    http,           \* length of the client's HTTP request, and whether it is good
    rx,             \* bytes of the stream received so far
    head,           \* offset in the stream of the first byte of scb.buf
    remaining_len, read_len, status,
    wcb,            \* OPCODE, MASK, payload_len, skip_frame of the frame
    mask_at,        \* the byte of the masking key that mask.val begins with
    ws_pc,          \* what co_websocket_process does next
    got,            \* history: payload bytes handled, per frame
    execs,          \* history: calls of DAP_ExecuteCommand, per frame
    cuts,           \* history: ends of a recv inside the payload, per frame
    garbled         \* history: a byte handled twice, late or with a wrong key byte

wsVars == <<stream, http, rx, head, remaining_len, read_len, status, wcb,
            mask_at, ws_pc, got, execs, cuts, garbled>>
fixed == <<stream, http>>
history == <<got, execs, cuts, garbled>>

----------------------------------------------------------------------------
(* The stream *)

HeaderLen(f) == 2 + f.ext + (IF f.mask THEN 4 ELSE 0)
Length(f) == HeaderLen(f) + f.len

StartOf(i) == IF i <= Len(stream) THEN stream[i].start
              ELSE IF i = 1 THEN 0
              ELSE stream[i - 1].start + Length(stream[i - 1].frame)
PayloadOf(i) == StartOf(i) + HeaderLen(stream[i].frame)
StreamLen == StartOf(Len(stream) + 1)

\* The frame whose header is at the head of the buffer, 0 if none is.
Current ==
    LET at == {i \in 1..Len(stream) : StartOf(i) <= head /\ head < StartOf(i + 1)}
    IN  IF at = {} THEN 0 ELSE CHOOSE i \in at : TRUE

AtFrame == Current # 0 /\ StartOf(Current) = head
Frame == stream[Current].frame

NoFrame == [OPCODE |-> "cont", MASK |-> FALSE, payload_len |-> 0, skip_frame |-> FALSE]
Zero == [i \in 1..MaxFrames |-> 0]

NoRequest == [len |-> 0, good |-> FALSE]

WsIdle ==
    /\ stream = <<>> /\ http = NoRequest
    /\ rx = 0 /\ head = 0
    /\ remaining_len = 4 /\ read_len = 0
    /\ status = "CLOSING"
    /\ wcb = NoFrame /\ mask_at = 0
    /\ ws_pc = "recv"
    /\ got = Zero /\ execs = Zero /\ cuts = Zero /\ garbled = FALSE

----------------------------------------------------------------------------
(* Handshake *)

\* websocket_worker: four bytes of the request have been read.  Nothing is
\* kept of an earlier connection.
WsStart(h, first) ==
    /\ stream' = <<>> /\ http' = h
    /\ rx' = 0 /\ head' = 0
    /\ remaining_len' = 4 /\ read_len' = 0
    /\ status' = first
    /\ wcb' = NoFrame /\ mask_at' = 0
    /\ ws_pc' = "recv"
    /\ got' = Zero /\ execs' = Zero /\ cuts' = Zero /\ garbled' = FALSE

\* The worker returns, and its control blocks are gone.
Return == WsStart(NoRequest, "CLOSING")

\* co_websocket_handshake_process: the request is looked at when the blank line
\* ends what was received; one that does not fit leaves no room, and recv of no
\* bytes is answered with error 400 like everything else that is wrong with it.
Handshake(n) ==
    /\ status = "HANDSHAKE"
    /\ \/ n = 0 /\ remaining_len = BufferSize /\ Return
       \/ /\ n \in 1..(BufferSize - remaining_len)
          /\ n <= http.len - remaining_len
          /\ \/ remaining_len + n = http.len /\ ~http.good /\ Return
             \/ /\ \/ /\ remaining_len + n < http.len
                      /\ remaining_len' = remaining_len + n /\ UNCHANGED status
                   \/ /\ remaining_len + n = http.len /\ http.good
                      /\ remaining_len' = 0 /\ status' = "HEADER"
                /\ UNCHANGED <<fixed, rx, head, read_len, wcb, mask_at, ws_pc, history>>

----------------------------------------------------------------------------
(* co_websocket_process *)

Open == {"HEADER", "EXTEND_LENGTH", "MASK", "PAYLOAD"}

\* The client sends one more frame.
Send(f) ==
    /\ status \in Open
    /\ Len(stream) < MaxFrames
    /\ stream' = Append(stream, [frame |-> f, start |-> StreamLen])
    /\ UNCHANGED <<http, rx, head, remaining_len, read_len, status, wcb, mask_at, ws_pc, history>>

\* recv appends up to the free room of the buffer.
Recv(n) ==
    LET Inside(i) == PayloadOf(i) <= rx + n /\ rx + n < StartOf(i + 1) IN
    /\ status \in Open /\ ws_pc = "recv"
    /\ n \in 1..(BufferSize - remaining_len)
    /\ rx + n <= StreamLen
    /\ rx' = rx + n
    /\ remaining_len' = remaining_len + n
    /\ ws_pc' = IF status = "PAYLOAD" THEN "payload" ELSE "header"
    /\ cuts' = [i \in 1..MaxFrames |->
                   IF i <= Len(stream) /\ Inside(i) THEN cuts[i] + 1 ELSE cuts[i]]
    /\ UNCHANGED <<fixed, head, read_len, status, wcb, mask_at, got, execs, garbled>>

\* recv returns 0 or an error.
PeerGone ==
    /\ status # "CLOSING" /\ ws_pc = "recv"
    /\ Return

\* co_websocket_process_header, its three parts.  Each waits for its bytes and
\* resumes where it was: read_len is kept and the header stays at the head.
HeaderWait ==
    LET needed == CASE status = "HEADER"        -> 2
                    [] status = "EXTEND_LENGTH" -> read_len + Frame.ext
                    [] OTHER                    -> read_len + 4
    IN  /\ ws_pc = "header"
        /\ remaining_len < needed
        /\ ws_pc' = "recv"
        /\ UNCHANGED <<fixed, rx, head, remaining_len, read_len, status, wcb, mask_at, history>>

\* A continuation keeps the opcode of the frame before it.
OpcodeOf_SetOnce(f) == IF wcb.OPCODE = "cont" THEN f.op ELSE wcb.OPCODE
OpcodeOf(f) == IF f.op = "cont" THEN wcb.OPCODE ELSE f.op

\* Bytes that are not a header the client sent are refused (as an unknown
\* opcode, or a reserved bit) or taken for anything.
HeaderBytes ==
    /\ ws_pc = "header" /\ status = "HEADER"
    /\ remaining_len >= 2
    /\ IF ~AtFrame \/ Frame.op = "bad"
       THEN Return
       ELSE /\ UNCHANGED <<fixed, rx, head, remaining_len, mask_at, history>>
            /\ read_len' = 2
            /\ wcb' = [wcb EXCEPT !.OPCODE = OpcodeOf(Frame),
                                  !.MASK = Frame.mask,
                                  !.payload_len = CASE Frame.ext = 2 -> 126
                                                    [] Frame.ext = 8 -> 127
                                                    [] OTHER         -> Frame.len]
            /\ status' = IF Frame.ext > 0 THEN "EXTEND_LENGTH"
                         ELSE IF Frame.mask THEN "MASK" ELSE "PAYLOAD"
            /\ ws_pc' = IF status' = "PAYLOAD" THEN "payload" ELSE "header"

\* A 64-bit length with its top bit set is refused, and what is left of a length
\* in 32 bits is the payload expected.
HeaderLength ==
    /\ ws_pc = "header" /\ status = "EXTEND_LENGTH"
    /\ remaining_len >= read_len + Frame.ext
    /\ IF Frame.ext = 8 /\ Frame.len >= LengthTop
       THEN Return
       ELSE /\ read_len' = read_len + Frame.ext
            /\ wcb' = [wcb EXCEPT !.payload_len = Frame.len % LengthRange]
            /\ status' = IF wcb.MASK THEN "MASK" ELSE "PAYLOAD"
            /\ ws_pc' = IF wcb.MASK THEN "header" ELSE "payload"
            /\ UNCHANGED <<fixed, rx, head, remaining_len, mask_at, history>>

HeaderMask ==
    /\ ws_pc = "header" /\ status = "MASK"
    /\ remaining_len >= read_len + 4
    /\ read_len' = read_len + 4
    /\ mask_at' = 0
    /\ status' = "PAYLOAD"
    /\ ws_pc' = "payload"
    /\ UNCHANGED <<fixed, rx, head, remaining_len, wcb, history>>

----------------------------------------------------------------------------
(* co_websocket_process_payload *)

\* co_websocket_fast_mask: the byte of mask.val applied to byte j of len bytes
\* at address dst.  From 8 bytes on, whole words are masked with the key
\* rotated by the bytes before the first aligned one.
co_websocket_fast_mask(dst, len, j) ==
    LET align == (-dst) % 4
        words == 4 * ((len - align) \div 4)
    IN  IF len < 8 THEN j % 4
        ELSE IF j < align THEN j
        ELSE IF j < align + words THEN (align + ((j - align) % 4)) % 4
        ELSE (align + ((j - align - words) % 4)) % 4

\* co_websocket_get_new_mask: the key rotated by the bytes used.
NewMask_NotRotated(at, len) == at
NewMask(at, len) == (at + (len % 4)) % 4

\* What the opcode makes of a part of len bytes: "ok", "fail", or "crash" for a
\* text in parts, which is gathered at recv_data, a null pointer.
Handled(len) ==
    CASE wcb.OPCODE = "close" -> "fail"
      [] /\ wcb.OPCODE = "text" /\ ~wcb.skip_frame /\ len # wcb.payload_len
         /\ len > 0 /\ len <= TextBufferSize -> "crash"
      [] OTHER -> "ok"

\* A text too long to gather is skipped to its end.
Skipping(len) ==
    /\ wcb.OPCODE = "text"
    /\ len # wcb.payload_len
    /\ wcb.skip_frame \/ len > TextBufferSize

\* What is left in the buffer is parsed at once (CO_ERROR_IO_PENDING).
AfterPart_AlwaysOk(new_len) == "recv"
AfterPart(new_len) == IF new_len > 0 THEN "header" ELSE "recv"

\* Where the parser is after the part: at a new frame in the buffer, inside the
\* frame, or between two frames.
Advance(len) ==
    LET new_len == remaining_len - read_len - len IN
    /\ ws_pc' = AfterPart(new_len)
    /\ CASE new_len > 0 ->
              /\ head' = head + read_len + len
              /\ remaining_len' = new_len
              /\ status' = "HEADER"
              /\ wcb' = [wcb EXCEPT !.payload_len = 0, !.skip_frame = Skipping(len)]
         [] new_len <= 0 /\ wcb.payload_len > len ->
              /\ head' = head + remaining_len
              /\ remaining_len' = 0
              /\ UNCHANGED status
              /\ wcb' = [wcb EXCEPT !.payload_len = @ - len, !.skip_frame = Skipping(len)]
         [] OTHER ->
              /\ head' = head + remaining_len
              /\ remaining_len' = 0
              /\ status' = "HEADER"
              /\ wcb' = [wcb EXCEPT !.payload_len = 0, !.skip_frame = Skipping(len)]

PayloadLen_AllThere == remaining_len - read_len
PayloadLen ==
    LET there == remaining_len - read_len
    IN  IF there < wcb.payload_len THEN there ELSE wcb.payload_len

\* The frame the payload at read_len belongs to; a frame without payload is
\* the one before that offset.
PayloadFrame ==
    LET at == head + read_len
        owns == {i \in 1..Len(stream) : PayloadOf(i) <= at /\ at <= StartOf(i + 1)}
        more == {i \in owns : at + PayloadLen <= StartOf(i + 1) /\ (AtFrame => i = Current)}
    IN  IF more = {} THEN 0 ELSE CHOOSE i \in more : \A j \in more : j <= i

\* buf is word aligned.
Unmasked(i, len) ==
    LET place == head + read_len - PayloadOf(i)
        Key(j) == (mask_at + co_websocket_fast_mask(read_len, len, j)) % 4
    IN  \A j \in 0..(len - 1) : Key(j) = (place + j) % 4

Payload ==
    /\ ws_pc = "payload"
    /\ \E len \in {PayloadLen}, i \in {PayloadFrame} :
          LET unmask == wcb.MASK /\ wcb.OPCODE # "ping" IN
          /\ Handled(len) = "ok"
          /\ mask_at' = IF unmask THEN NewMask(mask_at, len) ELSE mask_at
          /\ garbled' = \/ garbled \/ i = 0
                        \/ head + read_len # PayloadOf(i) + got[i]
                        \/ unmask /\ ~Unmasked(i, len)
          /\ got' = [j \in 1..MaxFrames |-> IF j = i THEN got[j] + len ELSE got[j]]
          /\ execs' = [j \in 1..MaxFrames |->
                         IF j = i /\ wcb.OPCODE = "binary" THEN execs[j] + 1 ELSE execs[j]]
          /\ Advance(len)
    /\ read_len' = 0
    /\ UNCHANGED <<fixed, rx, cuts>>

\* A close frame, or the crash, ends the worker.
PayloadEnds ==
    /\ ws_pc = "payload"
    /\ Handled(PayloadLen) # "ok"
    /\ Return

WsStep == HeaderWait \/ HeaderBytes \/ HeaderLength \/ HeaderMask \/ Payload \/ PayloadEnds
WsRecv == \E n \in 0..BufferSize : Handshake(n) \/ Recv(n)

----------------------------------------------------------------------------
(* Properties *)

\* Wherever the stream is cut and however many frames share the buffer, the
\* parser stays at the client's frames: a header is read at the first byte of a
\* frame, and the payload expected is what is left of it
\* (websocket_server.c:199-309, 595-640).
ParserInSync ==
    /\ status \in {"HEADER", "EXTEND_LENGTH", "MASK"} =>
          AtFrame \/ (head = StreamLen /\ remaining_len = 0)
    /\ status = "PAYLOAD" =>
          /\ PayloadFrame # 0
          /\ head + read_len + wcb.payload_len = StartOf(PayloadFrame + 1)

\* Every payload byte is handled once, in order, and unmasked with the byte of
\* the key that belongs to its place in the frame, across the word-wise masking,
\* the rotations and the parts (websocket_server.c:452-521).
PayloadUnmasked == ~garbled

\* The host gets one answer for a binary frame and one more for every cut that
\* falls into its payload: none is lost when frames share a segment, and no
\* other segmentation adds one (websocket_server.c:587-593, 649-683).
AnswersPerFrame ==
    \A i \in 1..Len(stream) :
       stream[i].frame.op = "binary" /\ head >= StartOf(i + 1) =>
          execs[i] = 1 + cuts[i]

\* A frame that was received to its last byte is handled without waiting for
\* more, also when it shares the buffer with the end of the one before: the
\* host waits for its answer and sends nothing (websocket_server.c:618-630,
\* 661-678).
FramesHandled ==
    \A i \in 1..MaxFrames :
       (i <= Len(stream) /\ rx >= StartOf(i + 1) /\ status # "CLOSING") ~>
          (status = "CLOSING" \/ i > Len(stream) \/ head >= StartOf(i + 1))

=============================================================================
