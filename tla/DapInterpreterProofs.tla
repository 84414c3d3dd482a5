------------------------ MODULE DapInterpreterProofs ------------------------
(***************************************************************************)
(* Proofs about DapInterpreter, for every list of requests, configuration, *)
(* chain and sequence of commands.                                         *)
(*                                                                         *)
(* Of the port: the function of the pins follows the speed, sequences are  *)
(* exact, and host and target agree on each clock of an SWD transfer.  Of  *)
(* the transfer commands: writes are confirmed, each register is accessed  *)
(* at most once, reads arrive in order, and the size is consumed.          *)
(***************************************************************************)
EXTENDS DapInterpreter, FiniteSetTheorems, TLAPS

pins == <<debug_port, SWD_TransferSpeed, mux>>

\* A line operation leaves port, speed and pins alone.
LEMMA LineOpKeeps ==
    ASSUME NEW o, LineOp(o)
    PROVE  UNCHANGED pins
  BY DEF LineOp, pins

\* The line operations of the port commands.
LEMMA LineCommandsKeep ==
    ASSUME \/ \E rnw \in BOOLEAN, ack \in Acks : SWD_Transfer(rnw, ack)
           \/ \E ack \in Acks : DAP_ResetTarget(ack)
           \/ \E n \in SeqBits : SWD_Sequence(n) \/ JTAG_Sequence(n) \/ SWJ_Sequence(n)
           \/ \E d \in 1..(DAP_JTAG_DEV_CNT + 1), ack \in Acks :
                 JtagAccess(d, ack) \/ DAP_JTAG_IDCode(d) \/ DAP_WriteAbort(d, ack)
    PROVE  UNCHANGED pins
<1>1. ASSUME NEW rnw, NEW ack, SWD_Transfer(rnw, ack) PROVE UNCHANGED pins
  BY <1>1, LineOpKeeps DEF SWD_Transfer
<1>2. ASSUME NEW ack, DAP_ResetTarget(ack) PROVE UNCHANGED pins
  BY <1>2, LineOpKeeps DEF DAP_ResetTarget
<1>3. ASSUME NEW n, SWJ_Sequence(n) PROVE UNCHANGED pins
  BY <1>3, LineOpKeeps DEF SWJ_Sequence
<1>4. ASSUME NEW n, JTAG_Sequence(n) PROVE UNCHANGED pins
  BY <1>4, LineOpKeeps DEF JTAG_Sequence
<1>5. ASSUME NEW n, SWD_Sequence(n) PROVE UNCHANGED pins
  BY <1>3, <1>5, LineOpKeeps DEF SWD_Sequence
<1>6. ASSUME NEW d, NEW kind, NEW clocks, Scans(d, kind, clocks) PROVE UNCHANGED pins
  BY <1>6, LineOpKeeps DEF Scans
<1>7. ASSUME NEW d, NEW ack, JtagAccess(d, ack) PROVE UNCHANGED pins
  BY <1>6, <1>7 DEF JtagAccess
<1>8. ASSUME NEW d, DAP_JTAG_IDCode(d) PROVE UNCHANGED pins
  BY <1>6, <1>8, LineOpKeeps DEF DAP_JTAG_IDCode
<1>9. ASSUME NEW d, NEW ack, DAP_WriteAbort(d, ack) PROVE UNCHANGED pins
  BY <1>6, <1>9, LineOpKeeps DEF DAP_WriteAbort
<1> QED
  BY <1>1, <1>2, <1>3, <1>4, <1>5, <1>7, <1>8, <1>9

\* Configuration commands that do not concern the pins.
LEMMA ConfigurationKeeps ==
    ASSUME \/ \E field \in Turnarounds, phase \in BOOLEAN : DAP_SWD_Configure(field, phase)
           \/ \E idle \in IdleCycles, count, match \in Retries : DAP_TransferConfigure(idle, count, match)
           \/ \E lengths \in Chains : DAP_JTAG_Configure(lengths)
    PROVE  UNCHANGED pins
<1>1. ASSUME NEW lengths, DAP_JTAG_Configure(lengths) PROVE UNCHANGED pins
  BY <1>1 DEF DAP_JTAG_Configure, pins
<1> QED
  BY <1>1 DEF DAP_SWD_Configure, DAP_TransferConfigure, pins

\* Transfer commands: beginning one, every transfer of it, and its answer.
LEMMA TransfersKeep ==
    ASSUME Command \/ Step \/ Reply
    PROVE  UNCHANGED portVars
<1>2. ASSUME NEW c, NEW o, NEW n, Begin(c, o, n) PROVE UNCHANGED portVars
  BY <1>2 DEF Begin
<1>3. CASE Command
  <2>1. ASSUME NEW reqs, NEW d, DAP_Transfer(reqs, d) PROVE UNCHANGED portVars
    BY <1>2, <2>1 DEF DAP_Transfer
  <2>2. ASSUME NEW r, NEW n, NEW d, DAP_TransferBlock(r, n, d) PROVE UNCHANGED portVars
    BY <1>2, <2>2 DEF DAP_TransferBlock
  <2> QED
    BY <1>3, <2>1, <2>2 DEF Command
<1>4. CASE Reply
  BY <1>4 DEF Reply
<1>5. CASE Step
  <2>1. ASSUME NEW o, Ok(o) PROVE UNCHANGED portVars
    BY <2>1 DEF Ok
  <2>2. Wait \/ SetMatchMask => UNCHANGED portVars
    BY DEF Wait, SetMatchMask
  <2>3. ASSUME NEW ack, Refuse(ack) PROVE UNCHANGED portVars
    BY <2>3 DEF Refuse
  <2>4. FetchPost \/ Fetch \/ Post \/ ReadDP => UNCHANGED portVars
    BY <2>1 DEF FetchPost, Fetch, Post, ReadDP
  <2>5. MatchPost \/ Write \/ LastFetch \/ CheckLastWrite \/ BlockPost => UNCHANGED portVars
    BY <2>1 DEF MatchPost, Write, LastFetch, CheckLastWrite, BlockPost
  <2>6. ASSUME NEW equal, MatchRead(equal) PROVE UNCHANGED portVars
    BY <2>1, <2>6 DEF MatchRead
  <2>7. ASSUME NEW o, BlockItem(o) PROVE UNCHANGED portVars
    BY <2>1, <2>7 DEF BlockItem
  <2> QED
    BY <1>5, <2>2, <2>3, <2>4, <2>5, <2>6, <2>7 DEF Step, BlockStep
<1> QED
  BY <1>3, <1>4, <1>5

\* While the port is SWD the pins have the function that transfers use, for
\* every sequence of commands, requests and answers of a target
\* (DAP.c:227-266, 424-447).
THEOREM PinsMatchSpeed == Spec => []SwdPinsMatchSpeed
<1>1. Init => SwdPinsMatchSpeed
  BY DEF Init, PortInit, SwdPinsMatchSpeed, SPI
<1>2. SwdPinsMatchSpeed /\ [Next]_interpVars => SwdPinsMatchSpeed'
  <2> SUFFICES ASSUME SwdPinsMatchSpeed, [Next]_interpVars PROVE SwdPinsMatchSpeed'
    OBVIOUS
  <2>1. ASSUME UNCHANGED pins PROVE SwdPinsMatchSpeed'
    BY <2>1 DEF SwdPinsMatchSpeed, pins
  <2>2. ASSUME NEW port \in {"SWD", "JTAG", "bad"}, DAP_Connect(port)
        PROVE  SwdPinsMatchSpeed'
    BY <2>2 DEF DAP_Connect, PORT_SWD_SETUP, PORT_JTAG_SETUP, DAP_SPI_Deinit, SwdPinsMatchSpeed
  <2>3. ASSUME NEW clock, DAP_SWJ_Clock(clock) PROVE SwdPinsMatchSpeed'
    BY <2>3 DEF DAP_SWJ_Clock, DAP_SPI_Init, DAP_SPI_Deinit, SwdPinsMatchSpeed, SPI
  <2>4. CASE DAP_Disconnect
    BY <2>4 DEF DAP_Disconnect, PORT_OFF, SwdPinsMatchSpeed
  <2>5. CASE DAP_SWJ_Pins
    BY <2>5 DEF DAP_SWJ_Pins, DAP_SPI_Init, DAP_SPI_Deinit, SwdPinsMatchSpeed
  <2>6. CASE PortNext
    BY <2>1, <2>2, <2>3, <2>4, <2>5, <2>6, LineCommandsKeep, ConfigurationKeeps DEF PortNext
  <2>7. CASE Command \/ Step \/ Reply
    BY <2>1, <2>7, TransfersKeep DEF portVars, pins
  <2>8. CASE UNCHANGED interpVars
    BY <2>1, <2>8 DEF interpVars, portVars, pins
  <2> QED
    BY <2>6, <2>7, <2>8 DEF Next, DAP_ProcessCommand
<1> QED
  BY <1>1, <1>2, PTL DEF Spec

----------------------------------------------------------------------------
(* What a line operation of the port was made with *)

ConfigOK ==
    /\ swd_conf \in [turnaround : 1..4, data_phase : BOOLEAN]
    /\ wcr = swd_conf
    /\ idle_cycles \in Nat

Captured(n, spi) ==
    [op |-> "capture", n |-> n, spi |-> spi,
     bits |-> IF spi THEN DAP_SPI_ReadBits(n) ELSE SWD_Sequence_GPIO(n)]
Sent(n, spi) ==
    [op |-> "send", n |-> n, spi |-> spi, bits |-> IF spi THEN DAP_SPI_WriteBits(n) ELSE SWJ_Sequence_GPIO(n)]

\* The operation just made is one with the configuration of this moment.
LastMade ==
    \/ last.op \in {"none", "jtag"}
    \/ \E rnw \in BOOLEAN, ack \in Acks : last = SwdOp(rnw, ack)
    \/ \E n \in SeqBits, spi \in BOOLEAN : last = Captured(n, spi) \/ last = Sent(n, spi)

LineInv == ConfigOK /\ LastMade

config == <<SWD_TransferSpeed, swd_conf, idle_cycles, wcr>>

\* A line operation that was made.
LEMMA LineOpMade ==
    ASSUME NEW o, LineOp(o), ConfigOK,
           \/ o.op \in {"none", "jtag"}
           \/ \E rnw \in BOOLEAN, ack \in Acks : o = SwdOp(rnw, ack)
           \/ \E n \in SeqBits, spi \in BOOLEAN : o = Captured(n, spi) \/ o = Sent(n, spi)
    PROVE  LineInv'
<1>1. last' = o /\ UNCHANGED config
  BY DEF LineOp, config
<1>2. ConfigOK'
  BY <1>1 DEF ConfigOK, config
<1>3. CASE o.op \in {"none", "jtag"}
  BY <1>1, <1>2, <1>3 DEF LineInv, LastMade
<1>4. ASSUME NEW rnw \in BOOLEAN, NEW ack \in Acks, o = SwdOp(rnw, ack) PROVE LineInv'
  <2>1. SwdOp(rnw, ack)' = SwdOp(rnw, ack)
    BY <1>1 DEF config, SwdOp, SWD_Transfer_SPI, SWD_Transfer_GPIO, DAP_SPI_Generate_Cycle
  <2>2. last' = SwdOp(rnw, ack)'
    BY <1>1, <1>4, <2>1
  <2> QED
    BY <1>2, <2>2 DEF LineInv, LastMade
<1>5. ASSUME NEW n \in SeqBits, NEW spi \in BOOLEAN, o = Captured(n, spi) \/ o = Sent(n, spi)
      PROVE  LineInv'
  BY <1>1, <1>2, <1>5 DEF LineInv, LastMade, Captured, Sent
<1> QED
  BY <1>3, <1>4, <1>5

\* Every command leaves such an operation, or none.
LEMMA LineInvStep ==
    ASSUME LineInv, [Next]_interpVars
    PROVE  LineInv'
<1>0. ConfigOK /\ LastMade
  BY DEF LineInv
<1>1. ASSUME UNCHANGED portVars PROVE LineInv'
  <2>1. ConfigOK'
    BY <1>0, <1>1 DEF portVars, ConfigOK
  <2>2. LastMade'
    <3>1. last' = last /\ UNCHANGED config
      BY <1>1 DEF portVars, config
    <3>2. ASSUME NEW rnw, NEW ack PROVE SwdOp(rnw, ack)' = SwdOp(rnw, ack)
      BY <3>1 DEF config, SwdOp, SWD_Transfer_SPI, SWD_Transfer_GPIO, DAP_SPI_Generate_Cycle
    <3> QED
      BY <1>0, <3>1, <3>2 DEF LastMade, Captured, Sent
  <2> QED
    BY <2>1, <2>2 DEF LineInv
<1>2. ASSUME last' = Quiet, ConfigOK' PROVE LineInv'
  BY <1>2 DEF LineInv, LastMade, Quiet
<1>3. ASSUME NEW port, DAP_Connect(port) PROVE LineInv'
  BY <1>0, <1>2, <1>3 DEF DAP_Connect, ConfigOK
<1>4. ASSUME NEW clock, DAP_SWJ_Clock(clock) PROVE LineInv'
  BY <1>0, <1>2, <1>4 DEF DAP_SWJ_Clock, ConfigOK
<1>5. CASE DAP_Disconnect \/ DAP_SWJ_Pins
  BY <1>0, <1>2, <1>5 DEF DAP_Disconnect, DAP_SWJ_Pins, ConfigOK
<1>6. ASSUME NEW field \in Turnarounds, NEW phase \in BOOLEAN, DAP_SWD_Configure(field, phase)
      PROVE  LineInv'
  <2>1. field + 1 \in 1..4
    BY SwjPortAssumption
  <2>2. ConfigOK'
    BY <1>0, <1>6, <2>1 DEF DAP_SWD_Configure, ConfigOK
  <2> QED
    BY <1>2, <1>6, <2>2 DEF DAP_SWD_Configure
<1>7. ASSUME NEW idle \in IdleCycles, NEW count, NEW match, DAP_TransferConfigure(idle, count, match)
      PROVE  LineInv'
  BY <1>0, <1>2, <1>7, SwjPortAssumption DEF DAP_TransferConfigure, ConfigOK
<1>8. ASSUME NEW lengths, DAP_JTAG_Configure(lengths) PROVE LineInv'
  <2>1. last' = Quiet /\ UNCHANGED <<swd_conf, idle_cycles, wcr>>
    BY <1>8 DEF DAP_JTAG_Configure
  <2> QED
    BY <1>0, <1>2, <2>1 DEF ConfigOK
<1>9. ASSUME NEW rnw \in BOOLEAN, NEW ack \in Acks, LineOp(SwdOp(rnw, ack)) PROVE LineInv'
  BY <1>0, <1>9, LineOpMade
<1>10. ASSUME LineOp(Quiet) PROVE LineInv'
  BY <1>0, <1>10, LineOpMade DEF Quiet
<1>11. ASSUME NEW ack \in Acks, DAP_ResetTarget(ack) PROVE LineInv'
  BY <1>9, <1>10, <1>11 DEF DAP_ResetTarget
<1>12. ASSUME NEW n \in SeqBits, SWD_Sequence(n) \/ JTAG_Sequence(n) \/ SWJ_Sequence(n)
       PROVE  LineInv'
  <2> DEFINE fast == SWD_TransferSpeed = SPI
  <2>1. \/ LineOp(Captured(n, fast)) \/ LineOp(Captured(n, FALSE)) \/ LineOp(Sent(n, fast))
    BY <1>12 DEF SWD_Sequence, JTAG_Sequence, SWJ_Sequence, Captured, Sent
  <2>2. fast \in BOOLEAN
    OBVIOUS
  <2> QED
    BY <1>0, <2>1, <2>2, LineOpMade
<1>13. ASSUME NEW d, NEW kind, NEW clocks, Scans(d, kind, clocks) PROVE LineInv'
  BY <1>0, <1>13, LineOpMade DEF Scans
<1>14. ASSUME NEW d, NEW ack \in Acks,
              JtagAccess(d, ack) \/ DAP_JTAG_IDCode(d) \/ DAP_WriteAbort(d, ack)
       PROVE  LineInv'
  BY <1>9, <1>10, <1>13, <1>14 DEF JtagAccess, DAP_JTAG_IDCode, DAP_WriteAbort
<1>15. ASSUME NEW rnw \in BOOLEAN, NEW ack \in Acks, SWD_Transfer(rnw, ack) PROVE LineInv'
  BY <1>9, <1>15 DEF SWD_Transfer
<1>16. CASE PortNext
  BY <1>3, <1>4, <1>5, <1>6, <1>7, <1>8, <1>11, <1>12, <1>14, <1>15, <1>16 DEF PortNext
<1>17. CASE Command \/ Step \/ Reply
  BY <1>1, <1>17, TransfersKeep
<1>18. CASE UNCHANGED interpVars
  BY <1>1, <1>18 DEF interpVars
<1> QED
  BY <1>16, <1>17, <1>18 DEF Next, DAP_ProcessCommand

\* What is in "last" is a line operation of the commands, made with the
\* configuration host and target have agreed on (DAP.c:227-266, 599-652).
THEOREM LineInvariance == Spec => []LineInv
<1>1. Init => LineInv
  BY DEF Init, PortInit, LineInv, ConfigOK, LastMade, Quiet
<1> QED
  BY <1>1, LineInvStep, PTL DEF Spec

----------------------------------------------------------------------------
(* Sequences of bits *)

\* Bit banging: each bit of a byte ends where it belongs.
LEMMA BitBanged ==
    ASSUME NEW n \in Nat
    PROVE  SWD_Sequence_GPIO(n) = [i \in 1..n |-> i]
  BY DEF SWD_Sequence_GPIO

\* Sending, bit by bit and over SPI for the lengths spi_op.c:87 asks for.
LEMMA SentBitBanged ==
    ASSUME NEW n \in Nat
    PROVE  SWJ_Sequence_GPIO(n) = [i \in 1..n |-> i]
<1>1. \A i \in 1..n : 8 * ((i - 1) \div 8) + ((i - 1) % 8) + 1 = i
  OBVIOUS
<1> QED
  BY <1>1 DEF SWJ_Sequence_GPIO

LEMMA SentBySpi ==
    ASSUME NEW n \in 1..64
    PROVE  DAP_SPI_WriteBits(n) = [i \in 1..n |-> i]
<1>1. n % 256 = n
  OBVIOUS
<1>2. (n + 7) \div 8 \in 1..16 /\ n <= 8 * ((n + 7) \div 8)
  OBVIOUS
<1> QED
  BY <1>1, <1>2 DEF DAP_SPI_WriteBits

\* SPI: the mask keeps the bits of a last byte of two to seven.
LEMMA ReadBySpi ==
    ASSUME NEW n \in Nat, n % 8 > 1
    PROVE  DAP_SPI_ReadBits(n) = [i \in 1..n |-> i]
<1>1. 8 * ((n - 1) \div 8) + (n % 8) = n
  OBVIOUS
<1>2. (CASE n % 8 = 0 -> 1 [] n % 8 = 1 -> 0 [] OTHER -> n % 8) = n % 8
  OBVIOUS
<1> QED
  BY <1>1, <1>2 DEF DAP_SPI_ReadBits

\* Bits captured are in line order and bits sent are all sent, for every length
\* and at every moment, within the limits the property states
\* (SW_DP.c:107-187, spi_op.c:61-147).
THEOREM SequencesAreExact == Spec => []SequencesExact
<1>1. ASSUME LineInv PROVE SequencesExact
  <2>1. SeqBits \subseteq Nat /\ SeqBits \subseteq 1..256
    BY SwjPortAssumption
  <2>2. CASE last.op \in {"none", "jtag"}
    BY <2>2 DEF SequencesExact
  <2>3. ASSUME NEW rnw, NEW ack, last = SwdOp(rnw, ack) PROVE SequencesExact
    <3>1. last.op = "swd"
      BY <2>3 DEF SwdOp
    <3> QED
      BY <3>1 DEF SequencesExact
  <2>4. ASSUME NEW n \in SeqBits, NEW spi \in BOOLEAN, last = Captured(n, spi)
        PROVE  SequencesExact
    <3>1. last.op = "capture" /\ last.n = n /\ last.spi = spi
          /\ last.bits = IF spi THEN DAP_SPI_ReadBits(n) ELSE SWD_Sequence_GPIO(n)
      BY <2>4 DEF Captured
    <3>2. ASSUME spi => n % 8 > 1 PROVE last.bits = [i \in 1..n |-> i]
      BY <2>1, <3>1, <3>2, BitBanged, ReadBySpi
    <3> QED
      BY <3>1, <3>2 DEF SequencesExact
  <2>5. ASSUME NEW n \in SeqBits, NEW spi \in BOOLEAN, last = Sent(n, spi)
        PROVE  SequencesExact
    <3>1. last.op = "send" /\ last.n = n /\ last.spi = spi
          /\ last.bits = IF spi THEN DAP_SPI_WriteBits(n) ELSE SWJ_Sequence_GPIO(n)
      BY <2>5 DEF Sent
    <3>2. ASSUME spi => n <= 64 PROVE last.bits = [i \in 1..n |-> i]
      <4>1. CASE spi
        <5>1. n \in 1..64
          BY <2>1, <3>2, <4>1
        <5> QED
          BY <3>1, <4>1, <5>1, SentBySpi
      <4>2. CASE ~spi
        BY <2>1, <3>1, <4>2, SentBitBanged
      <4> QED
        BY <4>1, <4>2
    <3> QED
      BY <3>1, <3>2 DEF SequencesExact
  <2> QED
    BY <1>1, <2>2, <2>3, <2>4, <2>5 DEF LineInv, LastMade
<1> QED
  BY <1>1, LineInvariance, PTL

----------------------------------------------------------------------------
(* The clocks of an SWD transfer *)

BySpi == SWD_TransferSpeed = SPI
Fits(h, t) ==
    \/ h = t \/ <<h, t>> \in {<<"z", "trn">>, <<"z", "rd">>, <<"low", "wr">>}
    \/ BySpi /\ <<h, t>> = <<"low", "trn">>
Idles == IF BySpi /\ Chip = "ESP32C3" THEN {"low", "z"} ELSE {"low"}
Yields == IF BySpi THEN {"z", "ack", "low", "one"} ELSE {"z", "ack"}

\* Host and target agree on every clock; with the target done, the host idles.
Fit(h, t) == Len(h) = Len(t) /\ \A i \in 1..Len(h) : Fits(h[i], t[i])
Idling(s) == \A i \in 1..Len(s) : s[i] \in Idles
Covers(h, t) ==
    /\ Len(h) >= Len(t)
    /\ \A i \in 1..Len(h) : IF i <= Len(t) THEN Fits(h[i], t[i]) ELSE h[i] \in Idles

Clocks == {"hdr", "ack", "rd", "wr", "z", "low", "one", "trn"}
Line == Seq(Clocks)

\* The same clock a number of times.
LEMMA Repeated ==
    ASSUME NEW x \in Clocks, NEW n \in Nat
    PROVE  Rep(x, n) \in Line /\ Len(Rep(x, n)) = n /\ \A i \in 1..n : Rep(x, n)[i] = x
<1> DEFINE r == [i \in 1..n |-> x]
<1>1. r \in Seq(Clocks) /\ DOMAIN r = 1..n /\ \A i \in 1..n : r[i] = x
  OBVIOUS
<1> HIDE DEF r
<1>2. Len(r) = n
  BY <1>1
<1> QED
  BY <1>1, <1>2 DEF Rep, Line, r

\* The clocks of a concatenation.
LEMMA Concatenated ==
    ASSUME NEW s \in Line, NEW t \in Line
    PROVE  /\ s \o t \in Line /\ Len(s) \in Nat /\ Len(t) \in Nat
           /\ Len(s \o t) = Len(s) + Len(t)
           /\ \A i \in 1..Len(s) : (s \o t)[i] = s[i]
           /\ \A i \in (Len(s) + 1)..(Len(s) + Len(t)) : (s \o t)[i] = t[i - Len(s)]
  BY DEF Line

LEMMA FitRep ==
    ASSUME NEW x \in Clocks, NEW y \in Clocks, Fits(x, y), NEW n \in Nat
    PROVE  Fit(Rep(x, n), Rep(y, n))
  BY Repeated DEF Fit

LEMMA FitJoin ==
    ASSUME NEW g \in Line, NEW h \in Line, NEW s \in Line, NEW t \in Line, Fit(g, s), Fit(h, t)
    PROVE  Fit(g \o h, s \o t)
<1> DEFINE a == g \o h
           b == s \o t
           m == Len(g)
           n == Len(h)
<1>1. /\ m \in Nat /\ n \in Nat /\ Len(s) = m /\ Len(t) = n /\ Len(a) = m + n /\ Len(b) = m + n
      /\ \A i \in 1..m : a[i] = g[i] /\ b[i] = s[i]
      /\ \A i \in (m + 1)..(m + n) : a[i] = h[i - m] /\ b[i] = t[i - m]
      /\ \A i \in 1..m : Fits(g[i], s[i])
      /\ \A i \in 1..n : Fits(h[i], t[i])
  <2>1. /\ m \in Nat /\ n \in Nat /\ Len(a) = m + n
        /\ \A i \in 1..m : a[i] = g[i]
        /\ \A i \in (m + 1)..(m + n) : a[i] = h[i - m]
    BY Concatenated
  <2>2. /\ Len(b) = Len(s) + Len(t)
        /\ \A i \in 1..Len(s) : b[i] = s[i]
        /\ \A i \in (Len(s) + 1)..(Len(s) + Len(t)) : b[i] = t[i - Len(s)]
    BY Concatenated
  <2>3. /\ Len(s) = m /\ Len(t) = n /\ (\A i \in 1..m : Fits(g[i], s[i]))
        /\ \A i \in 1..n : Fits(h[i], t[i])
    BY DEF Fit
  <2> HIDE DEF a, b, m, n
  <2> QED
    BY <2>1, <2>2, <2>3
<1> HIDE DEF a, b, m, n
<1>2. ASSUME NEW i \in 1..(m + n) PROVE Fits(a[i], b[i])
  <2>1. CASE i \in 1..m
    BY <1>1, <2>1
  <2>2. CASE i \in (m + 1)..(m + n)
    <3>1. i - m \in 1..n
      BY <1>1, <2>2
    <3> QED
      BY <1>1, <2>2, <3>1
  <2> QED
    BY <1>1, <2>1, <2>2
<1> QED
  BY <1>1, <1>2 DEF Fit, a, b

\* Clocks that fit, then ones that cover.
LEMMA CoversJoin ==
    ASSUME NEW g \in Line, NEW h \in Line, NEW s \in Line, NEW t \in Line, Fit(g, s), Covers(h, t)
    PROVE  Covers(g \o h, s \o t)
<1> DEFINE a == g \o h
           b == s \o t
           m == Len(g)
           n == Len(h)
           l == Len(t)
<1>1. /\ m \in Nat /\ n \in Nat /\ l \in Nat /\ n >= l
      /\ Len(s) = m /\ Len(a) = m + n /\ Len(b) = m + l
      /\ \A i \in 1..m : a[i] = g[i] /\ b[i] = s[i]
      /\ \A i \in (m + 1)..(m + n) : a[i] = h[i - m]
      /\ \A i \in (m + 1)..(m + l) : b[i] = t[i - m]
      /\ \A i \in 1..m : Fits(g[i], s[i])
      /\ \A i \in 1..n : IF i <= l THEN Fits(h[i], t[i]) ELSE h[i] \in Idles
  <2>1. /\ m \in Nat /\ n \in Nat /\ Len(a) = m + n
        /\ \A i \in 1..m : a[i] = g[i]
        /\ \A i \in (m + 1)..(m + n) : a[i] = h[i - m]
    BY Concatenated
  <2>2. /\ l \in Nat /\ Len(b) = Len(s) + l
        /\ \A i \in 1..Len(s) : b[i] = s[i]
        /\ \A i \in (Len(s) + 1)..(Len(s) + l) : b[i] = t[i - Len(s)]
    BY Concatenated
  <2>3. /\ Len(s) = m /\ n >= l /\ (\A i \in 1..m : Fits(g[i], s[i]))
        /\ \A i \in 1..n : IF i <= l THEN Fits(h[i], t[i]) ELSE h[i] \in Idles
    BY DEF Fit, Covers
  <2> HIDE DEF a, b, m, n, l
  <2> QED
    BY <2>1, <2>2, <2>3
<1> HIDE DEF a, b, m, n, l
<1>2. ASSUME NEW i \in 1..(m + n) PROVE IF i <= m + l THEN Fits(a[i], b[i]) ELSE a[i] \in Idles
  <2>1. CASE i \in 1..m
    BY <1>1, <2>1
  <2>2. CASE i \in (m + 1)..(m + n)
    <3>1. i - m \in 1..n /\ (i <= m + l <=> i - m <= l)
      BY <1>1, <2>2
    <3>2. i <= m + l => i \in (m + 1)..(m + l)
      BY <1>1, <2>2
    <3> QED
      BY <1>1, <2>2, <3>1, <3>2
  <2> QED
    BY <1>1, <2>1, <2>2
<1>3. Len(a) >= Len(b)
  BY <1>1
<1>4. Covers(a, b)
  BY <1>1, <1>2, <1>3 DEF Covers
<1> QED
  BY <1>4 DEF a, b

\* Idle clocks after ones that cover.
LEMMA CoversIdle ==
    ASSUME NEW h \in Line, NEW t \in Line, Covers(h, t), NEW l \in Line, Idling(l)
    PROVE  Covers(h \o l, t)
<1> DEFINE a == h \o l
           m == Len(h)
           n == Len(l)
<1>1. /\ m \in Nat /\ n \in Nat /\ Len(t) \in Nat /\ m >= Len(t) /\ Len(a) = m + n
      /\ \A i \in 1..m : a[i] = h[i]
      /\ \A i \in (m + 1)..(m + n) : a[i] = l[i - m]
      /\ \A i \in 1..m : IF i <= Len(t) THEN Fits(h[i], t[i]) ELSE h[i] \in Idles
      /\ \A i \in 1..n : l[i] \in Idles
  BY Concatenated DEF Idling, Covers
<1> HIDE DEF a, m, n
<1>2. ASSUME NEW i \in 1..(m + n) PROVE IF i <= Len(t) THEN Fits(a[i], t[i]) ELSE a[i] \in Idles
  <2>1. CASE i \in 1..m
    BY <1>1, <2>1
  <2>2. CASE i \in (m + 1)..(m + n)
    <3>1. i - m \in 1..n /\ ~(i <= Len(t))
      BY <1>1, <2>2
    <3> QED
      BY <1>1, <2>2, <3>1
  <2> QED
    BY <1>1, <2>1, <2>2
<1> QED
  BY <1>1, <1>2 DEF Covers, a

LEMMA FitCovers ==
    ASSUME NEW h \in Line, NEW t \in Line, Fit(h, t)
    PROVE  Covers(h, t)
  BY DEF Fit, Covers, Line

\* Grouping, and no clocks at all.
LEMMA Grouped ==
    ASSUME NEW r \in Line, NEW s \in Line, NEW t \in Line
    PROVE  (r \o s) \o t = r \o (s \o t)
  BY DEF Line

LEMMA NoClocks ==
    ASSUME NEW x, NEW s \in Line
    PROVE  Rep(x, 0) = <<>> /\ s \o <<>> = s /\ <<>> \o s = s /\ <<>> \in Line
  BY DEF Rep, Line

LEMMA MoreOfIt ==
    ASSUME NEW x \in Clocks, NEW m \in Nat, NEW n \in Nat
    PROVE  Rep(x, m) \o Rep(x, n) = Rep(x, m + n)
<1> DEFINE a == Rep(x, m)
           b == Rep(x, n)
           c == Rep(x, m + n)
<1>1. /\ a \in Line /\ Len(a) = m /\ b \in Line /\ Len(b) = n /\ c \in Line /\ Len(c) = m + n
      /\ (\A i \in 1..m : a[i] = x) /\ (\A i \in 1..n : b[i] = x) /\ \A i \in 1..(m + n) : c[i] = x
  BY Repeated, m + n \in Nat
<1> HIDE DEF a, b, c
<1> DEFINE d == a \o b
<1>2. /\ d \in Line /\ Len(d) = Len(a) + Len(b) /\ \A i \in 1..Len(a) : d[i] = a[i]
      /\ \A i \in (Len(a) + 1)..(Len(a) + Len(b)) : d[i] = b[i - Len(a)]
  BY <1>1, Concatenated
<1> HIDE DEF d
<1>3. ASSUME NEW i \in 1..(m + n) PROVE d[i] = x
  <2>1. CASE i <= m
    BY <1>1, <1>2, <2>1
  <2>2. CASE ~(i <= m)
    <3>1. i - m \in 1..n /\ i \in (m + 1)..(m + n)
      BY <2>2
    <3> QED
      BY <1>1, <1>2, <3>1
  <2> QED
    BY <2>1, <2>2
<1>4. d \in Seq(Clocks) /\ c \in Seq(Clocks) /\ Len(d) = Len(c) /\ \A i \in 1..Len(d) : d[i] = c[i]
  BY <1>1, <1>2, <1>3 DEF Line
<1>5. d = c
  BY <1>4
<1> QED
  BY <1>5 DEF a, b, c, d

\* The head of a transfer, up to the acknowledge.
HostHead(x, n) == Header \o Rep(x, n) \o Ack
TargetHead(n) == Header \o Rep("trn", n) \o Ack

LEMMA HeaderAndAck ==
    /\ Header \in Line /\ Len(Header) = 8 /\ Ack \in Line /\ Len(Ack) = 3
    /\ \A i \in 1..3 : Ack[i] = "ack"
<1>1. "hdr" \in Clocks /\ "ack" \in Clocks /\ 8 \in Nat /\ 3 \in Nat
  BY DEF Clocks
<1>2. Rep("hdr", 8) \in Line /\ Len(Rep("hdr", 8)) = 8
  <2>1. PICK n \in Nat : n = 8
    OBVIOUS
  <2>2. Rep("hdr", n) \in Line /\ Len(Rep("hdr", n)) = n
    BY <1>1, Repeated
  <2> QED
    BY <2>1, <2>2
<1>3. Rep("ack", 3) \in Line /\ Len(Rep("ack", 3)) = 3 /\ \A i \in 1..3 : Rep("ack", 3)[i] = "ack"
  BY <1>1, Repeated, Zenon
<1> QED
  BY <1>2, <1>3 DEF Header, Ack

LEMMA Heads ==
    ASSUME NEW n \in Nat, NEW x \in Clocks, x \in Yields, Fits(x, "trn")
    PROVE  /\ HostHead(x, n) \in Line /\ TargetHead(n) \in Line
           /\ Fit(HostHead(x, n), TargetHead(n))
           /\ Len(HostHead(x, n)) = 11 + n
           /\ \A i \in 9..(11 + n) : HostHead(x, n)[i] \in Yields
<1> DEFINE z == Rep(x, n)
           trn == Rep("trn", n)
<1>1. /\ Header \in Line /\ Len(Header) = 8 /\ Ack \in Line /\ Len(Ack) = 3
      /\ \A i \in 1..3 : Ack[i] \in Yields
  BY HeaderAndAck DEF Yields
<1>2. z \in Line /\ Len(z) = n /\ trn \in Line /\ \A i \in 1..n : z[i] = x
  BY Repeated DEF Clocks
<1>3. Fit(z, trn) /\ Fit(Header, Header) /\ Fit(Ack, Ack)
  BY FitRep DEF Fits, Header, Ack, Clocks
<1> HIDE DEF z, trn
<1> DEFINE a == Header \o z
           b == Header \o trn
<1>4. a \in Line /\ b \in Line /\ Fit(a, b)
  BY <1>1, <1>2, <1>3, FitJoin, Concatenated
<1>5. Len(a) = 8 + n /\ \A i \in 9..(8 + n) : a[i] = x
  <2>1. /\ Len(a) = 8 + n /\ \A i \in 9..(8 + n) : a[i] = z[i - 8]
    <3>1. /\ Len(a) = Len(Header) + Len(z)
          /\ \A i \in (Len(Header) + 1)..(Len(Header) + Len(z)) : a[i] = z[i - Len(Header)]
      BY <1>1, <1>2, Concatenated
    <3> HIDE DEF a
    <3> QED
      BY <1>1, <1>2, <3>1
  <2>2. \A i \in 9..(8 + n) : i - 8 \in 1..n
    OBVIOUS
  <2> QED
    BY <1>2, <2>1, <2>2
<1> HIDE DEF a, b
<1>6. /\ a \o Ack \in Line /\ b \o Ack \in Line /\ Fit(a \o Ack, b \o Ack)
  BY <1>1, <1>3, <1>4, FitJoin, Concatenated
<1>7. /\ Len(a \o Ack) = 11 + n
      /\ \A i \in 9..(11 + n) : (a \o Ack)[i] \in Yields
  <2>1. /\ Len(a \o Ack) = 8 + n + 3
        /\ \A i \in 1..(8 + n) : (a \o Ack)[i] = a[i]
        /\ \A i \in (8 + n + 1)..(8 + n + 3) : (a \o Ack)[i] = Ack[i - (8 + n)]
    <3>1. /\ Len(a \o Ack) = Len(a) + Len(Ack)
          /\ \A i \in 1..Len(a) : (a \o Ack)[i] = a[i]
          /\ \A i \in (Len(a) + 1)..(Len(a) + Len(Ack)) : (a \o Ack)[i] = Ack[i - Len(a)]
      BY <1>1, <1>4, Concatenated
    <3> QED
      BY <1>1, <1>5, <3>1
  <2>2. ASSUME NEW i \in 9..(11 + n) PROVE (a \o Ack)[i] \in Yields
    <3>1. CASE i <= 8 + n
      BY <1>5, <2>1, <3>1
    <3>2. CASE ~(i <= 8 + n)
      <4>1. i - (8 + n) \in 1..3 /\ i \in (8 + n + 1)..(8 + n + 3)
        BY <3>2
      <4> QED
        BY <1>1, <2>1, <4>1
    <3> QED
      BY <3>1, <3>2
  <2> QED
    BY <2>1, <2>2
<1> QED
  BY <1>6, <1>7 DEF HostHead, TargetHead, a, b, z, trn

\* Without an answer the line is left to the target for a whole data phase.
Yielding(h) == \A i \in 9..Len(h) : h[i] \in Yields
BacksOff(h) == Yielding(h) /\ Len(h) >= 45

LEMMA YieldsOn ==
    ASSUME NEW a \in Line, Yielding(a), Len(a) >= 8, NEW y \in Clocks, y \in Yields, NEW m \in Nat
    PROVE  /\ a \o Rep(y, m) \in Line /\ Len(a \o Rep(y, m)) = Len(a) + m
           /\ Yielding(a \o Rep(y, m))
<1> DEFINE b == Rep(y, m)
           n == Len(a)
<1>1. b \in Line /\ Len(b) = m /\ \A i \in 1..m : b[i] = y
  BY Repeated
<1> HIDE DEF b
<1> DEFINE h == a \o b
<1>2. /\ h \in Line /\ n \in Nat /\ Len(h) = n + m
      /\ \A i \in 1..n : h[i] = a[i]
      /\ \A i \in (n + 1)..(n + m) : h[i] = b[i - n]
  BY <1>1, Concatenated
<1> HIDE DEF h
<1>3. \A i \in 9..n : a[i] \in Yields
  BY DEF Yielding
<1> HIDE DEF n
<1>4. ASSUME NEW i \in 9..(n + m) PROVE h[i] \in Yields
  <2>1. CASE i <= n
    BY <1>2, <1>3, <2>1
  <2>2. CASE ~(i <= n)
    <3>1. i - n \in 1..m /\ i \in (n + 1)..(n + m)
      BY <1>2, <2>2
    <3> QED
      BY <1>1, <1>2, <3>1
  <2> QED
    BY <2>1, <2>2
<1>5. Yielding(h)
  BY <1>2, <1>4 DEF Yielding
<1> QED
  BY <1>2, <1>5 DEF h, b, n

\* Bit banging, with any turnaround and data phase.
LEMMA BitBangedTransfer ==
    ASSUME ConfigOK, NEW rnw \in BOOLEAN, NEW ack \in Acks
    PROVE  IF ack = "ERROR" THEN BacksOff(SWD_Transfer_GPIO(rnw, ack))
           ELSE Covers(SWD_Transfer_GPIO(rnw, ack), TargetClocks(rnw, ack))
<1> DEFINE n == swd_conf.turnaround
           phase == swd_conf.data_phase
           z == Rep("z", n)
           trn == Rep("trn", n)
           hh == HostHead("z", n)
           th == TargetHead(n)
           rd == Rep("rd", 33)
           wr == Rep("wr", 33)
           lows == Rep("low", idle_cycles)
           zs == Rep("z", IF phase THEN 33 ELSE 0)
           ls == Rep("low", IF phase THEN 33 ELSE 0)
           rds == IF phase THEN rd ELSE <<>>
           wrs == IF phase THEN wr ELSE <<>>
<1>0. n \in 1..4 /\ n \in Nat /\ phase \in BOOLEAN /\ wcr = swd_conf /\ idle_cycles \in Nat
  BY DEF ConfigOK
<1>c. /\ "z" \in Clocks /\ "trn" \in Clocks /\ "rd" \in Clocks /\ "wr" \in Clocks /\ "low" \in Clocks
      /\ 33 \in Nat /\ 0 \in Nat
  BY DEF Clocks
<1>f. Fits("z", "trn") /\ Fits("z", "rd") /\ Fits("low", "wr") /\ Fits("rd", "rd") /\ Fits("wr", "wr")
      /\ "z" \in Yields /\ "low" \in Idles
  BY DEF Fits, Yields, Idles
<1>1. z \in Line /\ trn \in Line /\ rd \in Line /\ wr \in Line /\ lows \in Line /\ Idling(lows)
  BY <1>0, <1>c, <1>f, Repeated DEF Idling
<1>2. Fit(z, trn) /\ Fit(rd, rd) /\ Fit(wr, wr)
  BY <1>0, <1>c, <1>f, FitRep
<1>3. /\ hh \in Line /\ th \in Line /\ Fit(hh, th)
      /\ Len(hh) = 11 + n /\ \A i \in 9..(11 + n) : hh[i] \in Yields
  BY <1>0, <1>c, <1>f, Heads
<1>4. /\ zs \in Line /\ rds \in Line /\ Fit(zs, rds)
      /\ ls \in Line /\ wrs \in Line /\ Fit(ls, wrs)
  <2>1. CASE phase
    BY <1>c, <1>f, <1>1, <2>1, Repeated, FitRep
  <2>2. CASE ~phase
    <3>1. zs = <<>> /\ ls = <<>> /\ rds = <<>> /\ wrs = <<>>
      BY <2>2, NoClocks, <1>1
    <3>2. <<>> \in Line /\ Fit(<<>>, <<>>)
      BY <1>1, NoClocks DEF Fit
    <3> QED
      BY <3>1, <3>2
  <2> QED
    BY <1>0, <2>1, <2>2
<1>5. /\ SWD_Transfer_GPIO(TRUE, "OK") = hh \o (rd \o z \o lows)
      /\ TargetClocks(TRUE, "OK") = th \o (rd \o trn)
      /\ SWD_Transfer_GPIO(FALSE, "OK") = hh \o (z \o wr \o lows)
      /\ TargetClocks(FALSE, "OK") = th \o (trn \o wr)
  BY <1>0 DEF SWD_Transfer_GPIO, TargetClocks, HostHead, TargetHead
<1>6. /\ SWD_Transfer_GPIO(TRUE, "WAIT") = hh \o (zs \o z)
      /\ TargetClocks(TRUE, "WAIT") = th \o (rds \o trn)
      /\ SWD_Transfer_GPIO(FALSE, "WAIT") = hh \o (z \o ls)
      /\ TargetClocks(FALSE, "WAIT") = th \o (trn \o wrs)
  BY <1>0 DEF SWD_Transfer_GPIO, TargetClocks, HostHead, TargetHead
<1>7. SWD_Transfer_GPIO(rnw, "ERROR") = hh \o (z \o Rep("z", 33))
  BY DEF SWD_Transfer_GPIO, HostHead
<1> HIDE DEF n, phase, z, trn, hh, th, rd, wr, lows, zs, ls, rds, wrs
<1>8. Covers(hh \o (rd \o z \o lows), th \o (rd \o trn))
  <2>1. rd \o z \in Line /\ rd \o trn \in Line /\ Fit(rd \o z, rd \o trn)
    BY <1>1, <1>2, FitJoin, Concatenated
  <2>2. rd \o z \o lows \in Line /\ Covers(rd \o z \o lows, rd \o trn)
    BY <1>1, <2>1, FitCovers, CoversIdle, Concatenated
  <2> QED
    BY <1>3, <2>1, <2>2, CoversJoin
<1>9. Covers(hh \o (z \o wr \o lows), th \o (trn \o wr))
  <2>1. z \o wr \in Line /\ trn \o wr \in Line /\ Fit(z \o wr, trn \o wr)
    BY <1>1, <1>2, FitJoin, Concatenated
  <2>2. z \o wr \o lows \in Line /\ Covers(z \o wr \o lows, trn \o wr)
    BY <1>1, <2>1, FitCovers, CoversIdle, Concatenated
  <2> QED
    BY <1>3, <2>1, <2>2, CoversJoin
<1>10. Covers(hh \o (zs \o z), th \o (rds \o trn)) /\ Covers(hh \o (z \o ls), th \o (trn \o wrs))
  <2>1. zs \o z \in Line /\ rds \o trn \in Line /\ Fit(zs \o z, rds \o trn)
    BY <1>1, <1>2, <1>4, FitJoin, Concatenated
  <2>2. z \o ls \in Line /\ trn \o wrs \in Line /\ Fit(z \o ls, trn \o wrs)
    BY <1>1, <1>2, <1>4, FitJoin, Concatenated
  <2> QED
    BY <1>3, <2>1, <2>2, FitCovers, CoversJoin
<1>11. BacksOff(hh \o (z \o Rep("z", 33)))
  <2>1. z \o Rep("z", 33) = Rep("z", n + 33)
    BY <1>0, <1>c, MoreOfIt DEF z
  <2>2. n + 33 \in Nat /\ Len(hh) >= 8 /\ Len(hh) + (n + 33) >= 45
    BY <1>0, <1>3
  <2>3. Yielding(hh)
    BY <1>3 DEF Yielding
  <2>4. Yielding(hh \o Rep("z", n + 33)) /\ Len(hh \o Rep("z", n + 33)) = Len(hh) + (n + 33)
    BY <1>3, <1>c, <1>f, <2>2, <2>3, YieldsOn
  <2> QED
    BY <2>1, <2>2, <2>4 DEF BacksOff
<1>12. ack \in {"OK", "WAIT", "ERROR"}
  BY DEF Acks
<1> QED
  BY <1>5, <1>6, <1>7, <1>8, <1>9, <1>10, <1>11, <1>12

\* SPI, with the one configuration it is made for: t and e are the turnaround of
\* the header and of a read that is not accepted, g an idle clock.
LEMMA SpiTransfer ==
    ASSUME ConfigOK, swd_conf = [turnaround |-> 1, data_phase |-> FALSE], BySpi,
           NEW rnw \in BOOLEAN, NEW ack \in Acks
    PROVE  IF ack = "ERROR" THEN BacksOff(SWD_Transfer_SPI(rnw, ack))
           ELSE Covers(SWD_Transfer_SPI(rnw, ack), TargetClocks(rnw, ack))
<1> DEFINE t == IF Chip = "ESP32" THEN "z" ELSE "low"
           e == IF Chip = "ESP32" THEN "low" ELSE "z"
           g == IF Chip = "ESP32C3" THEN "z" ELSE "low"
           lead == IF Chip = "ESP32" THEN 0 ELSE 1
           z == Rep("z", 1)
           ends == Rep(e, 1)
           trn == Rep("trn", 1)
           hh == HostHead(t, 1)
           th == TargetHead(1)
           rd == Rep("rd", 33)
           wr == Rep("wr", 33)
           low == Rep("low", lead)
           lows == Rep(g, idle_cycles)
<1>0. wcr.turnaround = 1 /\ wcr.data_phase = FALSE /\ idle_cycles \in Nat
  BY DEF ConfigOK
<1>c. /\ "z" \in Clocks /\ "trn" \in Clocks /\ "rd" \in Clocks /\ "wr" \in Clocks /\ "low" \in Clocks
      /\ "one" \in Clocks /\ t \in Clocks /\ e \in Clocks /\ g \in Clocks
      /\ lead \in Nat /\ 33 \in Nat /\ 1 \in Nat
  BY DEF Clocks
<1>f. /\ Fits("z", "trn") /\ Fits("rd", "rd") /\ Fits("wr", "wr") /\ Fits(t, "trn") /\ Fits(e, "trn")
      /\ "low" \in Idles /\ g \in Idles
      /\ "z" \in Yields /\ "one" \in Yields /\ t \in Yields
  BY DEF Fits, Idles, Yields
<1>5. /\ DAP_SPI_Send_Header(0) = hh \o Rep("z", 0)
      /\ DAP_SPI_Send_Header(1) = hh \o z
  BY DEF DAP_SPI_Send_Header, HostHead
<1>e. (IF Chip = "ESP32" THEN DAP_SPI_Generate_Cycle(1) ELSE DAP_SPI_Fast_Cycle) = ends
  BY DEF DAP_SPI_Generate_Cycle, DAP_SPI_Fast_Cycle
<1>w. DAP_SPI_Write_Data = wr \o low /\ DAP_SPI_Generate_Cycle(idle_cycles) = lows
  BY DEF DAP_SPI_Write_Data, DAP_SPI_Generate_Cycle
<1> HIDE DEF t, e, g, lead
<1>1. z \in Line /\ ends \in Line /\ trn \in Line /\ rd \in Line /\ wr \in Line
  BY <1>c, Repeated
<1>2. lows \in Line /\ Idling(lows) /\ low \in Line /\ Idling(low)
  <2>1. lows \in Line /\ Len(lows) = idle_cycles /\ \A i \in 1..idle_cycles : lows[i] = g
    BY <1>0, <1>c, Repeated
  <2>2. low \in Line /\ Len(low) = lead /\ \A i \in 1..lead : low[i] = "low"
    BY <1>c, Repeated
  <2> HIDE DEF lows, low
  <2> QED
    BY <1>f, <2>1, <2>2 DEF Idling
<1>3. Fit(z, trn) /\ Fit(ends, trn) /\ Fit(rd, rd) /\ Fit(wr, wr)
  BY <1>c, <1>f, FitRep
<1>4. /\ hh \in Line /\ th \in Line /\ Fit(hh, th)
      /\ Len(hh) = 12 /\ Yielding(hh)
  <2>1. /\ hh \in Line /\ th \in Line /\ Fit(hh, th)
        /\ Len(hh) = 11 + 1 /\ \A i \in 9..(11 + 1) : hh[i] \in Yields
    BY <1>c, <1>f, Heads
  <2> HIDE DEF hh, th
  <2> QED
    BY <2>1 DEF Yielding
<1>6. DAP_SPI_Send_Header(0) = hh
  BY <1>4, <1>5, NoClocks
<1>7. /\ SWD_Transfer_SPI(TRUE, "OK") = hh \o (rd \o z)
      /\ SWD_Transfer_SPI(FALSE, "OK") = (hh \o z) \o ((wr \o low) \o lows)
      /\ SWD_Transfer_SPI(TRUE, "WAIT") = hh \o ends
      /\ SWD_Transfer_SPI(FALSE, "WAIT") = (hh \o z) \o <<>>
  <2> HIDE DEF hh, z, ends, wr, low, lows
  <2> QED
    BY <1>5, <1>6, <1>e, <1>w DEF SWD_Transfer_SPI, DAP_SPI_Read_Data, z
<1>8. /\ SWD_Transfer_SPI(TRUE, "ERROR") = hh \o Rep("one", 33)
      /\ SWD_Transfer_SPI(FALSE, "ERROR") = (hh \o z) \o Rep("one", 34)
  <2> HIDE DEF hh, z
  <2> QED
    BY <1>5, <1>6 DEF SWD_Transfer_SPI, DAP_SPI_Protocol_Error_Read, DAP_SPI_Protocol_Error_Write
<1>9. /\ TargetClocks(TRUE, "OK") = th \o (rd \o trn)
      /\ TargetClocks(FALSE, "OK") = th \o (trn \o wr)
      /\ TargetClocks(TRUE, "WAIT") = th \o (<<>> \o trn)
      /\ TargetClocks(FALSE, "WAIT") = th \o (trn \o <<>>)
  BY <1>0 DEF TargetClocks, TargetHead
<1>10. ack \in {"OK", "WAIT", "ERROR"}
  BY DEF Acks
<1>z. hh \o z \in Line /\ Yielding(hh \o z) /\ Len(hh \o z) = 13
  <2> HIDE DEF hh
  <2>1. Len(hh) >= 8
    BY <1>4
  <2>2. hh \o z \in Line /\ Yielding(hh \o z) /\ Len(hh \o z) = Len(hh) + 1
    BY <1>4, <1>c, <1>f, <2>1, YieldsOn
  <2> QED
    BY <1>4, <2>2
<1> HIDE DEF z, ends, trn, hh, th, rd, wr, low, lows
<1>12. BacksOff(hh \o Rep("one", 33)) /\ BacksOff((hh \o z) \o Rep("one", 34))
  <2>1. ASSUME NEW h \in Line, Yielding(h), NEW m \in Nat, Len(h) >= 8, Len(h) + m >= 45
        PROVE  BacksOff(h \o Rep("one", m))
    BY <1>c, <1>f, <2>1, YieldsOn DEF BacksOff
  <2>2. Len(hh) >= 8 /\ Len(hh) + 33 >= 45 /\ Len(hh \o z) >= 8 /\ Len(hh \o z) + 34 >= 45
    BY <1>4, <1>z
  <2>3. BacksOff(hh \o Rep("one", 33))
    BY <1>4, <2>1, <2>2
  <2>4. BacksOff((hh \o z) \o Rep("one", 34))
    BY <1>z, <2>1, <2>2
  <2> QED
    BY <2>3, <2>4
<1>13. Covers(hh \o (rd \o z), th \o (rd \o trn))
  <2>1. rd \o z \in Line /\ rd \o trn \in Line /\ Fit(rd \o z, rd \o trn)
    BY <1>1, <1>3, FitJoin, Concatenated
  <2> QED
    BY <1>4, <2>1, FitCovers, CoversJoin
<1>14. /\ hh \o z \in Line /\ th \o trn \in Line /\ Fit(hh \o z, th \o trn)
       /\ hh \o ends \in Line /\ Fit(hh \o ends, th \o trn)
  BY <1>1, <1>3, <1>4, FitJoin, Concatenated
<1>15. Covers((hh \o z) \o ((wr \o low) \o lows), th \o (trn \o wr))
  <2>1. wr \o low \in Line /\ Covers(wr \o low, wr)
    BY <1>1, <1>2, <1>3, FitCovers, CoversIdle, Concatenated
  <2>2. (wr \o low) \o lows \in Line /\ Covers((wr \o low) \o lows, wr)
    BY <1>1, <1>2, <2>1, CoversIdle, Concatenated
  <2>3. Covers((hh \o z) \o ((wr \o low) \o lows), (th \o trn) \o wr)
    BY <1>1, <1>14, <2>2, CoversJoin
  <2>4. (th \o trn) \o wr = th \o (trn \o wr)
    BY <1>1, <1>4, Grouped, SMTT(30)
  <2> QED
    BY <2>3, <2>4
<1>16. /\ Covers(hh \o ends, th \o (<<>> \o trn))
       /\ Covers((hh \o z) \o <<>>, th \o (trn \o <<>>))
  <2>1. <<>> \o trn = trn /\ trn \o <<>> = trn /\ (hh \o z) \o <<>> = hh \o z
    BY <1>1, <1>14, NoClocks
  <2> QED
    BY <1>14, <2>1, FitCovers
<1> QED
  BY <1>7, <1>8, <1>9, <1>10, <1>12, <1>13, <1>15, <1>16

\* Host and target never drive the line together and never miss a bit, on every
\* chip, with any turnaround, data phase and number of idle cycles, after any
\* sequence of commands (SW_DP.c:190-497, spi_op.c:150-371).
THEOREM BusIsHandedOver == Spec => []BusHandover
<1>1. ASSUME LineInv PROVE BusHandover
  <2>1. SUFFICES
        ASSUME last.op = "swd",
               SWD_TransferSpeed = SPI => swd_conf = [turnaround |-> 1, data_phase |-> FALSE]
        PROVE  IF last.ack = "ERROR" THEN BacksOff(last.clocks)
               ELSE Covers(last.clocks, TargetClocks(last.rnw, last.ack))
    <3>1. Len(Header \o Ack) + 1 + 33 = 45
      <4>1. Len(Header \o Ack) = Len(Header) + Len(Ack)
        BY HeaderAndAck, Concatenated
      <4> QED
        BY <4>1, HeaderAndAck
    <3> QED
      BY <3>1 DEF BusHandover, BacksOff, Yielding, Yields, Covers, Fits, Idles, BySpi
  <2>2. PICK rnw \in BOOLEAN, ack \in Acks : last = SwdOp(rnw, ack)
    <3>1. ~(last.op \in {"none", "jtag"})
      BY <2>1
    <3>2. \A n, spi : Captured(n, spi).op = "capture" /\ Sent(n, spi).op = "send"
      BY DEF Captured, Sent
    <3> QED
      BY <1>1, <2>1, <3>1, <3>2 DEF LineInv, LastMade
  <2>3. /\ last.rnw = rnw /\ last.ack = ack
        /\ last.clocks = IF SWD_TransferSpeed = SPI THEN SWD_Transfer_SPI(rnw, ack)
                                                    ELSE SWD_Transfer_GPIO(rnw, ack)
    BY <2>2 DEF SwdOp
  <2>4. ConfigOK
    BY <1>1 DEF LineInv
  <2> QED
    BY <2>1, <2>3, <2>4, BitBangedTransfer, SpiTransfer DEF BySpi
<1> QED
  BY <1>1, LineInvariance, PTL

----------------------------------------------------------------------------
(* Which transfer follows another *)

MainOps == {"matchpost", "matchread", "post", "dpread", "setmask", "write"}

\* The transfers made before the register of request k is accessed, and the
\* ones after that of the last request.
Before == MainOps \cup {"fetchpost", "fetch", "bwrite", "bpost"}
Closing == {"lastfetch", "check", "blast"}

LEMMA MainOpIs ==
    ASSUME NEW r
    PROVE  MainOp(r) \in MainOps
  BY DEF MainOp, MainOps

LEMMA FirstOpIs ==
    ASSUME NEW r, NEW posting, NEW chain
    PROVE  /\ FirstOp(r, posting, chain) \in MainOps \cup {"fetchpost", "fetch"}
           /\ FirstOp(r, posting, chain) = "fetchpost" => posting /\ CanChain(r, chain)
<1>1. MainOp(r) \in MainOps /\ MainOp(r) # "fetchpost"
  BY MainOpIs DEF MainOps
<1> QED
  BY <1>1 DEF FirstOp

LEMMA AfterLastIs ==
    ASSUME NEW posting \in BOOLEAN, NEW checking
    PROVE  /\ AfterLast(posting, checking) \in {"lastfetch", "check", "done"}
           /\ ~posting /\ checking => AfterLast(posting, checking) = "check"
  BY DEF AfterLast

\* The end of the loop body.
LEMMA CompleteGoes ==
    ASSUME NEW posting \in BOOLEAN, NEW checking, Complete(posting, checking)
    PROVE  /\ check_write' = checking
           /\ \/ /\ k # Len(cmd.reqs) /\ k' = k + 1
                 /\ op' \in MainOps \cup {"fetchpost", "fetch"}
                 /\ op' = "fetchpost" => posting /\ CanChain(cmd.reqs[k + 1], Select(op))
              \/ /\ k = Len(cmd.reqs) /\ k' = k
                 /\ op' \in {"lastfetch", "check", "done"}
                 /\ ~posting /\ checking => op' = "check"
<1>1. CASE k = Len(cmd.reqs)
  BY <1>1, AfterLastIs DEF Complete, Goto
<1>2. CASE k # Len(cmd.reqs)
  BY <1>2, FirstOpIs DEF Complete, Goto
<1> QED
  BY <1>1, <1>2

\* A block is read or written to its end.
LEMMA BlockGoes ==
    ASSUME NEW o \in {"bread", "blast", "bwrite"}, BlockItem(o)
    PROVE  op' \in {"bread", "blast", "bwrite", "check", "done"}
           /\ (o = "bwrite" => op' \in {"bwrite", "check"})
  BY DEF BlockItem, Goto, BlockRead

----------------------------------------------------------------------------
(* Writes are confirmed *)

\* A write not confirmed yet is going to be, or the answer says that the
\* command failed.
Confirming ==
    unconfirmed =>
       \/ op \in {"bwrite", "check"}
       \/ check_write /\ op \notin {"idle", "done"}
       \/ op = "done" /\ response_value # {"OK"}

AtRest == op = "idle" => ~unconfirmed /\ issued = <<>> /\ response_value = {}

\* Every step keeps that.
LEMMA ConfirmStep ==
    ASSUME Confirming, AtRest, [Next]_interpVars
    PROVE  Confirming' /\ AtRest'
<1>1. CASE UNCHANGED transferVars
  BY <1>1 DEF transferVars, local, target, Confirming, AtRest
<1>2. CASE Reply
  BY <1>2 DEF Reply, Confirming, AtRest
<1>3. ASSUME NEW c, NEW o, NEW n, Begin(c, o, n), o # "idle" PROVE Confirming' /\ AtRest'
  BY <1>3 DEF Begin, target, Confirming, AtRest
<1>4. CASE Command
  <2>1. ASSUME NEW reqs, NEW d, DAP_Transfer(reqs, d) PROVE Confirming' /\ AtRest'
    <3>1. MainOp(reqs[1]) # "idle"
      BY MainOpIs DEF MainOps
    <3> QED
      BY <1>3, <2>1, <3>1 DEF DAP_Transfer
  <2>2. ASSUME NEW r, NEW n, NEW d, DAP_TransferBlock(r, n, d) PROVE Confirming' /\ AtRest'
    BY <1>3, <2>2 DEF DAP_TransferBlock, BlockRead
  <2> QED
    BY <1>4, <2>1, <2>2 DEF Command
<1>5. ASSUME ~unconfirmed', op' # "idle" PROVE Confirming' /\ AtRest'
  BY <1>5 DEF Confirming, AtRest
<1>6. ASSUME NEW rv, Failed(rv), rv # {"OK"} PROVE Confirming' /\ AtRest'
  BY <1>6 DEF Failed, Confirming, AtRest
<1>7. CASE Wait
  <2>1. CASE retry > 0
    BY <1>7, <2>1 DEF Wait, InTransfer, target, Confirming, AtRest
  <2>2. CASE ~(retry > 0)
    BY <1>6, <1>7, <2>2 DEF Wait
  <2> QED
    BY <2>1, <2>2
<1>8. ASSUME NEW ack \in {"FAULT", "ERROR"}, Refuse(ack) PROVE Confirming' /\ AtRest'
  <2>1. PICK more : Failed({ack} \cup more)
    BY <1>8 DEF Refuse
  <2>2. {ack} \cup more # {"OK"}
    OBVIOUS
  <2> QED
    BY <1>6, <2>1, <2>2
<1>9. ASSUME NEW o, Ok(o), ~IsWrite(o) PROVE ~unconfirmed'
  BY <1>9 DEF Ok, Accept
<1>10. CASE FetchPost \/ Post \/ ReadDP
  <2>1. PICK o \in {"fetchpost", "post", "dpread"} : Ok(o)
    BY <1>10 DEF FetchPost, Post, ReadDP
  <2>2. \E posting \in BOOLEAN : Complete(posting, FALSE)
    BY <1>10 DEF FetchPost, Post, ReadDP
  <2>3. op' # "idle"
    BY <2>2, CompleteGoes DEF MainOps
  <2> QED
    BY <1>5, <1>9, <2>1, <2>3 DEF IsWrite
<1>11. CASE Fetch
  <2>1. Ok("fetch") /\ op' \in MainOps
    BY <1>11, MainOpIs DEF Fetch, Goto
  <2> QED
    BY <1>5, <1>9, <2>1 DEF IsWrite, MainOps
<1>12. CASE MatchPost \/ LastFetch \/ CheckLastWrite \/ BlockPost
  <2>1. PICK o \in {"matchpost", "lastfetch", "check", "bpost"} : Ok(o)
    BY <1>12 DEF MatchPost, LastFetch, CheckLastWrite, BlockPost
  <2>2. op' # "idle"
    BY <1>12 DEF MatchPost, LastFetch, CheckLastWrite, BlockPost, Goto, BlockRead
  <2> QED
    BY <1>5, <1>9, <2>1, <2>2 DEF IsWrite
<1>13. ASSUME NEW equal \in BOOLEAN, MatchRead(equal) PROVE Confirming' /\ AtRest'
  <2>1. Ok("matchread") /\ op = "matchread"
    BY <1>13 DEF MatchRead, Ok
  <2>2. op' # "idle"
    <3>1. CASE equal
      <4>1. Complete(FALSE, FALSE)
        BY <1>13, <3>1 DEF MatchRead
      <4> QED
        BY <4>1, CompleteGoes DEF MainOps
    <3>2. CASE ~equal
      BY <1>13, <2>1, <3>2 DEF MatchRead, Failed
    <3> QED
      BY <3>1, <3>2
  <2> QED
    BY <1>5, <1>9, <2>1, <2>2 DEF IsWrite
<1>14. CASE SetMatchMask
  <2>1. op = "setmask" /\ Complete(FALSE, check_write) /\ unconfirmed' = unconfirmed
    BY <1>14 DEF SetMatchMask, target
  <2>2. /\ check_write' = check_write /\ op' # "idle" /\ (check_write => op' # "done")
    BY <2>1, CompleteGoes DEF MainOps
  <2> QED
    BY <2>1, <2>2 DEF Confirming, AtRest
<1>15. CASE Write
  <2>1. Complete(FALSE, TRUE)
    BY <1>15 DEF Write
  <2>2. check_write' = TRUE /\ op' # "idle" /\ op' # "done"
    BY <2>1, CompleteGoes DEF MainOps
  <2> QED
    BY <2>2 DEF Confirming, AtRest
<1>16. ASSUME NEW o \in {"bread", "blast", "bwrite"}, BlockItem(o) PROVE Confirming' /\ AtRest'
  <2>1. Ok(o) /\ op' # "idle" /\ (o = "bwrite" => op' \in {"bwrite", "check"})
    BY <1>16, BlockGoes DEF BlockItem
  <2>2. CASE o = "bwrite"
    BY <2>1, <2>2 DEF Confirming, AtRest
  <2>3. CASE o # "bwrite"
    BY <1>5, <1>9, <2>1, <2>3 DEF IsWrite
  <2> QED
    BY <2>2, <2>3
<1>17. CASE Step
  BY <1>7, <1>8, <1>10, <1>11, <1>12, <1>13, <1>14, <1>15, <1>16, <1>17 DEF Step, BlockStep
<1>18. CASE UNCHANGED interpVars
  BY <1>1, <1>18 DEF interpVars
<1> QED
  BY <1>1, <1>2, <1>4, <1>17, <1>18 DEF Next, DAP_ProcessCommand

\* A command answered with OK never ends on a write whose outcome was not asked
\* for, for every mix of requests and every behaviour of the target
\* (check_write, DAP.c:974-980).
THEOREM WritesAreConfirmed == Spec => []WritesConfirmed
<1>1. Init => Confirming /\ AtRest
  BY DEF Init, Idle, Confirming, AtRest
<1>2. Confirming /\ AtRest => WritesConfirmed
  BY DEF Confirming, AtRest, WritesConfirmed, Finished
<1> QED
  BY <1>1, <1>2, ConfirmStep, PTL DEF Spec

----------------------------------------------------------------------------
(* Registers are accessed once *)

\* The accesses s are of different ones of the first n requests, in order, and
\* each is on the port its request names.
Accesses(s, reqs, n) ==
    /\ s \in Seq([k : Nat, ap : BOOLEAN])
    /\ \A i \in 1..Len(s) : s[i].k \in 1..n /\ s[i].ap = reqs[s[i].k].ap
    /\ \A i, j \in 1..Len(s) : i < j => s[i].k < s[j].k

Block == {"bpost", "bread", "blast", "bwrite"}

\* The command and the place in it fit together; a read is only chained to a
\* posted one of the same port, and all items of a block are of one register.
CommandOK ==
    /\ cmd.reqs \in Seq(Kinds)
    /\ op \in Before \cup {"bread"} \cup Closing \cup {"idle", "done"}
    /\ k \in Nat
    /\ op \notin {"idle", "done"} => k \in 1..Len(cmd.reqs)
    /\ op \in Block => cmd.kind = "block"
    /\ op = "bpost" => k = 1 /\ Posts(cmd.reqs[1])
    /\ op = "bread" /\ Posts(cmd.reqs[k]) => k < Len(cmd.reqs)
    /\ op = "blast" => k = Len(cmd.reqs)
    /\ cmd.kind = "block" => \A i, j \in 1..Len(cmd.reqs) : cmd.reqs[i] = cmd.reqs[j]
    /\ op = "fetchpost" =>
          IF debug_port = "JTAG" THEN ir = ChainOf(cmd.reqs[k]) ELSE cmd.reqs[k].ap

\* The last request whose register may have been accessed.
Reached ==
    IF op \in Before THEN k - 1
    ELSE IF op = "bread" THEN (IF Posts(cmd.reqs[k]) THEN k ELSE k - 1)
    ELSE Len(cmd.reqs)

OnceInv == CommandOK /\ Accesses(issued, cmd.reqs, Reached)

LEMMA NoAccesses ==
    ASSUME NEW reqs, NEW n \in Nat
    PROVE  Accesses(<<>>, reqs, n)
  BY DEF Accesses

LEMMA MoreReached ==
    ASSUME NEW s, NEW reqs, NEW m \in Int, NEW n \in Int, m <= n, Accesses(s, reqs, m)
    PROVE  Accesses(s, reqs, n)
  BY DEF Accesses

LEMMA OneMoreAccess ==
    ASSUME NEW s, NEW reqs \in Seq(Kinds), NEW n \in 1..Len(reqs), Accesses(s, reqs, n - 1)
    PROVE  Accesses(Append(s, [k |-> n, ap |-> reqs[n].ap]), reqs, n)
<1> DEFINE x == [k |-> n, ap |-> reqs[n].ap]
           t == Append(s, x)
<1>0. n \in Nat /\ Len(reqs) \in Nat
  OBVIOUS
<1>1. reqs[n] \in Kinds /\ reqs[n].ap \in BOOLEAN
  BY DapTransferAssumption
<1>2. x \in [k : Nat, ap : BOOLEAN] /\ x.k = n /\ x.ap = reqs[n].ap
  BY <1>0, <1>1
<1>3. s \in Seq([k : Nat, ap : BOOLEAN])
  BY DEF Accesses
<1> HIDE DEF x
<1>4. /\ t \in Seq([k : Nat, ap : BOOLEAN]) /\ Len(t) = Len(s) + 1
      /\ t[Len(s) + 1] = x /\ \A i \in 1..Len(s) : t[i] = s[i]
  BY <1>2, <1>3
<1> HIDE DEF t
<1>5. Len(s) \in Nat
  BY <1>3
<1>6. \A i \in 1..Len(s) : s[i].k \in 1..(n - 1) /\ s[i].ap = reqs[s[i].k].ap
  BY DEF Accesses
<1>7. ASSUME NEW i \in 1..Len(t) PROVE t[i].k \in 1..n /\ t[i].ap = reqs[t[i].k].ap
  <2>1. CASE i = Len(s) + 1
    BY <1>0, <1>2, <1>4, <2>1
  <2>2. CASE i # Len(s) + 1
    <3>1. i \in 1..Len(s)
      BY <1>4, <1>5, <1>7, <2>2
    <3>2. t[i] = s[i] /\ s[i].k \in 1..(n - 1) /\ s[i].ap = reqs[s[i].k].ap
      BY <1>4, <1>6, <3>1
    <3>3. 1..(n - 1) \subseteq 1..n
      BY <1>0
    <3> QED
      BY <3>2, <3>3
  <2> QED
    BY <2>1, <2>2
<1>8. ASSUME NEW i \in 1..Len(t), NEW j \in 1..Len(t), i < j PROVE t[i].k < t[j].k
  <2>1. CASE j = Len(s) + 1
    <3>1. i \in 1..Len(s) /\ t[j].k = n
      BY <1>2, <1>4, <1>5, <1>8, <2>1
    <3>2. t[i].k \in 1..(n - 1)
      BY <1>4, <1>6, <3>1
    <3> QED
      BY <1>0, <3>1, <3>2
  <2>2. CASE j # Len(s) + 1
    <3>1. i \in 1..Len(s) /\ j \in 1..Len(s)
      BY <1>4, <1>5, <1>8, <2>2
    <3>2. t[i] = s[i] /\ t[j] = s[j]
      BY <1>4, <3>1
    <3> QED
      BY <1>8, <3>1, <3>2 DEF Accesses
  <2> QED
    BY <2>1, <2>2
<1>9. Accesses(t, reqs, n)
  BY <1>4, <1>7, <1>8 DEF Accesses
<1> QED
  BY <1>9 DEF t, x

\* The port a transfer goes to is the one its request names.
LEMMA RightPort ==
    ASSUME OnceInv, op \in (Before \cup {"bread"}) \ {"fetch"}
    PROVE  /\ ToAP(op) = cmd.reqs[k].ap
           /\ op = "bread" => \A i \in 1..Len(cmd.reqs) : cmd.reqs[i] = cmd.reqs[k]
<1>1. /\ k \in 1..Len(cmd.reqs) /\ cmd.reqs \in Seq(Kinds) /\ Len(cmd.reqs) \in Nat
  BY DEF OnceInv, CommandOK, Before, MainOps
<1>2. 1 \in 1..Len(cmd.reqs)
  BY <1>1
<1>3. cmd.reqs[k].ap \in BOOLEAN /\ (cmd.kind = "block" => cmd.reqs[1] = cmd.reqs[k])
  <2>1. cmd.reqs[k] \in Kinds
    BY <1>1
  <2> QED
    BY <1>1, <1>2, <2>1, DapTransferAssumption DEF OnceInv, CommandOK
<1>4. op \notin Rdbuff
  BY DEF Rdbuff, Before, MainOps
<1>5. (ChainOf(cmd.reqs[k]) = "APACC") = cmd.reqs[k].ap
  BY <1>3 DEF ChainOf
<1>6. CASE debug_port = "JTAG"
  <2>1. Select(op) = ChainOf(cmd.reqs[k])
    BY <1>3, <1>4, <1>6 DEF Select, OnceInv, CommandOK
  <2> QED
    BY <1>3, <1>4, <1>5, <1>6, <2>1 DEF ToAP, OnceInv, CommandOK, Block
<1>7. CASE debug_port # "JTAG"
  BY <1>3, <1>4, <1>7 DEF ToAP, OnceInv, CommandOK, Block
<1>8. op = "bread" => \A i \in 1..Len(cmd.reqs) : cmd.reqs[i] = cmd.reqs[k]
  BY <1>1 DEF OnceInv, CommandOK, Block
<1> QED
  BY <1>6, <1>7, <1>8

\* What has been accessed once the transfer at hand is accepted.
LEMMA Accepted ==
    ASSUME OnceInv, op \notin {"idle", "done", "setmask"}, Accept(op)
    PROVE  /\ Accesses(issued', cmd.reqs, Len(cmd.reqs))
           /\ op \in Rdbuff \cup {"matchpost", "matchread"} => issued' = issued
           /\ op \in Before => Accesses(issued', cmd.reqs, k)
           /\ op = "bread" =>
                 IF Posts(cmd.reqs[k]) THEN Accesses(issued', cmd.reqs, k + 1)
                                       ELSE Accesses(issued', cmd.reqs, k)
<1>1. /\ k \in 1..Len(cmd.reqs) /\ cmd.reqs \in Seq(Kinds) /\ Len(cmd.reqs) \in Nat
      /\ op \in Before \cup {"bread"} \cup Closing
  BY DEF OnceInv, CommandOK
<1>2. CASE op \in Rdbuff \cup {"matchpost", "matchread"}
  <2>1. issued' = issued
    BY <1>2 DEF Accept
  <2>2. op # "bread"
    BY <1>2 DEF Rdbuff
  <2>3. Reached \in Int /\ Reached <= Len(cmd.reqs) /\ (op \in Before => Reached <= k)
    BY <1>1, <2>2 DEF Reached
  <2> QED
    BY <1>1, <2>1, <2>2, <2>3, MoreReached DEF OnceInv
<1>3. CASE op \notin Rdbuff \cup {"matchpost", "matchread"}
  <2>1. op \in (Before \cup {"bread"}) \ {"fetch"}
    BY <1>1, <1>3 DEF Rdbuff, Closing
  <2>2. /\ issued' = Append(issued, [k |-> AccessOf(op).k, ap |-> cmd.reqs[k].ap])
        /\ AccessOf(op).k = IF op = "bread" /\ Posts(cmd.reqs[k]) THEN k + 1 ELSE k
    BY <1>3, <2>1, RightPort DEF Accept, AccessOf
  <2>3. CASE op = "bread" /\ Posts(cmd.reqs[k])
    <3>1. k + 1 \in 1..Len(cmd.reqs) /\ Reached = (k + 1) - 1
      BY <1>1, <2>3 DEF OnceInv, CommandOK, Reached, Before, MainOps
    <3>2. cmd.reqs[k + 1].ap = cmd.reqs[k].ap
      BY <2>1, <2>3, <3>1, RightPort
    <3>3. Accesses(issued', cmd.reqs, k + 1)
      BY <1>1, <2>2, <2>3, <3>1, <3>2, OneMoreAccess DEF OnceInv
    <3>4. k + 1 \in Int /\ Len(cmd.reqs) \in Int /\ k + 1 <= Len(cmd.reqs)
      BY <1>1, <3>1
    <3> QED
      BY <1>3, <2>3, <3>3, <3>4, MoreReached DEF Before, MainOps
  <2>4. CASE ~(op = "bread" /\ Posts(cmd.reqs[k]))
    <3>1. Reached = k - 1
      BY <2>1, <2>4 DEF Reached
    <3>2. Accesses(issued', cmd.reqs, k)
      BY <1>1, <2>2, <2>4, <3>1, OneMoreAccess DEF OnceInv
    <3>3. k \in Int /\ Len(cmd.reqs) \in Int /\ k <= Len(cmd.reqs)
      BY <1>1
    <3> QED
      BY <1>3, <2>4, <3>2, <3>3, MoreReached
  <2> QED
    BY <2>3, <2>4
<1> QED
  BY <1>2, <1>3

\* A sequence of requests as the commands take them.
LEMMA RequestsAre ==
    ASSUME NEW reqs, NEW n \in Nat, reqs \in [1..n -> Kinds]
    PROVE  reqs \in Seq(Kinds) /\ Len(reqs) = n
<1>1. reqs \in Seq(Kinds)
  OBVIOUS
<1> QED
  BY <1>1

\* The locals of a command that begins.
LEMMA BeginsOnce ==
    ASSUME OnceInv, AtRest, NEW kind, NEW reqs \in Seq(Kinds), NEW o, NEW n,
           Begin([kind |-> kind, reqs |-> reqs], o, n),
           o \in MainOps \cup {"bwrite", "bpost", "bread", "done"},
           o # "done" => Len(reqs) >= 1,
           o \in Block => kind = "block",
           o = "bpost" => Posts(reqs[1]),
           o = "bread" => ~Posts(reqs[1]),
           kind = "block" => \A i, j \in 1..Len(reqs) : reqs[i] = reqs[j]
    PROVE  OnceInv'
<1>1. /\ cmd'.reqs = reqs /\ cmd'.kind = kind /\ op' = o /\ k' = 1
      /\ UNCHANGED debug_port
  BY DEF Begin, portVars
<1>0. issued' = <<>>
  BY DEF Begin, target, AtRest
<1>2. Len(reqs) \in Nat
  OBVIOUS
<1>3. o \notin {"fetchpost", "fetch", "idle"}
  BY DEF MainOps
<1>4. CommandOK'
  <2>1. Posts(reqs[1])' = Posts(reqs[1])
    BY <1>1 DEF Posts
  <2> QED
    BY <1>1, <1>2, <1>3, <2>1 DEF CommandOK, Before, MainOps, Posts
<1>5. Reached' \in Nat
  BY <1>1, <1>2, <1>3 DEF Reached, Before, MainOps
<1> QED
  BY <1>0, <1>1, <1>4, <1>5, NoAccesses DEF OnceInv

LEMMA CommandOnce ==
    ASSUME OnceInv, AtRest, Command
    PROVE  OnceInv'
<1>1. ASSUME NEW reqs \in Requests, NEW d, DAP_Transfer(reqs, d) PROVE OnceInv'
  <2>1. reqs \in Seq(Kinds)
    <3>1. PICK n \in 0..MaxRequests : reqs \in [1..n -> Kinds]
      BY DEF Requests
    <3>2. n \in Nat
      BY DapTransferAssumption
    <3> QED
      BY <3>1, <3>2, RequestsAre
  <2>2. PICK o, n : /\ Begin([kind |-> "transfer", reqs |-> reqs], o, n)
                    /\ o = "done" \/ (o = MainOp(reqs[1]) /\ reqs # <<>>)
    BY <1>1 DEF DAP_Transfer
  <2>3. o \in MainOps \cup {"done"} /\ o \notin Block
    BY <2>2, MainOpIs DEF MainOps, Block
  <2>4. o # "done" => Len(reqs) >= 1
    BY <2>1, <2>2
  <2>5. o # "bpost" /\ o # "bread"
    BY <2>3 DEF Block
  <2> QED
    BY <2>1, <2>2, <2>3, <2>4, <2>5, BeginsOnce
<1>2. ASSUME NEW r \in Kinds, NEW n \in 0..MaxRequests, NEW d, DAP_TransferBlock(r, n, d) PROVE OnceInv'
  <2> DEFINE reqs == [i \in 1..n |-> r]
  <2>1. n \in Nat
    BY DapTransferAssumption
  <2>2. reqs \in [1..n -> Kinds]
    OBVIOUS
  <2>3. reqs \in Seq(Kinds) /\ Len(reqs) = n
    BY <2>1, <2>2, RequestsAre
  <2>4. \A i \in 1..n : reqs[i] = r
    OBVIOUS
  <2>5. PICK o, m : /\ Begin([kind |-> "block", reqs |-> reqs], o, m)
                    /\ \/ o = "done"
                       \/ n # 0 /\ o = "bwrite"
                       \/ n # 0 /\ o = "bpost" /\ Posts(r)
                       \/ n # 0 /\ o = "bread" /\ ~Posts(r)
    BY <1>2 DEF DAP_TransferBlock, BlockRead
  <2> HIDE DEF reqs
  <2>6. n # 0 => Len(reqs) >= 1 /\ reqs[1] = r
    BY <2>1, <2>3, <2>4
  <2>7. \A i, j \in 1..Len(reqs) : reqs[i] = reqs[j]
    BY <2>3, <2>4
  <2> QED
    BY <2>3, <2>5, <2>6, <2>7, BeginsOnce
<1> QED
  BY <1>1, <1>2 DEF Command

\* The request at hand was executed: the loop goes on with the next one.
LEMMA CompleteOnce ==
    ASSUME OnceInv, op \in Before, NEW posting \in BOOLEAN, NEW checking,
           Complete(posting, checking), posting => ir' = Select(op),
           Accesses(issued', cmd.reqs, k), UNCHANGED <<portVars, cmd>>
    PROVE  OnceInv'
<1>1. UNCHANGED debug_port /\ UNCHANGED cmd
  BY DEF portVars
<1>2. /\ k \in 1..Len(cmd.reqs) /\ cmd.reqs \in Seq(Kinds) /\ Len(cmd.reqs) \in Nat /\ k \in Nat
  BY DEF OnceInv, CommandOK, Before, MainOps
<1>3. CASE k # Len(cmd.reqs)
  <2>1. /\ k' = k + 1 /\ op' \in MainOps \cup {"fetchpost", "fetch"}
        /\ op' = "fetchpost" => posting /\ CanChain(cmd.reqs[k + 1], Select(op))
    BY <1>3, CompleteGoes
  <2>2. k' \in 1..Len(cmd.reqs) /\ k' \in Nat /\ k' - 1 = k
    BY <1>2, <1>3, <2>1
  <2>3. Reached' = k
    BY <1>1, <2>1, <2>2 DEF Reached, Before
  <2>4. CommandOK'
    <3>1. op' \notin {"idle", "done", "bpost", "bread", "blast", "bwrite"}
      BY <2>1 DEF MainOps
    <3>2. op' \in Before
      BY <2>1 DEF Before
    <3>3. op' = "fetchpost" => IF debug_port = "JTAG" THEN ir' = ChainOf(cmd.reqs[k'])
                               ELSE cmd.reqs[k'].ap
      BY <2>1 DEF CanChain
    <3> QED
      BY <1>1, <1>2, <2>2, <3>1, <3>2, <3>3 DEF CommandOK, OnceInv, Block, ChainOf
  <2> QED
    BY <1>1, <2>3, <2>4 DEF OnceInv
<1>4. CASE k = Len(cmd.reqs)
  <2>1. k' = k /\ op' \in {"lastfetch", "check", "done"}
    BY <1>4, CompleteGoes
  <2>2. Reached' = k
    BY <1>1, <1>4, <2>1 DEF Reached, Before, MainOps
  <2>3. CommandOK'
    BY <1>1, <1>2, <2>1 DEF CommandOK, OnceInv, Block, Closing
  <2> QED
    BY <1>1, <2>2, <2>3 DEF OnceInv
<1> QED
  BY <1>3, <1>4

\* The command is over or only confirms what it did.
LEMMA ClosingOnce ==
    ASSUME OnceInv, op' \in {"done", "check"}, k' \in Nat,
           op' = "check" => k' \in 1..Len(cmd.reqs),
           Accesses(issued', cmd.reqs, Len(cmd.reqs)), UNCHANGED cmd
    PROVE  OnceInv'
<1>1. Reached' = Len(cmd.reqs)
  BY DEF Reached, Before, MainOps
<1>2. CommandOK'
  BY DEF CommandOK, OnceInv, Block, Closing
<1> QED
  BY <1>1, <1>2 DEF OnceInv

\* The transfer is made again, or the next one of the same request comes.
LEMMA SameRequestOnce ==
    ASSUME OnceInv, UNCHANGED <<issued, k, cmd, portVars>>,
           \/ UNCHANGED op /\ (op = "fetchpost" => ir' = ir)
           \/ op \in Before /\ op' \in MainOps
    PROVE  OnceInv'
<1>1. UNCHANGED debug_port /\ UNCHANGED cmd /\ UNCHANGED k /\ UNCHANGED issued
  BY DEF portVars
<1>2. CASE UNCHANGED op /\ (op = "fetchpost" => ir' = ir)
  BY <1>1, <1>2 DEF OnceInv, CommandOK, Reached, Posts
<1>3. CASE op \in Before /\ op' \in MainOps
  <2>1. op' \in Before /\ op \notin {"idle", "done"}
    BY <1>3 DEF Before, MainOps
  <2>2. op' \notin {"idle", "done", "bpost", "bread", "blast", "bwrite", "fetchpost"}
    BY <1>3 DEF MainOps
  <2>3. Reached' = Reached
    BY <1>1, <1>3, <2>1 DEF Reached
  <2>4. CommandOK'
    BY <1>1, <2>1, <2>2 DEF CommandOK, OnceInv, Block
  <2> QED
    BY <1>1, <2>3, <2>4 DEF OnceInv
<1> QED
  BY <1>2, <1>3

LEMMA StepOnce ==
    ASSUME OnceInv, Step
    PROVE  OnceInv'
<1>0. /\ cmd.reqs \in Seq(Kinds) /\ Len(cmd.reqs) \in Nat /\ k \in Nat
      /\ op \notin {"idle", "done"} => k \in 1..Len(cmd.reqs)
      /\ op \in Block => cmd.kind = "block"
  BY DEF OnceInv, CommandOK
<1>1. UNCHANGED portVars /\ UNCHANGED cmd
  BY DEF Step, Wait, Refuse, FetchPost, Fetch, Post, ReadDP, MatchPost, MatchRead, SetMatchMask,
         Write, LastFetch, CheckLastWrite, BlockStep, BlockPost, BlockItem, Ok
<1>2. Accesses(issued, cmd.reqs, Len(cmd.reqs))
  <2>1. Reached \in Int /\ Reached <= Len(cmd.reqs)
    BY <1>0 DEF Reached, Before, MainOps
  <2> QED
    BY <1>0, <2>1, MoreReached DEF OnceInv
<1>3. ASSUME NEW o, Ok(o), o \notin {"idle", "done", "setmask"} PROVE op = o /\ Accept(op) /\ ir' = Select(op)
  BY <1>3 DEF Ok
<1>4. ASSUME NEW rv, Failed(rv), Accesses(issued', cmd.reqs, Len(cmd.reqs)) PROVE OnceInv'
  BY <1>0, <1>1, <1>4, ClosingOnce DEF Failed
<1>5. CASE Wait
  <2>1. issued' = issued /\ ir' = Select(op)
    BY <1>5 DEF Wait, target
  <2>2. CASE retry > 0
    <3>1. UNCHANGED <<op, k>> /\ (op = "fetchpost" => ir' = ir)
      BY <1>5, <2>1, <2>2 DEF Wait, Select
    <3> QED
      BY <1>1, <2>1, <3>1, SameRequestOnce
  <2>3. CASE ~(retry > 0)
    BY <1>2, <1>4, <1>5, <2>1, <2>3 DEF Wait
  <2> QED
    BY <2>2, <2>3
<1>6. ASSUME NEW ack, Refuse(ack) PROVE OnceInv'
  <2>1. op \notin {"idle", "done", "setmask"} /\ (issued' = issued \/ Accept(op))
    BY <1>6 DEF Refuse, InTransfer, target
  <2>2. Accesses(issued', cmd.reqs, Len(cmd.reqs))
    BY <1>2, <2>1, Accepted
  <2>3. PICK rv : Failed(rv)
    BY <1>6 DEF Refuse
  <2> QED
    BY <1>4, <2>2, <2>3
<1>7. CASE FetchPost \/ Post \/ ReadDP \/ Write
  <2>1. PICK o \in {"fetchpost", "post", "dpread", "write"} : Ok(o)
    BY <1>7 DEF FetchPost, Post, ReadDP, Write
  <2>2. PICK posting \in BOOLEAN, checking \in BOOLEAN : Complete(posting, checking)
    BY <1>7 DEF FetchPost, Post, ReadDP, Write
  <2>3. op = o /\ Accept(op) /\ ir' = Select(op) /\ op \in Before /\ op \notin {"idle", "done", "setmask"}
    BY <1>3, <2>1 DEF Before, MainOps
  <2>4. Accesses(issued', cmd.reqs, k)
    BY <2>3, Accepted
  <2> QED
    BY <1>1, <2>2, <2>3, <2>4, CompleteOnce
<1>8. CASE Fetch \/ MatchPost
  <2>1. PICK o \in {"fetch", "matchpost"} : Ok(o)
    BY <1>8 DEF Fetch, MatchPost
  <2>2. op = o /\ Accept(op) /\ op \in Before
    BY <1>3, <2>1 DEF Before, MainOps
  <2>3. issued' = issued
    BY <2>2, Accepted DEF Rdbuff
  <2>4. k' = k /\ op' \in MainOps
    BY <1>8, MainOpIs DEF Fetch, MatchPost, Goto, MainOps
  <2> QED
    BY <1>1, <2>2, <2>3, <2>4, SameRequestOnce
<1>9. ASSUME NEW equal \in BOOLEAN, MatchRead(equal) PROVE OnceInv'
  <2>1. op = "matchread" /\ Accept(op) /\ op \in Before /\ op \in MainOps /\ ir' = Select(op)
    BY <1>3, <1>9 DEF MatchRead, Before, MainOps
  <2>2. issued' = issued /\ Accesses(issued', cmd.reqs, k)
    BY <2>1, Accepted
  <2>3. CASE Complete(FALSE, FALSE)
    BY <1>1, <2>1, <2>2, <2>3, CompleteOnce
  <2>4. CASE Failed({"OK", "MISMATCH"})
    BY <1>2, <1>4, <2>2, <2>4
  <2>5. CASE UNCHANGED <<op, k>>
    BY <1>1, <2>1, <2>2, <2>5, SameRequestOnce
  <2> QED
    BY <1>9, <2>3, <2>4, <2>5 DEF MatchRead
<1>10. CASE SetMatchMask
  <2>1. op = "setmask" /\ issued' = issued /\ op \in Before /\ Complete(FALSE, check_write)
    BY <1>10 DEF SetMatchMask, target, Before, MainOps
  <2>2. Reached = k - 1 /\ k - 1 \in Int /\ k \in Int /\ k - 1 <= k
    BY <1>0, <2>1 DEF Reached
  <2>3. Accesses(issued', cmd.reqs, k)
    BY <2>1, <2>2, MoreReached DEF OnceInv
  <2> QED
    BY <1>1, <2>1, <2>3, CompleteOnce
<1>11. CASE LastFetch \/ CheckLastWrite
  <2>1. PICK o \in {"lastfetch", "check"} : Ok(o)
    BY <1>11 DEF LastFetch, CheckLastWrite
  <2>2. op = o /\ Accept(op)
    BY <1>3, <2>1
  <2>3. Accesses(issued', cmd.reqs, Len(cmd.reqs))
    BY <2>2, Accepted
  <2>4. op' = "done" /\ k' = k
    BY <1>11 DEF LastFetch, CheckLastWrite, Goto
  <2> QED
    BY <1>0, <1>1, <2>3, <2>4, ClosingOnce
<1>12. CASE BlockPost
  <2>1. op = "bpost" /\ Accept(op) /\ op \in Before
    BY <1>3, <1>12 DEF BlockPost, Before
  <2>2. k = 1 /\ Posts(cmd.reqs[1]) /\ k \in 1..Len(cmd.reqs) /\ cmd.kind = "block"
    BY <1>0, <2>1 DEF OnceInv, CommandOK, Block
  <2>3. Accesses(issued', cmd.reqs, k)
    BY <2>1, Accepted
  <2>4. /\ k' = k /\ op' \in {"bread", "blast"}
        /\ op' = "blast" <=> Len(cmd.reqs) = 1
    BY <1>12, <2>2 DEF BlockPost, Goto, BlockRead
  <2>5. Posts(cmd.reqs[1])' /\ UNCHANGED debug_port
    BY <1>1, <2>2 DEF Posts, portVars
  <2>6. Reached' = k
    BY <1>0, <1>1, <2>2, <2>4, <2>5 DEF Reached, Before, MainOps
  <2>7. CommandOK'
    <3>1. op' = "bread" => k' < Len(cmd.reqs)
      <4>1. PICK n \in Nat : n = Len(cmd.reqs)
        BY <1>0
      <4>2. n >= 1 /\ k' = 1
        BY <2>2, <2>4, <4>1
      <4>3. op' = "bread" => n # 1
        BY <2>4, <4>1
      <4>4. n # 1 => 1 < n
        BY <4>2
      <4> QED
        BY <4>1, <4>2, <4>3, <4>4
    <3>2. /\ op' = "blast" => k' = Len(cmd.reqs)
          /\ k' \in 1..Len(cmd.reqs) /\ k' \in Nat
      BY <1>0, <2>2, <2>4
    <3> QED
      BY <1>0, <1>1, <2>2, <2>4, <3>1, <3>2 DEF CommandOK, OnceInv, Closing
  <2> QED
    BY <1>1, <2>3, <2>6, <2>7 DEF OnceInv
<1>13. ASSUME NEW o \in {"bread", "blast", "bwrite"}, BlockItem(o) PROVE OnceInv'
  <2> DEFINE n == Len(cmd.reqs)
  <2>1. op = o /\ Accept(op) /\ op \notin {"idle", "done", "setmask"}
    BY <1>3, <1>13 DEF BlockItem
  <2>2. k \in 1..n /\ cmd.kind = "block" /\ cmd.reqs[1] = cmd.reqs[k]
        /\ \A i \in 1..n : cmd.reqs[i] = cmd.reqs[1]
    BY <1>0, <2>1 DEF OnceInv, CommandOK, Block
  <2>3. Accesses(issued', cmd.reqs, n)
    BY <2>1, Accepted
  <2>4. Posts(cmd.reqs[1])' = Posts(cmd.reqs[1])
    BY <1>1 DEF Posts, portVars
  <2>5. /\ k' = IF k = n THEN k ELSE k + 1
        /\ op' = IF o = "bwrite" THEN (IF k < n THEN "bwrite" ELSE "check")
                 ELSE IF k < n THEN BlockRead(cmd.reqs[1], k + 1, n) ELSE "done"
    BY <1>13 DEF BlockItem, Goto
  <2>6. CASE op' \in {"done", "check"}
    <3>1. k' \in 1..n /\ k' \in Nat
      BY <1>0, <2>2, <2>5
    <3> QED
      BY <1>1, <2>3, <2>6, <3>1, ClosingOnce
  <2>7. CASE op' \notin {"done", "check"}
    <3>1. /\ k < n /\ k' = k + 1 /\ k' \in 1..n /\ k' \in Nat
          /\ op' = IF o = "bwrite" THEN "bwrite" ELSE BlockRead(cmd.reqs[1], k + 1, n)
      BY <1>0, <2>2, <2>5, <2>7
    <3>2. cmd.reqs[k'] = cmd.reqs[1]
      BY <2>2, <3>1
    <3>3. CASE o = "bwrite"
      <4>1. Accesses(issued', cmd.reqs, k) /\ op' = "bwrite"
        BY <2>1, <3>1, <3>3, Accepted DEF Before
      <4>2. Reached' = k
        BY <1>0, <3>1, <4>1 DEF Reached, Before
      <4>3. CommandOK'
        BY <1>0, <1>1, <2>2, <3>1, <4>1 DEF CommandOK, OnceInv, Block, Before
      <4> QED
        BY <1>1, <4>1, <4>2, <4>3 DEF OnceInv
    <3>4. CASE o = "bread"
      <4>1. /\ op' \in {"bread", "blast"}
            /\ op' = "blast" <=> k + 1 = n /\ Posts(cmd.reqs[1])
        BY <3>1, <3>4 DEF BlockRead
      <4>2. IF Posts(cmd.reqs[1]) THEN Accesses(issued', cmd.reqs, k') ELSE Accesses(issued', cmd.reqs, k)
        BY <2>1, <2>2, <3>1, <3>4, Accepted
      <4>3. op' = "bread" => Reached' = IF Posts(cmd.reqs[1]) THEN k' ELSE k
        BY <1>0, <1>1, <2>4, <3>1, <3>2 DEF Reached, Before, MainOps, Posts
      <4>4. op' = "blast" => Reached' = n
        BY <1>1 DEF Reached, Before, MainOps
      <4>5. CommandOK'
        <5>1. op' = "bread" /\ Posts(cmd.reqs[1]) => k' < n
          BY <1>0, <3>1, <4>1
        <5>2. Posts(cmd.reqs[k])' = Posts(cmd.reqs[1])
          BY <1>1, <2>4, <3>2 DEF Posts, portVars
        <5> QED
          BY <1>0, <1>1, <2>2, <3>1, <4>1, <5>1, <5>2 DEF CommandOK, OnceInv, Closing
      <4> QED
        BY <1>1, <2>3, <4>1, <4>2, <4>3, <4>4, <4>5 DEF OnceInv
    <3>5. o # "blast"
      BY <1>0, <2>1, <3>1 DEF OnceInv, CommandOK
    <3> QED
      BY <3>3, <3>4, <3>5
  <2> QED
    BY <2>6, <2>7
<1> QED
  BY <1>5, <1>6, <1>7, <1>8, <1>9, <1>10, <1>11, <1>12, <1>13 DEF Step, BlockStep

\* Where the loop is and what it has accessed fit together, for every mix of
\* requests, with any retries and failures of the target (DAP.c:724-1250).
THEOREM TransfersInvariance == Spec => [](OnceInv /\ Confirming /\ AtRest)
<1>1. Init => OnceInv /\ Confirming /\ AtRest
  <2>1. SUFFICES ASSUME Init PROVE OnceInv
    BY DEF Init, Idle, Confirming, AtRest
  <2>2. op = "idle" /\ cmd.reqs = <<>> /\ cmd.kind = "none" /\ issued = <<>> /\ k = 0
    BY <2>1 DEF Init, Idle, NoCommand
  <2>3. Reached = 0
    BY <2>2 DEF Reached, Before, MainOps
  <2>4. CommandOK
    BY <2>2 DEF CommandOK, Block
  <2> QED
    BY <2>2, <2>3, <2>4, NoAccesses DEF OnceInv
<1>2. OnceInv /\ Confirming /\ AtRest /\ [Next]_interpVars => (OnceInv /\ Confirming /\ AtRest)'
  <2>1. SUFFICES ASSUME OnceInv, AtRest, [Next]_interpVars PROVE OnceInv'
    BY ConfirmStep
  <2>2. CASE UNCHANGED interpVars
    BY <2>1, <2>2, SameRequestOnce DEF interpVars, transferVars, local, target
  <2>3. CASE op = "idle" /\ UNCHANGED transferVars
    <3>1. UNCHANGED <<op, k, cmd, issued, ir>> /\ op' = "idle"
      BY <2>3 DEF transferVars, local, target
    <3>2. Reached = Len(cmd.reqs) /\ Reached' = Reached
      BY <2>3, <3>1 DEF Reached, Before, MainOps
    <3>3. CommandOK'
      BY <2>1, <3>1 DEF OnceInv, CommandOK, Block
    <3> QED
      BY <2>1, <3>1, <3>2, <3>3 DEF OnceInv
  <2>4. CASE Reply
    <3>1. op' = "idle" /\ cmd'.reqs = <<>> /\ cmd'.kind = "none" /\ issued' = <<>> /\ k' = 0
      BY <2>4 DEF Reply, NoCommand
    <3>2. Reached' = 0
      BY <3>1 DEF Reached, Before, MainOps
    <3>3. CommandOK'
      BY <3>1 DEF CommandOK, Block
    <3> QED
      BY <3>1, <3>2, <3>3, NoAccesses DEF OnceInv
  <2> QED
    BY <2>1, <2>2, <2>3, <2>4, CommandOnce, StepOnce DEF Next, DAP_ProcessCommand
<1> QED
  BY <1>1, <1>2, PTL DEF Spec

\* A register is accessed at most once per read or write request, in request
\* order and on the port the request names, for every mix of requests, with
\* any retries and failures of the target (DAP.c:764-935).
THEOREM RegistersAccessedOnce == Spec => []AccessedOnce
<1>1. OnceInv => AccessedOnce
  BY DEF OnceInv, Accesses, AccessedOnce
<1> QED
  BY TransfersInvariance, <1>1, PTL

----------------------------------------------------------------------------
(* Reads arrive in the order of the requests *)

Entry == [k : Nat, ap : BOOLEAN]

\* What ReadsInOrder says of the response, for any sequence s of its entries.
DataIn(s) == {i \in 1..Len(s) : s[i] # Timestamp}
WordsIn(s) == {s[i] : i \in DataIn(s)}
Ordered(s) == s \in Seq(Entry) /\ \A i, j \in DataIn(s) : i < j => s[i].k < s[j].k
WordOf(reqs, i) == [k |-> i, ap |-> reqs[i].ap]
ReadsOf(reqs, n) == {WordOf(reqs, i) : i \in {j \in 1..n : NormalRead(reqs[j])}}

\* The data words in s are those of the reads among the first n requests.
Shown(s, reqs, n) == Ordered(s) /\ WordsIn(s) = ReadsOf(reqs, n)

LEMMA NothingShown ==
    ASSUME NEW reqs
    PROVE  Shown(<<>>, reqs, 0)
  BY DEF Shown, Ordered, WordsIn, DataIn, ReadsOf

\* A timestamp changes nothing.
LEMMA StampShown ==
    ASSUME NEW s, NEW reqs, NEW n, NEW r, Shown(s, reqs, n)
    PROVE  Shown(s \o Stamp(r), reqs, n)
<1>1. Timestamp \in Entry
  BY DEF Timestamp, Entry
<1>2. s \in Seq(Entry)
  BY DEF Shown, Ordered
<1>3. CASE ~r.ts
  <2>1. s \o Stamp(r) = s
    BY <1>2, <1>3 DEF Stamp
  <2> QED
    BY <2>1
<1>4. CASE r.ts
  <2> DEFINE t == s \o <<Timestamp>>
  <2>1. /\ t \in Seq(Entry) /\ Len(t) = Len(s) + 1 /\ Len(s) \in Nat
        /\ t[Len(s) + 1] = Timestamp /\ \A i \in 1..Len(s) : t[i] = s[i]
    BY <1>1, <1>2
  <2>2. s \o Stamp(r) = t
    BY <1>4 DEF Stamp
  <2> HIDE DEF t
  <2>3. DataIn(t) = DataIn(s)
    BY <2>1 DEF DataIn
  <2>4. \A i \in DataIn(s) : t[i] = s[i]
    BY <2>1 DEF DataIn
  <2>5. WordsIn(t) = WordsIn(s)
    BY <2>3, <2>4 DEF WordsIn
  <2>6. Ordered(t)
    BY <2>1, <2>3, <2>4 DEF Shown, Ordered
  <2> QED
    BY <2>2, <2>5, <2>6 DEF Shown
<1> QED
  BY <1>3, <1>4

\* The words of the reads among the first n requests.
LEMMA ReadsGrow ==
    ASSUME NEW reqs, NEW n \in Nat \ {0}
    PROVE  /\ NormalRead(reqs[n]) => ReadsOf(reqs, n) = ReadsOf(reqs, n - 1) \cup {WordOf(reqs, n)}
           /\ ~NormalRead(reqs[n]) => ReadsOf(reqs, n) = ReadsOf(reqs, n - 1)
           /\ \A w \in ReadsOf(reqs, n - 1) : w.k \in 1..(n - 1)
           /\ WordOf(reqs, n).k = n
<1> DEFINE R(m) == {j \in 1..m : NormalRead(reqs[j])}
<1>1. 1..n = (1..(n - 1)) \cup {n}
  OBVIOUS
<1>2. NormalRead(reqs[n]) => R(n) = R(n - 1) \cup {n}
  BY <1>1
<1>3. ~NormalRead(reqs[n]) => R(n) = R(n - 1)
  BY <1>1
<1>4. \A m : ReadsOf(reqs, m) = {WordOf(reqs, i) : i \in R(m)}
  BY DEF ReadsOf
<1>5. \A i : WordOf(reqs, i).k = i
  BY DEF WordOf
<1>6. \A w \in ReadsOf(reqs, n - 1) : w.k \in 1..(n - 1)
  BY <1>5 DEF ReadsOf
<1>7. WordOf(reqs, n).k = n
  BY <1>5
<1> HIDE DEF R
<1>8. NormalRead(reqs[n]) => ReadsOf(reqs, n) = ReadsOf(reqs, n - 1) \cup {WordOf(reqs, n)}
  <2>1. ASSUME NEW S PROVE {WordOf(reqs, i) : i \in S \cup {n}}
                             = {WordOf(reqs, i) : i \in S} \cup {WordOf(reqs, n)}
    OBVIOUS
  <2> QED
    BY <1>2, <1>4, <2>1
<1>9. ~NormalRead(reqs[n]) => ReadsOf(reqs, n) = ReadsOf(reqs, n - 1)
  BY <1>3, <1>4
<1> QED
  BY <1>6, <1>7, <1>8, <1>9

\* The word of the next read is appended.
LEMMA WordShown ==
    ASSUME NEW s, NEW reqs \in Seq(Kinds), NEW n \in 1..Len(reqs),
           NormalRead(reqs[n]), Shown(s, reqs, n - 1)
    PROVE  Shown(Append(s, WordOf(reqs, n)), reqs, n)
<1> DEFINE x == WordOf(reqs, n)
           t == Append(s, x)
<1>0. n \in Nat \ {0} /\ s \in Seq(Entry)
  BY DEF Shown, Ordered
<1>1. reqs[n].ap \in BOOLEAN
  <2>1. reqs[n] \in Kinds
    OBVIOUS
  <2> QED
    BY <2>1, DapTransferAssumption
<1>2. x \in Entry /\ x.k = n /\ x # Timestamp
  BY <1>0, <1>1 DEF WordOf, Entry, Timestamp
<1>3. \A w \in WordsIn(s) : w.k \in 1..(n - 1)
  BY <1>0, ReadsGrow DEF Shown
<1> HIDE DEF x
<1>4. /\ t \in Seq(Entry) /\ Len(t) = Len(s) + 1 /\ Len(s) \in Nat
      /\ t[Len(s) + 1] = x /\ \A i \in 1..Len(s) : t[i] = s[i]
  BY <1>0, <1>2
<1> HIDE DEF t
<1>5. DataIn(t) = DataIn(s) \cup {Len(s) + 1}
  BY <1>2, <1>4 DEF DataIn
<1>6. DataIn(s) \subseteq 1..Len(s) /\ \A i \in DataIn(s) : t[i] = s[i]
  BY <1>4 DEF DataIn
<1>7. WordsIn(t) = WordsIn(s) \cup {x}
  <2>1. WordsIn(t) = {t[i] : i \in DataIn(s)} \cup {t[Len(s) + 1]}
    BY <1>5 DEF WordsIn
  <2>2. {t[i] : i \in DataIn(s)} = WordsIn(s)
    BY <1>6 DEF WordsIn
  <2> QED
    BY <1>4, <2>1, <2>2
<1>8. ASSUME NEW i \in DataIn(t), NEW j \in DataIn(t), i < j PROVE t[i].k < t[j].k
  <2>1. i \in DataIn(s)
    BY <1>4, <1>5, <1>6, <1>8
  <2>2. t[i] = s[i] /\ s[i] \in WordsIn(s)
    BY <1>6, <2>1 DEF WordsIn
  <2>3. CASE j = Len(s) + 1
    BY <1>0, <1>2, <1>3, <1>4, <2>2, <2>3
  <2>4. CASE j \in DataIn(s)
    BY <1>6, <1>8, <2>1, <2>4 DEF Shown, Ordered
  <2> QED
    BY <1>5, <2>3, <2>4
<1>9. WordsIn(t) = ReadsOf(reqs, n)
  BY <1>0, <1>7, ReadsGrow DEF Shown, x
<1> QED
  BY <1>4, <1>8, <1>9 DEF Shown, Ordered, t, x

\* The next request is no read.
LEMMA NoWordShown ==
    ASSUME NEW s, NEW reqs, NEW n \in Nat \ {0}, ~NormalRead(reqs[n]), Shown(s, reqs, n - 1)
    PROVE  Shown(s, reqs, n)
  BY ReadsGrow DEF Shown

\* At most the last of the counted reads has not arrived.
LEMMA LastMissing ==
    ASSUME NEW s, NEW reqs, NEW m \in Nat, NEW n \in {m, m + 1}, Shown(s, reqs, m)
    PROVE  /\ WordsIn(s) \subseteq ReadsOf(reqs, n)
           /\ \A missing \in ReadsOf(reqs, n) \ WordsIn(s), w \in ReadsOf(reqs, n) : w.k <= missing.k
<1>1. WordsIn(s) = ReadsOf(reqs, m)
  BY DEF Shown
<1>2. CASE n = m
  BY <1>1, <1>2
<1>3. CASE n = m + 1
  <2>1. n \in Nat \ {0} /\ n - 1 = m
    BY <1>3
  <2>2. \/ ReadsOf(reqs, n) = ReadsOf(reqs, m)
        \/ ReadsOf(reqs, n) = ReadsOf(reqs, m) \cup {WordOf(reqs, n)}
    BY <2>1, ReadsGrow
  <2>3. (\A w \in ReadsOf(reqs, m) : w.k \in 1..m) /\ WordOf(reqs, n).k = n
    BY <2>1, ReadsGrow
  <2> QED
    BY <1>1, <2>1, <2>2, <2>3
<1> QED
  BY <1>2, <1>3

\* What ReadsInOrder says of a response s to requests reqs, n of them counted,
\* with the response value rv.
AllInOrder(s, reqs, n, rv) ==
    /\ Ordered(s)
    /\ WordsIn(s) \subseteq ReadsOf(reqs, n)
    /\ \A missing \in ReadsOf(reqs, n) \ WordsIn(s), w \in ReadsOf(reqs, n) : w.k <= missing.k
    /\ rv = {"OK"} => WordsIn(s) = ReadsOf(reqs, n) /\ n = Len(reqs)

\* The requests whose words have arrived, and the requests counted.
Delivered ==
    IF op \in {"fetch", "fetchpost"} THEN k - 2
    ELSE IF op = "check" THEN k ELSE k - 1
Counted == IF op \in {"lastfetch", "check"} THEN k ELSE k - 1

\* The transfer at hand is one for its request.
OpFits ==
    LET r == cmd.reqs[k] IN
    /\ op \in {"post", "dpread", "fetchpost", "bpost", "bread", "blast", "lastfetch"} => NormalRead(r)
    /\ op \in {"matchpost", "matchread", "setmask", "write", "bwrite"} => ~NormalRead(r)
    /\ op \in {"post", "fetchpost", "bpost"} => Posts(r)
    /\ op = "dpread" => ~Posts(r)
    /\ op \in {"lastfetch", "check"} => k = Len(cmd.reqs)

\* The target's read buffer holds the word that is fetched next.
Pending ==
    /\ op \in {"fetch", "fetchpost"} =>
          k >= 2 /\ NormalRead(cmd.reqs[k - 1]) /\ posted = WordOf(cmd.reqs, k - 1)
    /\ op \in {"lastfetch", "blast"} \/ (op = "bread" /\ Posts(cmd.reqs[k])) =>
          posted = WordOf(cmd.reqs, k)

DataInv ==
    /\ op \notin {"idle", "done"} =>
          /\ OpFits /\ Pending
          /\ Shown(response, cmd.reqs, Delivered)
          /\ response_count = Counted
    /\ op = "idle" => response = <<>> /\ response_count = 0
    /\ op = "done" => AllInOrder(response, cmd.reqs, response_count, response_value)

LEMMA MainOpFits ==
    ASSUME NEW r \in Kinds
    PROVE  /\ MainOp(r) \in {"post", "dpread"} <=> NormalRead(r)
           /\ MainOp(r) = "post" => Posts(r)
           /\ MainOp(r) = "dpread" => ~Posts(r)
<1>1. r.rnw \in BOOLEAN /\ r.match \in BOOLEAN /\ r.mask \in BOOLEAN
  BY DapTransferAssumption
<1> QED
  BY <1>1 DEF MainOp, IsMatch, NormalRead, IsMask

LEMMA FirstOpFits ==
    ASSUME NEW r \in Kinds, NEW posting \in BOOLEAN, NEW chain
    PROVE  /\ ~posting => FirstOp(r, posting, chain) = MainOp(r)
           /\ posting => FirstOp(r, posting, chain) \in {"fetchpost", "fetch"}
           /\ posting /\ FirstOp(r, posting, chain) = "fetchpost" => NormalRead(r) /\ Posts(r)
  BY DEF FirstOp, CanChain, Posts

\* The request at hand is in the command.
LEMMA RequestIs ==
    ASSUME OnceInv, op \notin {"idle", "done"}
    PROVE  /\ k \in 1..Len(cmd.reqs) /\ k \in Nat \ {0} /\ Len(cmd.reqs) \in Nat
           /\ cmd.reqs \in Seq(Kinds) /\ \A i \in 1..Len(cmd.reqs) : cmd.reqs[i] \in Kinds
<1>1. k \in 1..Len(cmd.reqs) /\ cmd.reqs \in Seq(Kinds)
  BY DEF OnceInv, CommandOK
<1> QED
  BY <1>1

LEMMA DeliveredIs ==
    ASSUME OnceInv, DataInv, op \notin {"idle", "done"}
    PROVE  Delivered \in Nat /\ Counted \in {Delivered, Delivered + 1}
<1>1. k \in Nat \ {0} /\ (op \in {"fetch", "fetchpost"} => k >= 2)
  BY RequestIs DEF DataInv, Pending
<1> QED
  BY <1>1 DEF Delivered, Counted

\* A command that a transfer ends, or that ends with all of its words.
LEMMA StopData ==
    ASSUME OnceInv, DataInv, op \notin {"idle", "done"}, op' = "done",
           UNCHANGED <<cmd, response, response_count>>, response_value' # {"OK"}
    PROVE  DataInv'
<1>1. Shown(response, cmd.reqs, Delivered) /\ response_count = Counted
  BY DEF DataInv
<1>2. AllInOrder(response, cmd.reqs, response_count, response_value')
  BY <1>1, DeliveredIs, LastMissing DEF AllInOrder, Shown
<1> QED
  BY <1>2 DEF DataInv

LEMMA EndData ==
    ASSUME op' = "done", UNCHANGED cmd, response_count' = Len(cmd.reqs), Len(cmd.reqs) \in Nat,
           Shown(response', cmd.reqs, Len(cmd.reqs))
    PROVE  DataInv'
<1>1. AllInOrder(response', cmd.reqs, response_count', response_value')
  BY LastMissing DEF AllInOrder, Shown
<1> QED
  BY <1>1 DEF DataInv

\* The same transfer is made again, or the poll follows the access it polls.
LEMMA RepeatData ==
    ASSUME DataInv, op \notin {"idle", "done"},
           UNCHANGED <<k, cmd, portVars, response, response_count>>,
           \/ op' = op /\ (posted' = posted \/ op = "matchread")
           \/ op = "matchpost" /\ op' = "matchread"
    PROVE  DataInv'
<1>1. UNCHANGED k /\ UNCHANGED cmd /\ UNCHANGED debug_port /\ UNCHANGED response
      /\ UNCHANGED response_count
  BY DEF portVars
<1>2. OpFits' /\ Pending'
  BY <1>1 DEF DataInv, OpFits, Pending, Posts
<1>3. Delivered' = Delivered /\ Counted' = Counted
  BY <1>1 DEF Delivered, Counted
<1>4. op' \notin {"idle", "done"}
  OBVIOUS
<1> QED
  BY <1>1, <1>2, <1>3, <1>4 DEF DataInv

\* The request at hand is counted; its word has arrived, or is posted.
LEMMA CompleteData ==
    ASSUME OnceInv, op \notin {"idle", "done"}, NEW posting \in BOOLEAN, NEW checking,
           Complete(posting, checking), response_count = k - 1, UNCHANGED <<cmd, portVars>>,
           posting => NormalRead(cmd.reqs[k]) /\ posted' = WordOf(cmd.reqs, k),
           Shown(response', cmd.reqs, IF posting THEN k - 1 ELSE k)
    PROVE  DataInv'
<1>0. UNCHANGED cmd /\ UNCHANGED debug_port
  BY DEF portVars
<1>1. /\ k \in 1..Len(cmd.reqs) /\ k \in Nat \ {0} /\ Len(cmd.reqs) \in Nat
      /\ \A i \in 1..Len(cmd.reqs) : cmd.reqs[i] \in Kinds
  BY RequestIs
<1>2. response_count' = k
  BY <1>1 DEF Complete
<1>3. CASE k = Len(cmd.reqs)
  <2>1. k' = k /\ op' = AfterLast(posting, checking)
    BY <1>3 DEF Complete, Goto
  <2>2. CASE posting
    <3>1. op' = "lastfetch"
      BY <2>1, <2>2 DEF AfterLast
    <3>2. OpFits' /\ Pending'
      BY <1>0, <1>3, <2>1, <2>2, <3>1 DEF OpFits, Pending
    <3>3. Delivered' = k - 1 /\ Counted' = k
      BY <2>1, <3>1 DEF Delivered, Counted
    <3> QED
      BY <1>0, <1>2, <2>2, <3>1, <3>2, <3>3 DEF DataInv
  <2>3. CASE ~posting /\ op' = "check"
    <3>1. OpFits' /\ Pending'
      BY <1>0, <1>3, <2>1, <2>3 DEF OpFits, Pending
    <3>2. Delivered' = k /\ Counted' = k
      BY <2>1, <2>3 DEF Delivered, Counted
    <3> QED
      BY <1>0, <1>2, <2>3, <3>1, <3>2 DEF DataInv
  <2>4. CASE ~posting /\ op' = "done"
    BY <1>0, <1>1, <1>2, <1>3, <2>4, EndData
  <2> QED
    BY <2>1, <2>2, <2>3, <2>4 DEF AfterLast
<1>4. CASE k # Len(cmd.reqs)
  <2> DEFINE r == cmd.reqs[k + 1]
  <2>1. k' = k + 1 /\ op' = FirstOp(r, posting, Select(op))
    BY <1>4 DEF Complete, Goto
  <2>2. r \in Kinds /\ cmd'.reqs[k'] = r /\ k' - 1 = k /\ k' - 2 = k - 1 /\ k' >= 2
        /\ Posts(cmd.reqs[k])' = Posts(r)
    <3>1. k + 1 \in 1..Len(cmd.reqs)
      BY <1>1, <1>4
    <3>2. k' - 1 = k /\ k' - 2 = k - 1 /\ k' >= 2
      BY <1>1, <2>1
    <3>3. r \in Kinds /\ cmd'.reqs[k'] = r
      BY <1>0, <1>1, <2>1, <3>1
    <3> HIDE DEF r
    <3> QED
      BY <1>0, <3>2, <3>3 DEF Posts
  <2> HIDE DEF r
  <2>3. CASE posting
    <3>1. op' \in {"fetchpost", "fetch"} /\ (op' = "fetchpost" => NormalRead(r) /\ Posts(r))
      BY <2>1, <2>2, <2>3, FirstOpFits
    <3>2. OpFits' /\ Pending'
      BY <1>0, <2>2, <2>3, <3>1 DEF OpFits, Pending
    <3>3. Delivered' = k - 1 /\ Counted' = k
      BY <2>2, <3>1 DEF Delivered, Counted
    <3> QED
      BY <1>0, <1>2, <2>3, <3>1, <3>2, <3>3 DEF DataInv
  <2>4. CASE ~posting
    <3>1. op' = MainOp(r) /\ op' \in MainOps
      BY <2>1, <2>2, <2>4, FirstOpFits, MainOpIs
    <3>2. /\ op' \in {"post", "dpread"} <=> NormalRead(r)
          /\ op' = "post" => Posts(r)
          /\ op' = "dpread" => ~Posts(r)
      BY <2>2, <3>1, MainOpFits
    <3>3. OpFits' /\ Pending'
      BY <1>0, <2>2, <3>1, <3>2 DEF OpFits, Pending, MainOps
    <3>4. Delivered' = k /\ Counted' = k
      BY <2>2, <3>1 DEF Delivered, Counted, MainOps
    <3> QED
      BY <1>0, <1>2, <2>4, <3>1, <3>3, <3>4 DEF DataInv, MainOps
  <2> QED
    BY <2>3, <2>4
<1> QED
  BY <1>3, <1>4

\* The word a read or posted read shifts in is that of its request.
LEMMA DataOfRead ==
    ASSUME OnceInv, DataInv, op \in {"post", "dpread", "fetchpost", "bpost", "bread"}
    PROVE  /\ op \in {"post", "fetchpost"} => AccessOf(op) = WordOf(cmd.reqs, k)
           /\ op \in {"dpread", "bread", "bpost"} /\ (op = "bread" => ~Posts(cmd.reqs[k])) =>
                 AccessOf(op) = WordOf(cmd.reqs, k)
           /\ op = "bread" /\ Posts(cmd.reqs[k]) =>
                 k + 1 \in 1..Len(cmd.reqs) /\ AccessOf(op) = WordOf(cmd.reqs, k + 1)
           /\ op \in {"dpread", "bread"} => DataOf(op) = WordOf(cmd.reqs, k)
<1>1. ToAP(op) = cmd.reqs[k].ap
      /\ (op = "bread" => \A i \in 1..Len(cmd.reqs) : cmd.reqs[i] = cmd.reqs[k])
  BY RightPort DEF Before, MainOps
<1>2. k \in 1..Len(cmd.reqs) /\ Len(cmd.reqs) \in Nat /\ k \in Nat
  BY RequestIs
<1>3. op = "bread" /\ Posts(cmd.reqs[k]) => k + 1 \in 1..Len(cmd.reqs)
  BY <1>2 DEF OnceInv, CommandOK
<1>4. op \notin Rdbuff
  BY DEF Rdbuff
<1>5. AccessOf(op) = [k |-> IF op = "bread" /\ Posts(cmd.reqs[k]) THEN k + 1 ELSE k,
                      ap |-> cmd.reqs[k].ap]
  BY <1>1 DEF AccessOf
<1>6. op = "bread" /\ Posts(cmd.reqs[k]) => AccessOf(op) = WordOf(cmd.reqs, k + 1)
  BY <1>1, <1>3, <1>5 DEF WordOf
<1>7. ~(op = "bread" /\ Posts(cmd.reqs[k])) => AccessOf(op) = WordOf(cmd.reqs, k)
  BY <1>5 DEF WordOf
<1>8. op = "bread" /\ Posts(cmd.reqs[k]) => DataOf(op) = WordOf(cmd.reqs, k)
  BY DEF DataOf, DataInv, Pending
<1>9. op = "dpread" \/ (op = "bread" /\ ~Posts(cmd.reqs[k])) => DataOf(op) = WordOf(cmd.reqs, k)
  BY <1>4, <1>7 DEF DataOf, DataInv, OpFits
<1> QED
  BY <1>3, <1>6, <1>7, <1>8, <1>9

LEMMA StepData ==
    ASSUME OnceInv, DataInv, Step
    PROVE  DataInv'
<1> DEFINE reqs == cmd.reqs
<1>0. UNCHANGED portVars /\ UNCHANGED cmd /\ op \notin {"idle", "done"}
  BY DEF Step, Wait, Refuse, FetchPost, Fetch, Post, ReadDP, MatchPost, MatchRead, SetMatchMask,
         Write, LastFetch, CheckLastWrite, BlockStep, BlockPost, BlockItem, Ok, InTransfer
<1>1. /\ k \in 1..Len(reqs) /\ k \in Nat \ {0} /\ Len(reqs) \in Nat /\ reqs \in Seq(Kinds)
      /\ \A i \in 1..Len(reqs) : reqs[i] \in Kinds
  BY <1>0, RequestIs
<1>2. OpFits /\ Pending /\ Shown(response, reqs, Delivered) /\ response_count = Counted
  BY <1>0 DEF DataInv
<1>3. ASSUME NEW o, Ok(o) PROVE op = o /\ Accept(op)
  BY <1>3 DEF Ok
<1>4. ASSUME NEW rv, Failed(rv), rv # {"OK"} PROVE DataInv'
  BY <1>0, <1>4, StopData DEF Failed
<1>5. CASE Wait
  <2>1. CASE retry > 0
    BY <1>0, <1>5, <2>1, RepeatData DEF Wait, target
  <2>2. CASE ~(retry > 0)
    BY <1>4, <1>5, <2>2 DEF Wait
  <2> QED
    BY <2>1, <2>2
<1>6. ASSUME NEW ack \in {"FAULT", "ERROR"}, Refuse(ack) PROVE DataInv'
  <2>1. PICK more : Failed({ack} \cup more)
    BY <1>6 DEF Refuse
  <2>2. {ack} \cup more # {"OK"}
    OBVIOUS
  <2> QED
    BY <1>4, <2>1, <2>2
<1>7. CASE FetchPost
  <2>1. /\ op = "fetchpost" /\ Accept(op) /\ Complete(TRUE, FALSE)
        /\ response' = Append(response, DataOf(op)) \o Stamp(reqs[k])
    BY <1>3, <1>7 DEF FetchPost
  <2>2. NormalRead(reqs[k]) /\ Posts(reqs[k]) /\ Delivered = k - 2 /\ Counted = k - 1
    BY <1>2, <2>1 DEF OpFits, Delivered, Counted
  <2>3. /\ DataOf(op) = WordOf(reqs, k - 1)
        /\ k - 1 \in 1..Len(reqs) /\ (k - 1) - 1 = k - 2 /\ NormalRead(reqs[k - 1])
    BY <1>1, <1>2, <2>1, <2>2 DEF DataOf, Pending
  <2>4. Shown(response', reqs, k - 1)
    BY <1>1, <1>2, <2>1, <2>2, <2>3, WordShown, StampShown
  <2>5. posted' = WordOf(reqs, k)
    BY <2>1, <2>2, DataOfRead DEF Accept, Rdbuff, IsWrite
  <2> QED
    BY <1>0, <1>2, <2>1, <2>2, <2>4, <2>5, CompleteData
<1>8. CASE Fetch
  <2>1. /\ op = "fetch" /\ Accept(op) /\ op' = MainOp(reqs[k])
        /\ response' = Append(response, DataOf(op)) /\ UNCHANGED <<k, response_count>>
    BY <1>3, <1>8 DEF Fetch, Goto
  <2>2. Delivered = k - 2 /\ Counted = k - 1
    BY <2>1 DEF Delivered, Counted
  <2>3. /\ DataOf(op) = WordOf(reqs, k - 1)
        /\ k - 1 \in 1..Len(reqs) /\ (k - 1) - 1 = k - 2 /\ NormalRead(reqs[k - 1])
    BY <1>1, <1>2, <2>1, <2>2 DEF DataOf, Pending, Rdbuff
  <2>4. Shown(response', reqs, k - 1)
    BY <1>1, <1>2, <2>1, <2>2, <2>3, WordShown
  <2>5. /\ op' \in {"post", "dpread"} <=> NormalRead(reqs[k])
        /\ op' = "post" => Posts(reqs[k])
        /\ op' = "dpread" => ~Posts(reqs[k])
        /\ op' \in MainOps
    BY <1>1, <2>1, MainOpFits, MainOpIs
  <2>6. Posts(reqs[k])' = Posts(reqs[k])
    BY <1>0, <2>1 DEF Posts, portVars
  <2>7. OpFits' /\ Pending'
    BY <1>0, <2>1, <2>5, <2>6 DEF OpFits, Pending, MainOps
  <2>8. Delivered' = k - 1 /\ Counted' = k - 1
    BY <2>1, <2>5 DEF Delivered, Counted, MainOps
  <2> QED
    BY <1>0, <1>2, <2>1, <2>2, <2>4, <2>5, <2>7, <2>8 DEF DataInv, MainOps
<1>9. CASE Post
  <2>1. /\ op = "post" /\ Accept(op) /\ Complete(TRUE, FALSE)
        /\ response' = response \o Stamp(reqs[k])
    BY <1>3, <1>9 DEF Post
  <2>2. NormalRead(reqs[k]) /\ Posts(reqs[k]) /\ Delivered = k - 1 /\ Counted = k - 1
    BY <1>2, <2>1 DEF OpFits, Delivered, Counted
  <2>3. Shown(response', reqs, k - 1)
    BY <1>2, <2>1, <2>2, StampShown
  <2>4. posted' = WordOf(reqs, k)
    BY <2>1, <2>2, DataOfRead DEF Accept, Rdbuff, IsWrite
  <2> QED
    BY <1>0, <1>2, <2>1, <2>2, <2>3, <2>4, CompleteData
<1>10. CASE ReadDP
  <2>1. /\ op = "dpread" /\ Complete(FALSE, FALSE)
        /\ response' = Append(response \o Stamp(reqs[k]), DataOf(op))
    BY <1>3, <1>10 DEF ReadDP
  <2>2. NormalRead(reqs[k]) /\ Delivered = k - 1 /\ Counted = k - 1
    BY <1>2, <2>1 DEF OpFits, Delivered, Counted
  <2>3. DataOf(op) = WordOf(reqs, k)
    BY <2>1, DataOfRead
  <2>4. Shown(response', reqs, k)
    BY <1>1, <1>2, <2>1, <2>2, <2>3, WordShown, StampShown
  <2> QED
    BY <1>0, <1>2, <2>1, <2>2, <2>4, CompleteData
<1>11. ASSUME op \in {"matchread", "setmask", "write"}, NEW checking, Complete(FALSE, checking),
              response' = response \/ response' = response \o Stamp(reqs[k])
       PROVE  DataInv'
  <2>1. ~NormalRead(reqs[k]) /\ Delivered = k - 1 /\ Counted = k - 1
    BY <1>2, <1>11 DEF OpFits, Delivered, Counted
  <2>2. Shown(response', reqs, k)
    BY <1>1, <1>2, <1>11, <2>1, NoWordShown, StampShown
  <2> QED
    BY <1>0, <1>2, <1>11, <2>1, <2>2, CompleteData
<1>12. CASE SetMatchMask \/ Write
  <2>1. op \in {"setmask", "write"} /\ (response' = response \/ response' = response \o Stamp(reqs[k]))
    BY <1>3, <1>12 DEF SetMatchMask, Write
  <2>2. PICK checking : Complete(FALSE, checking)
    BY <1>12 DEF SetMatchMask, Write
  <2> QED
    BY <1>11, <2>1, <2>2
<1>13. CASE MatchPost
  BY <1>0, <1>3, <1>13, RepeatData DEF MatchPost, Goto
<1>14. ASSUME NEW equal \in BOOLEAN, MatchRead(equal) PROVE DataInv'
  <2>1. op = "matchread"
    BY <1>3, <1>14 DEF MatchRead
  <2>2. CASE Complete(FALSE, FALSE) /\ UNCHANGED response
    BY <1>11, <2>1, <2>2
  <2>3. CASE Failed({"OK", "MISMATCH"})
    BY <1>4, <2>3
  <2>4. CASE UNCHANGED <<op, k, response, response_count>>
    BY <1>0, <2>1, <2>4, RepeatData
  <2> QED
    BY <1>14, <2>2, <2>3, <2>4 DEF MatchRead
<1>15. CASE LastFetch
  <2>1. /\ op = "lastfetch" /\ op' = "done" /\ response' = Append(response, DataOf(op))
        /\ response_count' = response_count
    BY <1>3, <1>15 DEF LastFetch, Goto
  <2>2. NormalRead(reqs[k]) /\ k = Len(reqs) /\ Delivered = k - 1 /\ Counted = k
    BY <1>2, <2>1 DEF OpFits, Delivered, Counted
  <2>3. DataOf(op) = WordOf(reqs, k)
    BY <1>2, <2>1 DEF DataOf, Rdbuff, Pending
  <2>4. Shown(response', reqs, k)
    BY <1>1, <1>2, <2>1, <2>2, <2>3, WordShown
  <2> QED
    BY <1>0, <1>1, <1>2, <2>1, <2>2, <2>4, EndData
<1>16. CASE CheckLastWrite
  <2>1. op = "check" /\ op' = "done" /\ response' = response /\ response_count' = response_count
    BY <1>3, <1>16 DEF CheckLastWrite, Goto
  <2>2. k = Len(reqs) /\ Delivered = k /\ Counted = k
    BY <1>2, <2>1 DEF OpFits, Delivered, Counted
  <2> QED
    BY <1>0, <1>1, <1>2, <2>1, <2>2, EndData
<1>17. CASE BlockPost
  <2>1. /\ op = "bpost" /\ Accept(op) /\ op' = BlockRead(reqs[1], 1, Len(reqs))
        /\ UNCHANGED <<k, response, response_count>>
    BY <1>3, <1>17 DEF BlockPost, Goto
  <2>2. k = 1 /\ Posts(reqs[k]) /\ NormalRead(reqs[k]) /\ Delivered = k - 1 /\ Counted = k - 1
    BY <1>2, <2>1 DEF OnceInv, CommandOK, OpFits, Delivered, Counted
  <2>3. posted' = WordOf(reqs, k)
    BY <2>1, <2>2, DataOfRead DEF Accept, Rdbuff, IsWrite
  <2>4. op' \in {"bread", "blast"}
    BY <2>1 DEF BlockRead
  <2>5. OpFits' /\ Pending'
    BY <1>0, <2>1, <2>2, <2>3, <2>4 DEF OpFits, Pending
  <2>6. Delivered' = k - 1 /\ Counted' = k - 1
    BY <2>1, <2>4 DEF Delivered, Counted
  <2> QED
    BY <1>0, <1>2, <2>1, <2>2, <2>4, <2>5, <2>6 DEF DataInv
<1>18. ASSUME NEW o \in {"bread", "blast", "bwrite"}, BlockItem(o) PROVE DataInv'
  <2> DEFINE n == Len(reqs)
  <2>1. /\ op = o /\ Accept(op)
        /\ response' = IF op = "bwrite" THEN response ELSE Append(response, DataOf(op))
        /\ response_count' = response_count + 1
        /\ k' = IF k = n THEN k ELSE k + 1
        /\ op' = IF op = "bwrite" THEN (IF k < n THEN "bwrite" ELSE "check")
                 ELSE IF k < n THEN BlockRead(reqs[1], k + 1, n) ELSE "done"
    BY <1>3, <1>18 DEF BlockItem, Goto
  <2>2. Delivered = k - 1 /\ Counted = k - 1 /\ (op = "bwrite" <=> ~NormalRead(reqs[k]))
    BY <1>2, <2>1 DEF OpFits, Delivered, Counted
  <2>3. op \in {"bread", "bwrite"} => \A i, j \in 1..n : reqs[i] = reqs[j]
    BY DEF OnceInv, CommandOK, Block
  <2>4. op # "bwrite" => DataOf(op) = WordOf(reqs, k)
    <3>1. op = "blast" => DataOf(op) = WordOf(reqs, k)
      BY <1>2 DEF DataOf, Rdbuff, Pending
    <3> QED
      BY <2>1, <3>1, DataOfRead
  <2>5. Shown(response', reqs, k) /\ response_count' = k
    BY <1>1, <1>2, <2>1, <2>2, <2>4, WordShown, NoWordShown
  <2>6. CASE k = n /\ op # "bwrite"
    BY <1>0, <1>1, <2>1, <2>5, <2>6, EndData
  <2>7. CASE k = n /\ op = "bwrite"
    <3>1. op' = "check" /\ k' = k
      BY <1>1, <2>1, <2>7
    <3>2. OpFits' /\ Pending'
      BY <1>0, <2>7, <3>1 DEF OpFits, Pending
    <3>3. Delivered' = k /\ Counted' = k
      BY <3>1 DEF Delivered, Counted
    <3> QED
      BY <1>0, <2>5, <3>1, <3>2, <3>3 DEF DataInv
  <2>8. CASE k # n
    <3>1. k < n /\ k' = k + 1 /\ k' - 1 = k /\ k + 1 \in 1..n /\ 1 \in 1..n /\ op # "blast"
      BY <1>1, <2>1, <2>8 DEF OnceInv, CommandOK
    <3>2. reqs[k + 1] = reqs[k] /\ reqs[1] = reqs[k]
      BY <1>1, <2>1, <2>3, <3>1
    <3>3. Posts(reqs[k])' = Posts(reqs[k])
      BY <1>0, <3>1, <3>2 DEF Posts, portVars
    <3>4. CASE op = "bwrite"
      <4>1. op' = "bwrite"
        BY <2>1, <3>1, <3>4
      <4>2. OpFits' /\ Pending'
        BY <1>0, <2>2, <3>1, <3>2, <3>4, <4>1 DEF OpFits, Pending
      <4>3. Delivered' = k /\ Counted' = k
        BY <3>1, <4>1 DEF Delivered, Counted
      <4> QED
        BY <1>0, <2>5, <4>1, <4>2, <4>3 DEF DataInv
    <3>5. CASE op = "bread"
      <4>1. op' \in {"bread", "blast"} /\ (op' = "blast" => Posts(reqs[k]))
        BY <2>1, <3>1, <3>2, <3>5 DEF BlockRead
      <4>2. Posts(reqs[k]) => posted' = WordOf(reqs, k + 1)
        BY <2>1, <3>5, DataOfRead DEF Accept, Rdbuff, IsWrite
      <4>3. OpFits' /\ Pending'
        BY <1>0, <2>2, <3>1, <3>2, <3>3, <3>5, <4>1, <4>2 DEF OpFits, Pending
      <4>4. Delivered' = k /\ Counted' = k
        BY <3>1, <4>1 DEF Delivered, Counted
      <4> QED
        BY <1>0, <2>5, <4>1, <4>3, <4>4 DEF DataInv
    <3> QED
      BY <2>1, <3>1, <3>4, <3>5
  <2> QED
    BY <2>6, <2>7, <2>8
<1> QED
  BY <1>5, <1>6, <1>7, <1>8, <1>9, <1>10, <1>12, <1>13, <1>14, <1>15, <1>16, <1>17, <1>18
     DEF Step, BlockStep

\* A command begins with none of its words.
LEMMA BeginsData ==
    ASSUME AtRest, DataInv, NEW kind, NEW reqs, NEW o, NEW n,
           Begin([kind |-> kind, reqs |-> reqs], o, n),
           o \in MainOps \cup {"bwrite", "bpost", "bread", "done"},
           o \in {"post", "dpread", "bpost", "bread"} => NormalRead(reqs[1]),
           o \in {"matchpost", "matchread", "setmask", "write", "bwrite"} => ~NormalRead(reqs[1]),
           o \in {"post", "bpost"} => Posts(reqs[1]),
           o \in {"dpread", "bread"} => ~Posts(reqs[1])
    PROVE  DataInv'
<1>1. /\ op = "idle" /\ op' = o /\ cmd'.reqs = reqs /\ k' = 1 /\ UNCHANGED debug_port
      /\ response' = response /\ response_count' = response_count /\ response_value' = response_value
  BY DEF Begin, portVars
<1>2. response' = <<>> /\ response_count' = 0 /\ response_value' = {}
  BY <1>1 DEF DataInv, AtRest
<1>3. Shown(<<>>, reqs, 0)
  BY NothingShown
<1>4. CASE o = "done"
  <2>1. AllInOrder(<<>>, reqs, 0, {})
    BY <1>3, LastMissing DEF AllInOrder, Shown
  <2> QED
    BY <1>1, <1>2, <1>4, <2>1 DEF DataInv
<1>5. CASE o # "done"
  <2>1. Posts(cmd.reqs[k])' = Posts(reqs[1])
    BY <1>1 DEF Posts
  <2>2. OpFits' /\ Pending'
    BY <1>1, <1>5, <2>1 DEF OpFits, Pending, MainOps
  <2>3. Delivered' = 0 /\ Counted' = 0
    BY <1>1, <1>5 DEF Delivered, Counted, MainOps
  <2>4. op' \notin {"idle", "done"}
    BY <1>1, <1>5 DEF MainOps
  <2> QED
    BY <1>1, <1>2, <1>3, <2>2, <2>3, <2>4 DEF DataInv
<1> QED
  BY <1>4, <1>5

LEMMA CommandData ==
    ASSUME AtRest, DataInv, Command
    PROVE  DataInv'
<1>1. ASSUME NEW reqs \in Requests, NEW d, DAP_Transfer(reqs, d) PROVE DataInv'
  <2>1. PICK m \in 0..MaxRequests : reqs \in [1..m -> Kinds]
    BY DEF Requests
  <2>2. m \in Nat
    BY DapTransferAssumption
  <2>3. reqs # <<>> => reqs[1] \in Kinds
    <3>1. Len(reqs) = m /\ reqs \in Seq(Kinds)
      BY <2>1, <2>2, RequestsAre
    <3> QED
      BY <3>1
  <2>4. PICK o, n : /\ Begin([kind |-> "transfer", reqs |-> reqs], o, n)
                    /\ o = "done" \/ (o = MainOp(reqs[1]) /\ reqs # <<>>)
    BY <1>1 DEF DAP_Transfer
  <2>5. CASE o = "done"
    BY <2>4, <2>5, BeginsData
  <2>6. CASE o # "done"
    <3>1. /\ o \in {"post", "dpread"} <=> NormalRead(reqs[1])
          /\ o = "post" => Posts(reqs[1])
          /\ o = "dpread" => ~Posts(reqs[1])
          /\ o \in MainOps
      BY <2>3, <2>4, <2>6, MainOpFits, MainOpIs
    <3>2. /\ o \notin {"bpost", "bread", "bwrite"}
          /\ o \in {"matchpost", "matchread", "setmask", "write"} => o \notin {"post", "dpread"}
      BY <3>1 DEF MainOps
    <3> QED
      BY <2>4, <3>1, <3>2, BeginsData
  <2> QED
    BY <2>5, <2>6
<1>2. ASSUME NEW r \in Kinds, NEW n \in 0..MaxRequests, NEW d, DAP_TransferBlock(r, n, d) PROVE DataInv'
  <2> DEFINE reqs == [i \in 1..n |-> r]
  <2>1. n \in Nat
    BY DapTransferAssumption
  <2>2. n # 0 => reqs[1] = r
    BY <2>1
  <2>3. ~r.match /\ r.rnw \in BOOLEAN
    BY <1>2, DapTransferAssumption DEF DAP_TransferBlock
  <2>4. PICK o, m : /\ Begin([kind |-> "block", reqs |-> reqs], o, m)
                    /\ \/ o = "done"
                       \/ n # 0 /\ o = "bwrite" /\ ~r.rnw
                       \/ n # 0 /\ o = "bpost" /\ r.rnw /\ Posts(r)
                       \/ n # 0 /\ o = "bread" /\ r.rnw /\ ~Posts(r)
    BY <1>2 DEF DAP_TransferBlock, BlockRead
  <2>5. NormalRead(r) <=> r.rnw
    BY <2>3 DEF NormalRead
  <2> HIDE DEF reqs
  <2> QED
    BY <2>2, <2>4, <2>5, BeginsData
<1> QED
  BY <1>1, <1>2 DEF Command

\* Every step keeps the order of the words.
LEMMA NextData ==
    ASSUME OnceInv, AtRest, DataInv, [Next]_interpVars
    PROVE  DataInv'
<1>1. CASE UNCHANGED interpVars
  <2>1. UNCHANGED <<op, k, cmd, posted, response, response_count, response_value, portVars>>
    BY <1>1 DEF interpVars, transferVars, local, target
  <2>2. CASE op \notin {"idle", "done"}
    BY <2>1, <2>2, RepeatData
  <2>3. CASE op \in {"idle", "done"}
    BY <2>1, <2>3 DEF DataInv
  <2> QED
    BY <2>2, <2>3
<1>2. CASE op = "idle" /\ UNCHANGED transferVars
  BY <1>2 DEF transferVars, local, DataInv
<1>3. CASE Reply
  BY <1>3 DEF Reply, DataInv
<1> QED
  BY <1>1, <1>2, <1>3, CommandData, StepData DEF Next, DAP_ProcessCommand

\* The words that have arrived fit the place of the loop, for every mix of
\* requests and every behaviour of the target (DAP.c:724-1250).
THEOREM DataInvariance == Spec => []DataInv
<1>1. Init => DataInv
  BY DEF Init, Idle, DataInv
<1>2. Spec => [](OnceInv /\ AtRest)
  BY TransfersInvariance, PTL
<1> QED
  BY <1>1, <1>2, NextData, PTL DEF Spec

\* However reads, polls, writes and mask writes are mixed, and whatever is
\* retried, the words of the response are those of the accesses made for the
\* counted reads, in their order, and only the read still posted when a
\* transfer fails is missing, for every list of requests (DAP.c:724-1250).
THEOREM ReadsArriveInOrder == Spec => []ReadsInOrder
<1>1. DataInv => ReadsInOrder
  <2> SUFFICES ASSUME DataInv, Finished PROVE ReadsInOrder
    BY DEF ReadsInOrder
  <2>1. AllInOrder(response, cmd.reqs, response_count, response_value)
    BY DEF DataInv, Finished
  <2>2. DataAt = DataIn(response) /\ Reads(response_count) = ReadsOf(cmd.reqs, response_count)
    BY DEF DataAt, DataIn, Reads, ReadsOf, Word, WordOf
  <2> QED
    BY <2>1, <2>2 DEF ReadsInOrder, AllInOrder, Ordered, WordsIn
<1> QED
  BY DataInvariance, <1>1, PTL

----------------------------------------------------------------------------
(* The size of a command that was executed is consumed *)

\* The bytes of one more request.
LEMMA OneMoreRequest ==
    ASSUME NEW reqs, NEW n \in Nat
    PROVE  /\ Bytes(reqs, 1, n) \in Nat
           /\ Bytes(reqs, 1, 0) = 0
           /\ Bytes(reqs, 1, n + 1) = Bytes(reqs, 1, n) + 1 + Operand(reqs[n + 1])
<1> DEFINE With(m) == {i \in 1..m : HasOperand(reqs[i])}
<1>1. ASSUME NEW m \in Nat PROVE IsFiniteSet(With(m)) /\ Cardinality(With(m)) \in Nat
  <2>1. IsFiniteSet(1..m)
    BY FS_Interval
  <2>2. With(m) \subseteq 1..m
    OBVIOUS
  <2> QED
    BY <2>1, <2>2, FS_Subset, FS_CardinalityType
<1>2. \A m : Bytes(reqs, 1, m) = m - 1 + 1 + 4 * Cardinality(With(m))
  BY DEF Bytes
<1>3. With(0) = {} /\ n + 1 \notin With(n)
  OBVIOUS
<1>4. HasOperand(reqs[n + 1]) => With(n + 1) = With(n) \cup {n + 1}
  OBVIOUS
<1>5. ~HasOperand(reqs[n + 1]) => With(n + 1) = With(n)
  OBVIOUS
<1> HIDE DEF With
<1>6. Cardinality(With(0)) = 0
  BY <1>3, FS_EmptySet
<1>7. HasOperand(reqs[n + 1]) => Cardinality(With(n + 1)) = Cardinality(With(n)) + 1
  BY <1>1, <1>3, <1>4, FS_AddElement
<1>8. Cardinality(With(n)) \in Nat /\ n + 1 \in Nat
  BY <1>1
<1>9. CASE HasOperand(reqs[n + 1])
  BY <1>2, <1>6, <1>7, <1>8, <1>9 DEF Operand
<1>10. CASE ~HasOperand(reqs[n + 1])
  BY <1>2, <1>5, <1>6, <1>8, <1>10 DEF Operand
<1> QED
  BY <1>9, <1>10

\* The requests before this one are consumed, its own byte and, unless the
\* operand is loaded later, the operand; at the end everything is.
SizeInv ==
    cmd.kind = "transfer" =>
       /\ op \notin {"idle", "done"} => debug_port # "off"
       /\ op \in Before =>
             request = 3 + Bytes(cmd.reqs, 1, k - 1) + IF op = "fetch" THEN 0 ELSE Operand(cmd.reqs[k])
       /\ op \in {"lastfetch", "check"} => request = Size(cmd)
       /\ op = "done" /\ (debug_port = "off" \/ (cmd.reqs # <<>> /\ response_count = Len(cmd.reqs)))
             => request = Size(cmd)

LEMMA CompleteSize ==
    ASSUME OnceInv, SizeInv, op \in Before \ {"fetch"}, NEW posting \in BOOLEAN, NEW checking,
           Complete(posting, checking), UNCHANGED <<cmd, portVars>>
    PROVE  SizeInv'
<1> SUFFICES ASSUME cmd.kind = "transfer" PROVE SizeInv'
  BY DEF SizeInv
<1>0. UNCHANGED cmd /\ UNCHANGED debug_port /\ op \notin {"idle", "done"}
  BY DEF portVars, Before, MainOps
<1>1. k \in 1..Len(cmd.reqs) /\ k \in Nat \ {0} /\ Len(cmd.reqs) \in Nat
  BY <1>0, RequestIs
<1>2. request = 2 + Bytes(cmd.reqs, 1, k) /\ Bytes(cmd.reqs, 1, k) \in Nat /\ debug_port # "off"
  <2>1. /\ k - 1 \in Nat /\ (k - 1) + 1 = k
    BY <1>1
  <2>2. /\ Bytes(cmd.reqs, 1, k) = Bytes(cmd.reqs, 1, k - 1) + 1 + Operand(cmd.reqs[k])
        /\ Bytes(cmd.reqs, 1, k - 1) \in Nat /\ Bytes(cmd.reqs, 1, k) \in Nat
    BY <1>1, <2>1, OneMoreRequest
  <2>3. Operand(cmd.reqs[k]) \in Nat
    BY DEF Operand
  <2> QED
    BY <1>0, <2>2, <2>3 DEF SizeInv
<1>3. CASE k = Len(cmd.reqs)
  <2>1. request' = request /\ op' \in {"lastfetch", "check", "done"}
    BY <1>3, AfterLastIs DEF Complete, Goto
  <2>2. request = Size(cmd)
    BY <1>2, <1>3 DEF Size
  <2> QED
    BY <1>0, <1>2, <2>1, <2>2 DEF SizeInv, Before, MainOps, Size
<1>4. CASE k # Len(cmd.reqs)
  <2> DEFINE r == cmd.reqs[k + 1]
  <2>1. /\ k' = k + 1 /\ op' = FirstOp(r, posting, Select(op)) /\ request' = Load(op', r, request + 1)
    BY <1>4 DEF Complete, Goto
  <2>2. op' \in MainOps \cup {"fetchpost", "fetch"}
    BY <2>1, FirstOpIs
  <2>3. k' - 1 = k /\ cmd'.reqs[k'] = r
    BY <1>0, <1>1, <2>1
  <2> HIDE DEF r
  <2>4. Operand(r) \in Nat
    BY DEF Operand
  <2>5. request' = 3 + Bytes(cmd.reqs, 1, k) + IF op' = "fetch" THEN 0 ELSE Operand(r)
    BY <1>2, <2>1, <2>4 DEF Load
  <2>6. op' \notin {"idle", "done", "lastfetch", "check"}
    BY <2>2 DEF MainOps
  <2>7. Operand(cmd.reqs[k])' = Operand(r) /\ Bytes(cmd.reqs, 1, k - 1)' = Bytes(cmd.reqs, 1, k)
    BY <1>0, <2>3 DEF Operand, HasOperand
  <2> QED
    BY <1>0, <1>2, <2>5, <2>6, <2>7 DEF SizeInv
<1> QED
  BY <1>3, <1>4

\* A transfer that fails leaves requests out, unless it was one of the closing
\* transfers.
LEMMA FailedSize ==
    ASSUME OnceInv, DataInv, SizeInv, op \notin {"idle", "done"}, NEW rv, Failed(rv),
           UNCHANGED <<cmd, portVars>>
    PROVE  SizeInv'
<1> SUFFICES ASSUME cmd.kind = "transfer" PROVE SizeInv'
  BY DEF SizeInv
<1>0. /\ UNCHANGED cmd /\ UNCHANGED debug_port /\ op' = "done" /\ debug_port # "off"
      /\ response_count' = response_count
  BY DEF portVars, Failed, SizeInv
<1>1. k \in 1..Len(cmd.reqs) /\ k \in Nat \ {0} /\ Len(cmd.reqs) \in Nat
  BY RequestIs
<1>2. CASE op \in {"lastfetch", "check"}
  <2>1. request' = request /\ request = Size(cmd)
    BY <1>2 DEF Failed, SizeInv
  <2> QED
    BY <1>0, <2>1 DEF SizeInv, Before, MainOps, Size
<1>3. CASE op \notin {"lastfetch", "check"}
  <2>1. response_count' = k - 1
    BY <1>0, <1>3 DEF DataInv, Counted
  <2>2. response_count' # Len(cmd.reqs)
    BY <1>1, <2>1
  <2> QED
    BY <1>0, <2>2 DEF SizeInv, Before, MainOps
<1> QED
  BY <1>2, <1>3

\* Nothing is consumed, by a transfer of the same request or one that ends it.
LEMMA SameSize ==
    ASSUME SizeInv, op \notin {"idle", "done"}, UNCHANGED <<cmd, portVars, k, request>>,
           \/ op' = op
           \/ op = "matchpost" /\ op' = "matchread"
           \/ op \in {"lastfetch", "check"} /\ op' = "done"
    PROVE  SizeInv'
<1> SUFFICES ASSUME cmd.kind = "transfer" PROVE SizeInv'
  BY DEF SizeInv
<1>0. UNCHANGED cmd /\ UNCHANGED debug_port /\ UNCHANGED k /\ UNCHANGED request
  BY DEF portVars
<1>1. debug_port # "off"
  BY DEF SizeInv
<1>2. CASE op' = op
  BY <1>0, <1>1, <1>2 DEF SizeInv, Size, Operand, HasOperand, Bytes
<1>3. CASE op = "matchpost" /\ op' = "matchread"
  BY <1>0, <1>1, <1>3 DEF SizeInv, Size, Operand, HasOperand, Bytes, Before, MainOps
<1>4. CASE op \in {"lastfetch", "check"} /\ op' = "done"
  BY <1>0, <1>1, <1>4 DEF SizeInv, Size, Bytes, Before, MainOps
<1> QED
  BY <1>2, <1>3, <1>4

LEMMA StepSize ==
    ASSUME OnceInv, DataInv, SizeInv, Step
    PROVE  SizeInv'
<1>0. UNCHANGED portVars /\ UNCHANGED cmd /\ op \notin {"idle", "done"}
  BY DEF Step, Wait, Refuse, FetchPost, Fetch, Post, ReadDP, MatchPost, MatchRead, SetMatchMask,
         Write, LastFetch, CheckLastWrite, BlockStep, BlockPost, BlockItem, Ok, InTransfer
<1>1. ASSUME NEW rv, Failed(rv) PROVE SizeInv'
  BY <1>0, <1>1, FailedSize
<1>2. CASE Wait
  <2>1. CASE retry > 0
    BY <1>0, <1>2, <2>1, SameSize DEF Wait
  <2>2. CASE ~(retry > 0)
    BY <1>1, <1>2, <2>2 DEF Wait
  <2> QED
    BY <2>1, <2>2
<1>3. ASSUME NEW ack, Refuse(ack) PROVE SizeInv'
  BY <1>1, <1>3 DEF Refuse
<1>4. CASE FetchPost \/ Post \/ ReadDP \/ Write \/ SetMatchMask
  <2>1. op \in Before \ {"fetch"}
    BY <1>4 DEF FetchPost, Post, ReadDP, Write, SetMatchMask, Ok, Before, MainOps
  <2>2. \E posting, checking \in BOOLEAN \cup {check_write} :
           posting \in BOOLEAN /\ Complete(posting, checking)
    BY <1>4 DEF FetchPost, Post, ReadDP, Write, SetMatchMask
  <2> QED
    BY <1>0, <2>1, <2>2, CompleteSize
<1>5. CASE Fetch
  <2> DEFINE r == cmd.reqs[k]
  <2>1. op = "fetch" /\ op' = MainOp(r) /\ request' = Load(op', r, request) /\ UNCHANGED k
    BY <1>5 DEF Fetch, Ok, Goto
  <2>2. op' \in MainOps
    BY <2>1, MainOpIs
  <2>3. op' # "fetch" /\ op' \notin {"idle", "done", "lastfetch", "check"} /\ op \in Before
    BY <2>1, <2>2 DEF MainOps, Before
  <2>4. Operand(r) \in Nat /\ Bytes(cmd.reqs, 1, k - 1) \in Nat
    <3>1. k - 1 \in Nat
      BY <1>0, RequestIs
    <3> QED
      BY <3>1, OneMoreRequest DEF Operand
  <2>5. Operand(cmd.reqs[k])' = Operand(r) /\ Bytes(cmd.reqs, 1, k - 1)' = Bytes(cmd.reqs, 1, k - 1)
    BY <1>0, <2>1 DEF Operand, HasOperand
  <2> HIDE DEF r
  <2>6. cmd.kind = "transfer" => debug_port # "off" /\ request = 3 + Bytes(cmd.reqs, 1, k - 1) + 0
    BY <1>0, <2>1, <2>3 DEF SizeInv
  <2>7. cmd.kind = "transfer" => request' = 3 + Bytes(cmd.reqs, 1, k - 1) + Operand(r)
    BY <2>1, <2>3, <2>4, <2>6 DEF Load
  <2>8. UNCHANGED debug_port
    BY <1>0 DEF portVars
  <2> QED
    BY <1>0, <2>3, <2>5, <2>6, <2>7, <2>8 DEF SizeInv
<1>6. CASE MatchPost
  BY <1>0, <1>6, SameSize DEF MatchPost, Ok, Goto
<1>7. ASSUME NEW equal \in BOOLEAN, MatchRead(equal) PROVE SizeInv'
  <2>1. op = "matchread" /\ op \in Before \ {"fetch"}
    BY <1>7 DEF MatchRead, Ok, Before, MainOps
  <2>2. CASE Complete(FALSE, FALSE)
    BY <1>0, <2>1, <2>2, CompleteSize
  <2>3. CASE Failed({"OK", "MISMATCH"})
    BY <1>1, <2>3
  <2>4. CASE UNCHANGED <<op, k, request>>
    BY <1>0, <2>4, SameSize
  <2> QED
    BY <1>7, <2>2, <2>3, <2>4 DEF MatchRead
<1>8. CASE LastFetch \/ CheckLastWrite
  BY <1>0, <1>8, SameSize DEF LastFetch, CheckLastWrite, Ok, Goto
<1>9. CASE BlockStep
  <2>1. op \in Block \cup {"blast"}
    BY <1>9 DEF BlockStep, BlockPost, BlockItem, Ok, Block
  <2>2. cmd.kind # "transfer"
    BY <2>1 DEF OnceInv, CommandOK, Block
  <2> QED
    BY <1>0, <2>2 DEF SizeInv
<1> QED
  BY <1>2, <1>3, <1>4, <1>5, <1>6, <1>7, <1>8, <1>9 DEF Step

LEMMA CommandSize ==
    ASSUME DataInv, Command
    PROVE  SizeInv'
<1>0. response_count' = 0 /\ UNCHANGED debug_port
  BY DEF Command, DAP_Transfer, DAP_TransferBlock, Begin, DataInv, portVars
<1>1. ASSUME NEW reqs \in Requests, NEW d, DAP_Transfer(reqs, d) PROVE SizeInv'
  <2> DEFINE c == [kind |-> "transfer", reqs |-> reqs]
  <2>1. reqs \in Seq(Kinds)
    <3>1. PICK m \in 0..MaxRequests : reqs \in [1..m -> Kinds]
      BY DEF Requests
    <3>2. m \in Nat
      BY DapTransferAssumption
    <3> QED
      BY <3>1, <3>2, RequestsAre
  <2>2. reqs # <<>> => Len(reqs) # 0
    BY <2>1
  <2>3. c.reqs = reqs /\ c.kind = "transfer"
    OBVIOUS
  <2> HIDE DEF c
  <2>4. CASE debug_port = "JTAG" /\ ~OnChain(d)
    <3>1. cmd' = c /\ op' = "done" /\ debug_port' # "off"
      BY <1>0, <1>1, <2>4 DEF DAP_Transfer, Begin, c
    <3> QED
      BY <1>0, <2>2, <2>3, <3>1 DEF SizeInv, Before, MainOps
  <2>5. CASE ~(debug_port = "JTAG" /\ ~OnChain(d)) /\ (debug_port = "off" \/ reqs = <<>>)
    <3>1. cmd' = c /\ op' = "done" /\ request' = Size(c)
      BY <1>1, <2>5 DEF DAP_Transfer, Begin, c
    <3>2. Size(cmd)' = Size(c)
      BY <3>1 DEF Size
    <3> QED
      BY <3>1, <3>2 DEF SizeInv, Before, MainOps
  <2>6. CASE ~(debug_port = "JTAG" /\ ~OnChain(d)) /\ ~(debug_port = "off" \/ reqs = <<>>)
    <3>1. /\ cmd' = c /\ op' = MainOp(reqs[1]) /\ k' = 1
          /\ request' = Load(MainOp(reqs[1]), reqs[1], 3)
      BY <1>1, <2>6 DEF DAP_Transfer, Begin, c
    <3>2. op' \in MainOps
      BY <3>1, MainOpIs
    <3>3. Bytes(reqs, 1, 0) = 0 /\ Operand(reqs[1]) \in Nat
      BY OneMoreRequest DEF Operand
    <3>4. /\ Bytes(cmd.reqs, 1, k - 1)' = Bytes(reqs, 1, 0)
          /\ Operand(cmd.reqs[k])' = Operand(reqs[1])
      BY <2>3, <3>1 DEF Operand, HasOperand
    <3>5. op' \notin {"idle", "done", "lastfetch", "check", "fetch"}
      BY <3>2 DEF MainOps
    <3>6. request' = 3 + 0 + Operand(reqs[1])
      BY <3>1, <3>3, <3>5 DEF Load
    <3> QED
      BY <1>0, <2>6, <3>3, <3>4, <3>5, <3>6 DEF SizeInv
  <2> QED
    BY <2>4, <2>5, <2>6
<1>2. ASSUME NEW r, NEW n, NEW d, DAP_TransferBlock(r, n, d) PROVE SizeInv'
  <2>1. cmd'.kind = "block"
    BY <1>2 DEF DAP_TransferBlock, Begin
  <2> QED
    BY <2>1 DEF SizeInv
<1> QED
  BY <1>1, <1>2 DEF Command

LEMMA NextSize ==
    ASSUME OnceInv, DataInv, SizeInv, [Next]_interpVars
    PROVE  SizeInv'
<1>1. CASE UNCHANGED interpVars
  <2>1. UNCHANGED <<op, k, cmd, request, response_count, portVars>> /\ UNCHANGED debug_port
    BY <1>1 DEF interpVars, transferVars, local, portVars
  <2> QED
    BY <2>1 DEF SizeInv, Size, Bytes, Operand, HasOperand
<1>2. CASE op = "idle" /\ UNCHANGED transferVars
  <2>1. op' = "idle"
    BY <1>2 DEF transferVars
  <2> QED
    BY <2>1 DEF SizeInv, Before, MainOps
<1>3. CASE Reply
  <2>1. op' = "idle"
    BY <1>3 DEF Reply
  <2> QED
    BY <2>1 DEF SizeInv, Before, MainOps
<1> QED
  BY <1>1, <1>2, <1>3, CommandSize, StepSize DEF Next, DAP_ProcessCommand

\* The result of a transfer command gives the size of the command when all of
\* its requests were executed, also if the check of the last one fails, and
\* when no port is enabled, for every list of requests (DAP.c:1213-1227, 1829).
THEOREM RequestIsConsumed == Spec => []ConsumesRequest
<1>1. Init => SizeInv
  BY DEF Init, Idle, SizeInv, Before, MainOps, NoCommand
<1>2. SizeInv => ConsumesRequest
  BY DEF SizeInv, ConsumesRequest
<1>3. Spec => [](OnceInv /\ DataInv)
  BY DataInvariance, TransfersInvariance, PTL
<1> QED
  BY <1>1, <1>2, <1>3, NextSize, PTL DEF Spec

=============================================================================
