------------------------------ MODULE SwjPort ------------------------------
(***************************************************************************)
(* The debug port below the CMSIS-DAP commands: the choice between bit     *)
(* banging and SPI (DAP.c, spi_switch.c), the clocks of an SWD transfer    *)
(* (SW_DP.c, spi_op.c) and of the JTAG scans (JTAG_DP.c).                  *)
(*                                                                         *)
(* A line operation is a sequence of clocks.  A clock of SWDIO is named    *)
(* for what the host does in it: "hdr", "ack", "rd" and "wr" move a bit of *)
(* the packet request, of the acknowledge and of the data, "z" leaves the  *)
(* line high for the target, "low" drives a zero and "one" a one.  A clock *)
(* of JTAG has a TMS level and a bit for TDI.                              *)
(***************************************************************************)
EXTENDS Integers, Sequences

CONSTANTS
    Chip,           \* CONFIG_IDF_TARGET: the build's chip
    Turnarounds,    \* bound: turnaround fields a host configures (0..3)
    Chains,         \* bound: IR lengths of the JTAG devices, seen from TDO
    SeqBits,        \* bound: lengths of SWJ and SWD sequences
    IdleCycles,     \* bound: idle cycles after a transfer
    Retries         \* bound: values of retry_count and of match_retry

DAP_JTAG_DEV_CNT == 8

\* An instruction register has a bit.
ASSUME SwjPortAssumption ==
    /\ Chip \in {"ESP32", "ESP32C3", "ESP32S3"}
    /\ Turnarounds \subseteq 0..3
    /\ SeqBits \subseteq 1..256
    /\ Retries \subseteq Nat
    /\ IdleCycles \subseteq 0..255
    /\ \A lengths \in Chains : lengths \in Seq(1..255) /\ Len(lengths) <= DAP_JTAG_DEV_CNT

VARIABLES
    debug_port,     \* DAP_Data.debug_port
    SWD_TransferSpeed,
    mux,            \* function of the SWCLK and SWDIO pins: "gpio" or "spi"
    swd_conf,       \* DAP_Data.swd_conf
    idle_cycles,    \* DAP_Data.transfer.idle_cycles
    retry_count,    \* DAP_Data.transfer.retry_count
    match_retry,    \* DAP_Data.transfer.match_retry
    jtag_dev,       \* DAP_Data.jtag_dev
    wcr,            \* target: turnaround and data phase it was configured for
    last            \* history: the line operation just made

retries == <<retry_count, match_retry>>
portVars == <<debug_port, SWD_TransferSpeed, mux, swd_conf, idle_cycles, jtag_dev, wcr, retries, last>>

SPI == "SPI"
Acks == {"OK", "WAIT", "ERROR"}
Quiet == [op |-> "none"]
Rep(x, n) == [i \in 1..n |-> x]
Sum(s) ==
    LET upTo[i \in 0..Len(s)] == IF i = 0 THEN 0 ELSE upTo[i - 1] + s[i]
    IN  upTo[Len(s)]

----------------------------------------------------------------------------
(* Port and speed *)

PortInit ==
    /\ debug_port = "off"
    /\ SWD_TransferSpeed = "GPIO_normal"
    /\ mux = "gpio"
    /\ swd_conf = [turnaround |-> 1, data_phase |-> FALSE]
    /\ idle_cycles = 0
    /\ retry_count \in Retries     \* 100 in the code
    /\ match_retry = 0
    /\ jtag_dev = [ir_length |-> <<>>, ir_before |-> <<>>, ir_after |-> <<>>]
    /\ wcr = [turnaround |-> 1, data_phase |-> FALSE]
    /\ last = Quiet

DAP_SPI_Init == mux' = "spi"
DAP_SPI_Deinit == mux' = "gpio"

\* Setting up JTAG, and PORT_OFF, only touch the other pins: TCK and TMS keep
\* the function SWCLK and SWDIO had.
PORT_SWD_SETUP == DAP_SPI_Deinit
PORT_JTAG_SETUP == UNCHANGED mux
PORT_OFF == UNCHANGED mux

DAP_Connect_KeepsPins(port) ==
    /\ last' = Quiet
    /\ UNCHANGED <<SWD_TransferSpeed, mux, swd_conf, idle_cycles, jtag_dev, wcr, retries>>
    /\ debug_port' = IF port \in {"SWD", "JTAG"} THEN port ELSE debug_port

DAP_Connect(port) ==
    /\ last' = Quiet
    /\ UNCHANGED <<SWD_TransferSpeed, swd_conf, idle_cycles, jtag_dev, wcr, retries>>
    /\ debug_port' = IF port \in {"SWD", "JTAG"} THEN port ELSE debug_port
    /\ \/ port = "SWD" /\ SWD_TransferSpeed # SPI /\ PORT_SWD_SETUP
       \/ port = "SWD" /\ SWD_TransferSpeed = SPI /\ UNCHANGED mux
       \/ port = "JTAG" /\ PORT_JTAG_SETUP
       \/ port \notin {"SWD", "JTAG"} /\ UNCHANGED mux

DAP_Disconnect ==
    /\ debug_port' = "off"
    /\ PORT_OFF
    /\ last' = Quiet
    /\ UNCHANGED <<SWD_TransferSpeed, swd_conf, idle_cycles, jtag_dev, wcr, retries>>

\* The clock is "high" from 10 MHz and "fast" from 2 MHz.
DAP_SWJ_Clock(clock) ==
    /\ last' = Quiet
    /\ UNCHANGED <<debug_port, swd_conf, idle_cycles, jtag_dev, wcr, retries>>
    /\ \/ clock = "zero" /\ UNCHANGED <<SWD_TransferSpeed, mux>>
       \/ clock = "high" /\ debug_port # "JTAG" /\ SWD_TransferSpeed' = SPI /\ DAP_SPI_Init
       \/ clock = "high" /\ debug_port = "JTAG" /\ SWD_TransferSpeed' = "GPIO_fast" /\ UNCHANGED mux
       \/ clock = "fast" /\ SWD_TransferSpeed' = "GPIO_fast" /\ DAP_SPI_Deinit
       \/ clock = "slow" /\ SWD_TransferSpeed' = "GPIO_normal" /\ DAP_SPI_Deinit

\* When transfers use SPI the pins are driven and read between a Deinit and an
\* Init; otherwise their function is left as it is.
DAP_SWJ_Pins ==
    /\ last' = Quiet
    /\ IF SWD_TransferSpeed = SPI THEN DAP_SPI_Init ELSE UNCHANGED mux
    /\ UNCHANGED <<debug_port, SWD_TransferSpeed, swd_conf, idle_cycles, jtag_dev, wcr, retries>>

\* The host sets the same turnaround in the target's wire control register.
DAP_SWD_Configure(field, phase) ==
    /\ swd_conf' = [turnaround |-> field + 1, data_phase |-> phase]
    /\ wcr' = [turnaround |-> field + 1, data_phase |-> phase]
    /\ last' = Quiet
    /\ UNCHANGED <<debug_port, SWD_TransferSpeed, mux, idle_cycles, jtag_dev, retries>>

DAP_TransferConfigure(idle, count, match) ==
    /\ idle_cycles' = idle
    /\ retry_count' = count
    /\ match_retry' = match
    /\ last' = Quiet
    /\ UNCHANGED <<debug_port, SWD_TransferSpeed, mux, swd_conf, jtag_dev, wcr>>

\* Sums of the IR lengths before and after every device.
DAP_JTAG_Configure(lengths) ==
    LET n == Len(lengths)
    IN  /\ jtag_dev' = [ir_length |-> lengths,
                        ir_before |-> [i \in 1..n |-> Sum(SubSeq(lengths, 1, i - 1))],
                        ir_after  |-> [i \in 1..n |-> Sum(lengths) - Sum(SubSeq(lengths, 1, i))]]
        /\ last' = Quiet
        /\ UNCHANGED <<debug_port, SWD_TransferSpeed, mux, swd_conf, idle_cycles, wcr, retries>>

----------------------------------------------------------------------------
(* The clocks of one SWD transfer *)

Header == Rep("hdr", 8)
Ack == Rep("ack", 3)

SWD_Transfer_GPIO_OneTurnaround(rnw, ack) ==
    LET trn == Rep("z", swd_conf.turnaround) IN
    Header \o trn \o Ack \o
        CASE ack = "OK" /\ rnw    -> Rep("rd", 33) \o trn \o Rep("low", idle_cycles)
          [] ack = "OK" /\ ~rnw   -> trn \o Rep("wr", 33) \o Rep("low", idle_cycles)
          [] ack = "WAIT"         -> trn
          [] OTHER                -> trn \o Rep("z", 33)

SWD_Transfer_GPIO(rnw, ack) ==
    LET trn == Rep("z", swd_conf.turnaround)
        phase == swd_conf.data_phase
    IN  Header \o trn \o Ack \o
        CASE ack = "OK" /\ rnw    -> Rep("rd", 33) \o trn \o Rep("low", idle_cycles)
          [] ack = "OK" /\ ~rnw   -> trn \o Rep("wr", 33) \o Rep("low", idle_cycles)
          [] ack = "WAIT" /\ rnw  -> Rep("z", IF phase THEN 33 ELSE 0) \o trn
          [] ack = "WAIT" /\ ~rnw -> trn \o Rep("low", IF phase THEN 33 ELSE 0)
          [] OTHER                -> trn \o Rep("z", 33)

\* One turnaround clock, whatever is configured, and no data phase.  The C3 and
\* the S3 send the turnaround as a ninth, zero, bit of the request, and a zero
\* after the 33 bits of a write, which they cannot send alone.
DAP_SPI_Send_Header(trnAfterAck) ==
    Header \o Rep(IF Chip = "ESP32" THEN "z" ELSE "low", 1) \o Ack \o Rep("z", trnAfterAck)
DAP_SPI_Read_Data == Rep("rd", 33) \o Rep("z", 1)
DAP_SPI_Write_Data == Rep("wr", 33) \o Rep("low", IF Chip = "ESP32" THEN 0 ELSE 1)

\* The C3 cannot send a single bit and reads instead.
DAP_SPI_Generate_Cycle(n) == Rep(IF Chip = "ESP32C3" THEN "z" ELSE "low", n)
DAP_SPI_Fast_Cycle == Rep("z", 1)
DAP_SPI_Protocol_Error_Read == Rep("one", 33)
DAP_SPI_Protocol_Error_Write == Rep("one", 34)

SWD_Transfer_SPI(rnw, ack) ==
    DAP_SPI_Send_Header(IF rnw THEN 0 ELSE 1) \o
    CASE ack = "OK" /\ rnw    -> DAP_SPI_Read_Data
      [] ack = "OK" /\ ~rnw   -> DAP_SPI_Write_Data \o DAP_SPI_Generate_Cycle(idle_cycles)
      [] ack = "WAIT" /\ rnw  -> IF Chip = "ESP32" THEN DAP_SPI_Generate_Cycle(1)
                                                   ELSE DAP_SPI_Fast_Cycle
      [] ack = "WAIT" /\ ~rnw -> <<>>
      [] OTHER                -> IF rnw THEN DAP_SPI_Protocol_Error_Read
                                        ELSE DAP_SPI_Protocol_Error_Write

SwdOp(rnw, ack) ==
    [op |-> "swd", rnw |-> rnw, ack |-> ack,
     clocks |-> IF SWD_TransferSpeed = SPI THEN SWD_Transfer_SPI(rnw, ack)
                                           ELSE SWD_Transfer_GPIO(rnw, ack)]

LineOp(o) ==
    /\ last' = o
    /\ UNCHANGED <<debug_port, SWD_TransferSpeed, mux, swd_conf, idle_cycles, jtag_dev, wcr, retries>>

\* WAIT stands for FAULT as well: the two are treated alike.
SWD_Transfer(rnw, ack) ==
    /\ debug_port = "SWD"
    /\ LineOp(SwdOp(rnw, ack))

\* Two writes of an access port, of which the second is kept, and a pulse on
\* nRESET, which is all that happens on the other ports.
DAP_ResetTarget(ack) ==
    LineOp(IF debug_port = "SWD" THEN SwdOp(FALSE, ack) ELSE Quiet)

\* The target's side of a transfer, from the debug interface specification.
TargetClocks(rnw, ack) ==
    LET trn == Rep("trn", wcr.turnaround)
        data == IF rnw THEN Rep("rd", 33) ELSE Rep("wr", 33)
        phase == IF wcr.data_phase THEN data ELSE <<>>
    IN  Header \o trn \o Ack \o
        CASE ack = "OK" -> IF rnw THEN data \o trn ELSE trn \o data
          [] OTHER      -> IF rnw THEN phase \o trn ELSE trn \o phase

----------------------------------------------------------------------------
(* Bit sequences *)

SWD_Sequence_GPIO_NotMovedDown(n) ==
    [i \in 1..n |->
        LET byte == (i - 1) \div 8
            taken == IF n - 8 * byte >= 8 THEN 8 ELSE n - 8 * byte
        IN  i + (8 - taken)]

\* Where the bits clocked in end up in the byte buffer.  Bit banging shifts
\* them in at the top of a byte and moves the last, partial byte down.
SWD_Sequence_GPIO(n) ==
    [i \in 1..n |->
        LET byte == (i - 1) \div 8
            taken == IF n - 8 * byte >= 8 THEN 8 ELSE n - 8 * byte
            left == 8 - taken
        IN  8 * byte + ((i - 8 * byte) + (8 - taken)) - left]

\* The mask for the last byte is 2 >> (count % 8), less one: it keeps a single
\* bit of a whole byte, none of a byte with one bit, and everything otherwise.
DAP_SPI_ReadBits(n) ==
    LET body == 8 * ((n - 1) \div 8)
        kept == CASE n % 8 = 0 -> 1 [] n % 8 = 1 -> 0 [] OTHER -> n % 8
    IN  [i \in 1..(body + kept) |-> i]

\* Where the bits sent come from: bytes are shifted out from the bottom.
SWJ_Sequence_GPIO(n) == [i \in 1..n |-> 8 * ((i - 1) \div 8) + ((i - 1) % 8) + 1]

\* The count is taken as a byte, and as many words are loaded into the buffer of
\* 16 words as there are bytes: a bit past those bytes would be of no use (0).
\* No bytes, or words past the buffer, leave what is sent undefined.
DAP_SPI_WriteBits(n) ==
    LET count == n % 256
        nbytes == (count + 7) \div 8
    IN  IF nbytes \in 1..16 THEN [i \in 1..count |-> IF i <= 8 * nbytes THEN i ELSE 0] ELSE <<0>>

\* Sending is alike for the SWJ and the SWD command.
SWJ_Sequence(n) ==
    LineOp([op |-> "send", n |-> n, spi |-> SWD_TransferSpeed = SPI,
            bits |-> IF SWD_TransferSpeed = SPI THEN DAP_SPI_WriteBits(n)
                                                ELSE SWJ_Sequence_GPIO(n)])

SWD_Sequence(n) ==
    /\ n <= 64
    /\ \/ SWJ_Sequence(n)
       \/ LineOp([op |-> "capture", n |-> n, spi |-> SWD_TransferSpeed = SPI,
                  bits |-> IF SWD_TransferSpeed = SPI THEN DAP_SPI_ReadBits(n)
                                                      ELSE SWD_Sequence_GPIO(n)])

\* TDO is captured in the same way; JTAG is never clocked by SPI.
JTAG_Sequence(n) ==
    /\ n <= 64
    /\ LineOp([op |-> "capture", n |-> n, spi |-> FALSE, bits |-> SWD_Sequence_GPIO(n)])

----------------------------------------------------------------------------
(* The clocks of the JTAG scans, as pairs of TMS and TDI *)

Clk(tms, bits) == [i \in 1..Len(bits) |-> <<tms, bits[i]>>]
Data(n) == [i \in 1..n |-> i]

\* Clocks of n bits at the level TDI was left at, which the TAP of another
\* device shifts through: fill is "1" where PIN_TDI_OUT(1) comes before.
Bypass(fill, n) == Rep(fill, n)
Stay == <<"x">>

ShiftOut_OneTooMany(bits, fill, n) ==
    LET m == Len(bits) IN
    IF n = 0 THEN Clk(0, SubSeq(bits, 1, m - 1)) \o Clk(1, <<bits[m]>>)
             ELSE Clk(0, bits) \o Clk(0, Bypass(fill, n)) \o Clk(1, Bypass(fill, 1))

\* The last bit of a scan leaves the shift state: the bit of the device itself,
\* or the last of n bypass bits after it.
ShiftOut(bits, fill, n) ==
    LET m == Len(bits) IN
    IF n = 0 THEN Clk(0, SubSeq(bits, 1, m - 1)) \o Clk(1, <<bits[m]>>)
             ELSE Clk(0, bits) \o Clk(0, Bypass(fill, n - 1)) \o Clk(1, Bypass(fill, 1))

ToIdle == Clk(1, Stay) \o Clk(0, Stay)
ToShiftDR == Clk(1, Stay) \o Clk(0, Stay) \o Clk(0, Stay)
ToShiftIR == Clk(1, Stay) \o ToShiftDR

JTAG_IR(d) ==
    ToShiftIR \o Clk(0, Bypass("1", jtag_dev.ir_before[d]))
              \o ShiftOut(Data(jtag_dev.ir_length[d]), "1", jtag_dev.ir_after[d])
              \o ToIdle

\* Devices after d; the index of the code counts from 0.
After(d) == Len(jtag_dev.ir_length) - (d - 1) - 1

JTAG_Transfer(d, ack) ==
    ToShiftDR \o Clk(0, Bypass("x", d - 1))
              \o (IF ack = "OK" THEN ShiftOut(Data(35), "x", After(d))
                                ELSE Clk(0, Data(3)) \o Clk(1, Stay))
              \o ToIdle \o Clk(0, Rep("x", idle_cycles))

JTAG_ReadIDCode(d) ==
    ToShiftDR \o Clk(0, Bypass("x", d - 1)) \o ShiftOut(Data(32), "x", 0) \o ToIdle

JTAG_WriteAbort(d) ==
    ToShiftDR \o Clk(0, Bypass("x", d - 1)) \o ShiftOut(Data(35), "x", After(d)) \o ToIdle

\* The instruction is selected, then the data register scanned.
Scans(d, kind, clocks) ==
    LineOp([op |-> "jtag", dev |-> d,
            scans |-> <<[kind |-> "ir", clocks |-> JTAG_IR(d)],
                        [kind |-> kind, clocks |-> clocks]>>])

\* An index outside the chain is refused.
OnChain(d) == d \in 1..Len(jtag_dev.ir_length)

DAP_JTAG_IDCode(d) ==
    IF debug_port = "JTAG" /\ OnChain(d) THEN Scans(d, "idcode", JTAG_ReadIDCode(d))
                                         ELSE LineOp(Quiet)

DAP_WriteAbort(d, ack) ==
    \/ debug_port = "SWD" /\ LineOp(SwdOp(FALSE, ack))
    \/ debug_port = "JTAG" /\ OnChain(d) /\ Scans(d, "abort", JTAG_WriteAbort(d))
    \/ debug_port # "SWD" /\ ~(debug_port = "JTAG" /\ OnChain(d)) /\ LineOp(Quiet)

\* One JTAG access of a transfer command.
JtagAccess(d, ack) ==
    /\ debug_port = "JTAG" /\ OnChain(d)
    /\ Scans(d, IF ack = "OK" THEN "dr" ELSE "refused", JTAG_Transfer(d, ack))

\* The TAP controller, from the JTAG standard: next state at TMS = 0 and 1.
TapNext(s, tms) ==
    CASE s = "idle"    -> IF tms = 0 THEN "idle" ELSE "selDR"
      [] s = "selDR"   -> IF tms = 0 THEN "capDR" ELSE "selIR"
      [] s = "selIR"   -> IF tms = 0 THEN "capIR" ELSE "reset"
      [] s \in {"capDR", "shiftDR"} -> IF tms = 0 THEN "shiftDR" ELSE "exitDR"
      [] s \in {"capIR", "shiftIR"} -> IF tms = 0 THEN "shiftIR" ELSE "exitIR"
      [] s \in {"exitDR", "exitIR"} -> IF tms = 0 THEN "pause" ELSE "update"
      [] s = "update"  -> IF tms = 0 THEN "idle" ELSE "selDR"
      [] OTHER         -> "reset"

\* The controller with the bits it shifted, after one clock and after many.
Tick(t, c) ==
    [state |-> TapNext(t.state, c[1]),
     bits  |-> IF t.state \in {"shiftDR", "shiftIR"} THEN Append(t.bits, c[2]) ELSE t.bits]

TapRun(clocks) ==
    LET run[i \in 0..Len(clocks)] == IF i = 0 THEN [state |-> "idle", bits |-> <<>>]
                                              ELSE Tick(run[i - 1], clocks[i])
    IN  run[Len(clocks)]

----------------------------------------------------------------------------

PortNext ==
    \/ \E port \in {"SWD", "JTAG", "bad"} : DAP_Connect(port)
    \/ DAP_Disconnect
    \/ \E clock \in {"zero", "slow", "fast", "high"} : DAP_SWJ_Clock(clock)
    \/ DAP_SWJ_Pins
    \/ \E field \in Turnarounds, phase \in BOOLEAN : DAP_SWD_Configure(field, phase)
    \/ \E idle \in IdleCycles, count, match \in Retries : DAP_TransferConfigure(idle, count, match)
    \/ \E lengths \in Chains : DAP_JTAG_Configure(lengths)
    \/ \E rnw \in BOOLEAN, ack \in Acks : SWD_Transfer(rnw, ack)
    \/ \E ack \in Acks : DAP_ResetTarget(ack)
    \/ \E n \in SeqBits : SWD_Sequence(n) \/ JTAG_Sequence(n) \/ SWJ_Sequence(n)
    \/ \E d \in 1..(DAP_JTAG_DEV_CNT + 1), ack \in Acks :    \* one off the longest chain
          JtagAccess(d, ack) \/ DAP_JTAG_IDCode(d) \/ DAP_WriteAbort(d, ack)

----------------------------------------------------------------------------
(* Properties *)

\* While the port is SWD the pins have the function the transfers will use,
\* whatever clocks, ports and disconnects came before (DAP.c:240, 424-447):
\* transfers over SPI with the pins in GPIO, or the other way, are silent.
SwdPinsMatchSpeed ==
    /\ SWD_TransferSpeed = SPI => mux = "spi"
    /\ debug_port = "SWD" /\ SWD_TransferSpeed # SPI => mux = "gpio"

\* In every transfer host and target agree on each clock: the host samples the
\* bits the target drives and never drives the line while the target does;
\* after the last one it only idles, and without an answer it backs off for a
\* data phase.  Bit banging drives nothing in a turnaround.  SPI may drive a
\* zero there, and ones while it backs off; the C3 leaves the line alone in
\* idle cycles.  The SPI path has one turnaround clock and no data phase, so it
\* is held to that configuration (SW_DP.c:190-497, spi_op.c:150-371).
BusHandover ==
    last.op = "swd" /\ (SWD_TransferSpeed = SPI => swd_conf = [turnaround |-> 1, data_phase |-> FALSE]) =>
       LET host == last.clocks
           tgt == TargetClocks(last.rnw, last.ack)
           spi == SWD_TransferSpeed = SPI
           backsOff == IF spi THEN {"z", "ack", "low", "one"} ELSE {"z", "ack"}
           idles == IF spi /\ Chip = "ESP32C3" THEN {"low", "z"} ELSE {"low"}
           Fits(h, t) == \/ h = t
                         \/ <<h, t>> \in {<<"z", "trn">>, <<"z", "rd">>, <<"low", "wr">>}
                         \/ spi /\ <<h, t>> = <<"low", "trn">>
       IN  IF last.ack = "ERROR"
           THEN /\ \A i \in 9..Len(host) : host[i] \in backsOff
                /\ Len(host) >= Len(Header \o Ack) + 1 + 33
           ELSE /\ Len(host) >= Len(tgt)
                /\ \A i \in 1..Len(host) : IF i <= Len(tgt) THEN Fits(host[i], tgt[i])
                                                          ELSE host[i] \in idles

\* The bits of a scan that are for device i when it addresses device d: an
\* instruction for each, or one bit of BYPASS for all others; and those before.
Share(kind, d, i) ==
    CASE kind = "ir"                   -> jtag_dev.ir_length[i]
      [] kind # "ir" /\ i # d          -> 1
      [] kind = "idcode" /\ i = d      -> 32
      [] kind = "refused" /\ i = d     -> 3
      [] kind \in {"dr", "abort"} /\ i = d -> 35
BitsBefore(kind, d, i) == Sum([j \in 1..(i - 1) |-> Share(kind, d, j)])

Reaches(scan, d) ==
    LET run == TapRun(scan.clocks)
        n == Len(jtag_dev.ir_length)
        Slice(i) == SubSeq(run.bits, BitsBefore(scan.kind, d, i) + 1,
                                     BitsBefore(scan.kind, d, i) + Share(scan.kind, d, i))
    IN  /\ run.state = "idle"
        /\ Slice(d) = Data(Share(scan.kind, d, d))
        /\ scan.kind \in {"ir", "dr", "abort"} =>
              Len(run.bits) = BitsBefore(scan.kind, d, n) + Share(scan.kind, d, n)
        /\ scan.kind = "ir" =>
              \A i \in (1..n) \ {d} : Slice(i) = Bypass("1", Share(scan.kind, d, i))

\* Each scan ends in Run-Test/Idle having shifted exactly the bits that put the
\* data into the addressed device and, on an instruction scan, ones (BYPASS)
\* into all others, wherever the device is on the chain; an IDCODE scan stops
\* at its device (JTAG_DP.c:114-330, DAP.c:639-652).
ScanReachesDevice ==
    last.op = "jtag" => \A i \in 1..Len(last.scans) : Reaches(last.scans[i], last.dev)

\* A sequence of n bits puts the n bits of the request on the line, in order,
\* and the bits captured are in the buffer in line order.  Over SPI this needs
\* n <= 64 when sending, as spi_op.c:87 asks, and a last byte of two to seven
\* bits when capturing.
SequencesExact ==
    \/ last.op = "capture" /\ (last.spi => last.n % 8 > 1)
    \/ last.op = "send" /\ (last.spi => last.n <= 64)
    => last.bits = [i \in 1..last.n |-> i]

=============================================================================
