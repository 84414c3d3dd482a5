---------------------------- MODULE DapTransfer ----------------------------
(***************************************************************************)
(* DAP_Transfer and DAP_TransferBlock of the CMSIS-DAP command interpreter *)
(* (components/DAP/cmsis-dap/source/DAP.c), for both debug ports.          *)
(*                                                                         *)
(* One step is one call of SWD_Transfer or JTAG_Transfer, whose            *)
(* acknowledge the target chooses.  Reads of an access port are posted:    *)
(* the data of an access come back with the next transfer, and the code    *)
(* keeps track of that in post_read.  Data words are abstracted to the     *)
(* access that produced them, which is what the host relies on: the word   *)
(* for a request must come from the access made for that request.          *)
(* DAP_TransferAbort is only ever cleared in this repository, so the tests *)
(* of the flag are always false and are left out.                          *)
(***************************************************************************)
EXTENDS SwjPort, FiniteSets

CONSTANTS
    Kinds,          \* the transfer requests a host may put in a command
    MaxRequests     \* bound: requests in one command

ASSUME DapTransferAssumption ==
    /\ Kinds \subseteq [rnw : BOOLEAN, ap : BOOLEAN, match : BOOLEAN, mask : BOOLEAN, ts : BOOLEAN]
    /\ MaxRequests \in Nat

VARIABLES
    cmd,            \* the command being executed: its kind and its requests
    op,             \* the transfer about to be made, "idle" or "done"
    k,              \* the request (item of a block) being processed
    retry,          \* retries left for the transfer being made
    matches,        \* match_retry, the local variable
    post_read,      \* a read was posted and not fetched yet
    check_write,    \* the last transfer was a write
    ir,             \* the JTAG instruction selected, the local variable
    response_value, \* a set of the bits of the response value
    response_count,
    response,       \* the data words and timestamps after the response head
    request,        \* bytes of the request consumed
    posted,         \* target: the access whose data is in its read buffer
    issued,         \* history: accesses the target accepted for requests
    unconfirmed     \* history: the last accepted transfer was a write

local == <<cmd, k, retry, matches, post_read, check_write, ir,
           response_value, response_count, response, request>>
target == <<posted, issued, unconfirmed>>
transferVars == <<local, op, target>>

----------------------------------------------------------------------------
(* Requests *)

NoAccess == [k |-> 0, ap |-> FALSE]
Timestamp == [k |-> 0, ap |-> TRUE]
NoCommand == [kind |-> "none", reqs |-> <<>>]

IsMatch(r) == r.rnw /\ r.match
NormalRead(r) == r.rnw /\ ~r.match
IsMask(r) == ~r.rnw /\ r.mask

\* A match value or data follow the first byte of a request.
HasOperand(r) == ~r.rnw \/ r.match
Operand(r) == IF HasOperand(r) THEN 4 ELSE 0

\* The bytes of requests i to j.
Bytes(reqs, i, j) == j - i + 1 + 4 * Cardinality({m \in i..j : HasOperand(reqs[m])})

\* The size of the whole command as the host laid it out.
Size(c) == 2 + Bytes(c.reqs, 1, Len(c.reqs))

ChainOf(r) == IF r.ap THEN "APACC" ELSE "DPACC"

\* Reads that leave their data in the target's read buffer.
Posts(r) == r.ap \/ debug_port = "JTAG"

----------------------------------------------------------------------------
(* Which transfer comes next *)

\* The transfer of request r itself, once no posted read is pending.
MainOp(r) ==
    CASE IsMatch(r)    -> IF Posts(r) THEN "matchpost" ELSE "matchread"
      [] NormalRead(r) -> IF Posts(r) THEN "post" ELSE "dpread"
      [] IsMask(r)     -> "setmask"
      [] OTHER         -> "write"

\* A posted read can be fetched by the next read of the same kind, which at
\* the same time posts its own; chain is the JTAG instruction selected.
CanChain(r, chain) ==
    /\ NormalRead(r)
    /\ IF debug_port = "JTAG" THEN chain = ChainOf(r) ELSE r.ap

FirstOp_ChainsAlways(r, posting, chain) ==
    IF posting /\ NormalRead(r) THEN "fetchpost"
    ELSE IF posting THEN "fetch" ELSE MainOp(r)

FirstOp(r, posting, chain) ==
    IF ~posting THEN MainOp(r)
    ELSE IF CanChain(r, chain) THEN "fetchpost" ELSE "fetch"

\* Bytes consumed when transfer o of request r is entered from position n: the
\* operand is loaded just before the request's own transfer.
Load_TwiceAfterFetch(o, r, n) == n + Operand(r)
Load(o, r, n) == IF o = "fetch" THEN n ELSE n + Operand(r)

AfterLast_NoCheck(posting, checking) ==
    IF posting THEN "lastfetch" ELSE IF debug_port = "JTAG" THEN "check" ELSE "done"

\* What is left to do after the last request was executed.
AfterLast(posting, checking) ==
    IF posting THEN "lastfetch"
    ELSE IF debug_port = "JTAG" \/ checking THEN "check" ELSE "done"

\* Item j of a block of n reads of register r.
BlockRead(r, j, n) == IF j = n /\ Posts(r) THEN "blast" ELSE "bread"

----------------------------------------------------------------------------
(* The target *)

Rdbuff == {"fetch", "lastfetch", "check", "blast"}

Select_KeepsApacc(o) ==
    IF debug_port # "JTAG" \/ o \in Rdbuff \cup {"fetchpost"} \/ ir # "none" THEN ir
    ELSE ChainOf(cmd.reqs[k])

\* The instruction JTAG_IR has selected when the transfer is made.
Select(o) ==
    IF debug_port # "JTAG" \/ o = "fetchpost" THEN ir
    ELSE IF o \in Rdbuff THEN "DPACC"
    ELSE ChainOf(cmd.reqs[IF cmd.kind = "block" THEN 1 ELSE k])

\* Over JTAG the instruction register decides which port is accessed, over
\* SWD the APnDP bit of the request.
ToAP(o) ==
    /\ o \notin Rdbuff
    /\ IF debug_port = "JTAG" THEN Select(o) = "APACC" ELSE cmd.reqs[k].ap

\* The access transfer o makes: request k, except that the transfers of a
\* block after the first one already post the next item.
AccessOf(o) ==
    [k |-> IF o = "bread" /\ Posts(cmd.reqs[k]) THEN k + 1 ELSE k, ap |-> ToAP(o)]

IsWrite(o) == o \in {"write", "bwrite"}

\* The data the host shifts in during transfer o.
DataOf(o) ==
    IF o \in Rdbuff \/ Posts(cmd.reqs[k]) THEN posted ELSE AccessOf(o)

\* The target accepts the transfer.
Accept(o) ==
    /\ posted' = IF o \in Rdbuff \/ IsWrite(o) \/ ~Posts(cmd.reqs[k]) THEN posted
                 ELSE AccessOf(o)
    /\ issued' = IF o \in Rdbuff \cup {"matchpost", "matchread"} THEN issued
                 ELSE Append(issued, AccessOf(o))
    /\ unconfirmed' = IsWrite(o)

----------------------------------------------------------------------------
(* Commands *)

Idle ==
    /\ cmd = NoCommand
    /\ op = "idle"
    /\ k = 0 /\ retry = 0 /\ matches = 0
    /\ post_read = FALSE /\ check_write = FALSE
    /\ ir = "none"
    /\ response_value = {} /\ response_count = 0
    /\ response = <<>>
    /\ request = 0
    /\ posted = NoAccess /\ issued = <<>> /\ unconfirmed = FALSE

\* The locals at the head of the functions; the target's buffer is empty.
Begin(c, o, n) ==
    /\ op = "idle"
    /\ cmd' = c
    /\ op' = o
    /\ request' = n
    /\ k' = 1
    /\ retry' = retry_count
    /\ matches' = match_retry
    /\ UNCHANGED <<post_read, check_write, ir, response_value, response_count,
                   response, target, portVars>>

\* DAP_Transfer.  Without a port the requests are only skipped; d is
\* the device on the JTAG chain.
DAP_Transfer(reqs, d) ==
    LET c == [kind |-> "transfer", reqs |-> reqs] IN
    IF debug_port = "JTAG" /\ ~OnChain(d) THEN Begin(c, "done", 1)
    ELSE IF debug_port = "off" \/ reqs = <<>> THEN Begin(c, "done", Size(c))
    ELSE Begin(c, MainOp(reqs[1]), Load(MainOp(reqs[1]), reqs[1], 3))

\* DAP_TransferBlock: n transfers of the one register r.
DAP_TransferBlock(r, n, d) ==
    /\ ~r.match /\ ~r.mask
    /\ Begin([kind |-> "block", reqs |-> [i \in 1..n |-> r]],
             IF debug_port = "off" \/ n = 0 \/ (debug_port = "JTAG" /\ ~OnChain(d)) THEN "done"
             ELSE IF ~r.rnw THEN "bwrite"
             ELSE IF Posts(r) THEN "bpost" ELSE BlockRead(r, 1, n),
             4 + (IF r.rnw THEN 0 ELSE 4 * n))

\* The response is sent; the locals go out of scope.
Reply ==
    /\ op = "done"
    /\ UNCHANGED portVars
    /\ cmd' = NoCommand
    /\ op' = "idle"
    /\ k' = 0 /\ retry' = 0 /\ matches' = 0
    /\ post_read' = FALSE /\ check_write' = FALSE
    /\ ir' = "none"
    /\ response_value' = {} /\ response_count' = 0
    /\ response' = <<>>
    /\ request' = 0
    /\ posted' = NoAccess /\ issued' = <<>> /\ unconfirmed' = FALSE

----------------------------------------------------------------------------
(* One transfer and what follows it *)

InTransfer == op \notin {"idle", "done", "setmask"}

Stamp(r) == IF r.ts THEN <<Timestamp>> ELSE <<>>

Goto(o) == op' = o /\ retry' = retry_count

\* The end of the loop body: the request is counted, the next one is begun.
Complete(posting, checking) ==
    /\ response_count' = response_count + 1
    /\ response_value' = {"OK"}
    /\ post_read' = posting
    /\ check_write' = checking
    /\ matches' = match_retry
    /\ IF k = Len(cmd.reqs)
       THEN Goto(AfterLast(posting, checking)) /\ UNCHANGED <<k, request>>
       ELSE LET r == cmd.reqs[k + 1]
                o == FirstOp(r, posting, Select(op))
            IN  k' = k + 1 /\ Goto(o) /\ request' = Load(o, r, request + 1)

\* The canceled requests are skipped.  The loop still counts the request that
\* failed, whose own bytes are consumed, so it skips one entry more, read from
\* whatever bytes follow; and when the operand of the failed request was not
\* loaded yet, every entry is read from the wrong place.
Skip ==
    LET entries == Len(cmd.reqs) - k + 1
        aligned == request + Bytes(cmd.reqs, k + 1, Len(cmd.reqs))
    IN  request' \in IF op = "fetch" /\ Operand(cmd.reqs[k]) > 0
                     THEN {request + entries + 4 * m : m \in 0..entries}
                     ELSE {aligned + 1, aligned + 5}

\* A transfer that was not OK ends the command.
Failed(rv) ==
    /\ response_value' = rv
    /\ op' = "done"
    /\ IF cmd.kind = "block" \/ op \in {"lastfetch", "check"}
       THEN UNCHANGED request
       ELSE Skip
    /\ UNCHANGED <<k, retry, matches, post_read, check_write,
                   response_count, response>>

Wait_Reloads ==
    /\ InTransfer
    /\ ir' = Select(op)
    /\ retry' = IF retry > 0 THEN retry - 1 ELSE retry_count
    /\ UNCHANGED <<portVars, cmd, target, op, k, matches, post_read, check_write,
                   response_value, response_count, response, request>>

\* WAIT: the same transfer again while retries are left.
Wait ==
    /\ InTransfer
    /\ ir' = Select(op)
    /\ UNCHANGED <<portVars, cmd, target>>
    /\ IF retry > 0
       THEN /\ retry' = retry - 1
            /\ UNCHANGED <<op, k, matches, post_read, check_write, response_value,
                           response_count, response, request>>
       ELSE Failed({"WAIT"})

\* FAULT, no acknowledge, or a parity error of a read, whose access the target
\* has made.  After a failed poll the value compared with the match value is an
\* old one or none, so MISMATCH may be added.
Refuse(ack) ==
    /\ InTransfer
    /\ ir' = Select(op)
    /\ UNCHANGED <<portVars, cmd>>
    /\ UNCHANGED target \/ (ack = "ERROR" /\ ~IsWrite(op) /\ Accept(op))
    /\ \E more \in IF op = "matchread" THEN {{}, {"MISMATCH"}} ELSE {{}} :
          Failed({ack} \cup more)

\* OK, and the steps of the loop body that follow the transfer.
Ok(o) ==
    /\ op = o
    /\ ir' = Select(o)
    /\ Accept(o)
    /\ UNCHANGED <<portVars, cmd>>

FetchPost ==
    /\ Ok("fetchpost")
    /\ response' = Append(response, DataOf(op)) \o Stamp(cmd.reqs[k])
    /\ Complete(TRUE, FALSE)

Fetch ==
    LET r == cmd.reqs[k] IN
    /\ Ok("fetch")
    /\ response' = Append(response, DataOf(op))
    /\ post_read' = FALSE
    /\ Goto(MainOp(r))
    /\ request' = Load(MainOp(r), r, request)
    /\ UNCHANGED <<k, matches, check_write, response_value, response_count>>

Post ==
    /\ Ok("post")
    /\ response' = response \o Stamp(cmd.reqs[k])
    /\ Complete(TRUE, FALSE)

ReadDP ==
    /\ Ok("dpread")
    /\ response' = Append(response \o Stamp(cmd.reqs[k]), DataOf(op))
    /\ Complete(FALSE, FALSE)

MatchPost ==
    /\ Ok("matchpost")
    /\ Goto("matchread")
    /\ UNCHANGED <<k, matches, post_read, check_write, response_value,
                   response_count, response, request>>

\* The register is polled until its value matches or match_retry expires.
MatchRead(equal) ==
    /\ Ok("matchread")
    /\ \/ equal /\ Complete(FALSE, FALSE) /\ UNCHANGED response
       \/ ~equal /\ matches = 0 /\ Failed({"OK", "MISMATCH"})
       \/ /\ ~equal /\ matches > 0
          /\ matches' = matches - 1
          /\ retry' = retry_count
          /\ UNCHANGED <<op, k, post_read, check_write, response_value,
                         response_count, response, request>>

SetMatchMask ==
    /\ op = "setmask"
    /\ UNCHANGED <<portVars, cmd, target, ir, response>>
    /\ Complete(FALSE, check_write)

Write ==
    /\ Ok("write")
    /\ response' = response \o Stamp(cmd.reqs[k])
    /\ Complete(FALSE, TRUE)

LastFetch ==
    /\ Ok("lastfetch")
    /\ response' = Append(response, DataOf(op))
    /\ Goto("done")
    /\ UNCHANGED <<k, matches, post_read, check_write, response_value,
                   response_count, request>>

CheckLastWrite ==
    /\ Ok("check")
    /\ response_value' = {"OK"}
    /\ Goto("done")
    /\ UNCHANGED <<k, matches, post_read, check_write, response_count, response, request>>

\* The transfers of a block.
BlockPost ==
    /\ Ok("bpost")
    /\ Goto(BlockRead(cmd.reqs[1], 1, Len(cmd.reqs)))
    /\ UNCHANGED <<k, matches, post_read, check_write, response_value,
                   response_count, response, request>>

BlockItem(o) ==
    LET n == Len(cmd.reqs) IN
    /\ Ok(o)
    /\ response' = IF o = "bwrite" THEN response ELSE Append(response, DataOf(o))
    /\ response_count' = response_count + 1
    /\ response_value' = {"OK"}
    /\ k' = IF k = n THEN k ELSE k + 1
    /\ Goto(IF o = "bwrite" THEN (IF k < n THEN "bwrite" ELSE "check")
            ELSE IF k < n THEN BlockRead(cmd.reqs[1], k + 1, n) ELSE "done")
    /\ UNCHANGED <<matches, post_read, check_write, request>>

BlockStep == BlockPost \/ \E o \in {"bread", "blast", "bwrite"} : BlockItem(o)

Requests == UNION {[1..n -> Kinds] : n \in 0..MaxRequests}

Step ==
    \/ Wait
    \/ \E ack \in {"FAULT", "ERROR"} : Refuse(ack)
    \/ FetchPost \/ Fetch \/ Post \/ ReadDP
    \/ MatchPost \/ \E equal \in BOOLEAN : MatchRead(equal)
    \/ SetMatchMask \/ Write
    \/ LastFetch \/ CheckLastWrite
    \/ BlockStep

Command ==
    \E d \in 1..2 :
       \/ \E reqs \in Requests : DAP_Transfer(reqs, d)
       \/ \E r \in Kinds, n \in 0..MaxRequests : DAP_TransferBlock(r, n, d)

----------------------------------------------------------------------------
(* Properties *)

Finished == op = "done" /\ debug_port # "off"

\* The data word of request i, and those of the first n requests.
Word(i) == [k |-> i, ap |-> cmd.reqs[i].ap]
Reads(n) == {Word(i) : i \in {j \in 1..n : NormalRead(cmd.reqs[j])}}

\* Where the data words are between the timestamps.
DataAt == {i \in 1..Len(response) : response[i] # Timestamp}

\* However reads, polls, writes and mask writes are mixed, and whatever is
\* retried, the data words are those of the accesses made for the counted
\* reads, in request order; only the read still posted when a transfer fails
\* is missing (DAP.c:724-1250, the post_read protocol).
ReadsInOrder ==
    Finished =>
       LET words == {response[i] : i \in DataAt}
           expected == Reads(response_count)
       IN  /\ \A i, j \in DataAt : i < j => response[i].k < response[j].k
           /\ words \subseteq expected
           /\ \A missing \in expected \ words, w \in expected : w.k <= missing.k
           /\ response_value = {"OK"} =>
                 words = expected /\ response_count = Len(cmd.reqs)

\* A register is accessed at most once per read or write request, in order and
\* on the port the request names, even when data are fetched by chaining, by
\* RDBUFF or after WAIT: reading a FIFO or an auto-increment register twice
\* would lose data (DAP.c:764-935).
AccessedOnce ==
    /\ \A i, j \in 1..Len(issued) : i < j => issued[i].k < issued[j].k
    /\ \A i \in 1..Len(issued) : issued[i].ap = cmd.reqs[issued[i].k].ap

\* A command answered with OK never ends on a write whose outcome was not
\* asked for: writes are buffered by the target and a fault of the last one
\* shows only in the transfer after it (check_write, DAP.c:974-980).
WritesConfirmed == Finished /\ response_value = {"OK"} => ~unconfirmed

\* The upper half of the result, with which DAP_ExecuteCommand finds the next
\* command of a packet (DAP.c:1829), is the size of the command when all of its
\* requests were executed, also if the check of the last one fails, and when no
\* port is enabled.  After a request that failed it is not: see Skip.
ConsumesRequest ==
    (/\ op = "done" /\ cmd.kind = "transfer"
     /\ debug_port = "off" \/ (cmd.reqs # <<>> /\ response_count = Len(cmd.reqs)))
    => request = Size(cmd)

\* Retries and polls are bounded by retry_count and match_retry, so every
\* command is answered (the do-while loops of DAP.c).
Answered == op # "idle" ~> op = "idle"

=============================================================================
