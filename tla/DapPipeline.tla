---------------------------- MODULE DapPipeline ----------------------------
(***************************************************************************)
(* The path of a CMSIS-DAP command through the probe: tcp_server_task      *)
(* (priority 14) serves one connection at a time, DAP_Thread (priority 10) *)
(* executes the commands.  Over USBIP the two tasks exchange fixed-size    *)
(* packets through two ring buffers, dap_dataIN (host to probe) and        *)
(* dap_dataOUT (probe to host); elaphureLink and WebSocket connections     *)
(* free the rings and execute commands in the TCP task itself.  Every      *)
(* connection ends by asking DAP_Thread, through kRestartDAPHandle and a   *)
(* task notification, to delete the rings and create them again.           *)
(*                                                                         *)
(* A packet is <<session, n>>: the n-th command of a connection, and the   *)
(* response to it.  A step of the model is the code between two points at  *)
(* which the other task can see or change shared state.                    *)
(***************************************************************************)
EXTENDS Integers, Sequences

CONSTANTS
  BufferNum,     \* DAP_BUFFER_NUM: packets a ring holds
  PacketCount,   \* DAP_PACKET_COUNT: packets DAP_Info tells the host it may queue
  MaxSessions,   \* bound: connections accepted
  MaxCommands,   \* bound: DAP commands per connection
  MallocMayFail  \* whether xRingbufferCreate may return NULL

ASSUME DapPipelineAssumption ==
  /\ BufferNum \in Nat \ {0}
  /\ PacketCount \in Nat
  /\ MaxSessions \in Nat
  /\ MaxCommands \in Nat
  /\ MallocMayFail \in BOOLEAN

VARIABLES
  tcp,                \* where tcp_server_task is
  dap,                \* where DAP_Thread is
  kRestartDAPHandle,
  notify,             \* notification value of DAP_Thread (a counting semaphore)
  dap_dataIN,         \* the handle: "null", "live", or "freed" (deleted, not yet NULL)
  dap_dataOUT,
  ringIN,             \* packets in dap_dataIN
  ringOUT,            \* packets in dap_dataOUT
  mux,                \* holder of data_response_mux
  dap_respond,
  dap_req_num,
  resp,               \* DAPDataProcessed: the packet DAP_Thread works on
  fault,              \* a NULL or freed ring was used: abort or memory corruption
  session,            \* number of the current (or last) connection
  kind,               \* its protocol
  clean,              \* history: DAP_Thread was at rest when it was accepted
  sent,               \* history: commands the host has submitted in it
  got,                \* history: responses the host has received in it
  dropped,            \* history: responses removed by UNLINK in it
  unlinkAt            \* history: sent, when the last UNLINK found at most one
                      \* command of the connection without its response

tcpVars  == <<tcp, dap_req_num, session, kind>>
ringVars == <<dap_dataIN, dap_dataOUT, ringIN, ringOUT>>
hist     == <<clean, sent, got, dropped, unlinkAt>>
vars     == <<tcp, dap, kRestartDAPHandle, notify, ringVars, mux, dap_respond,
              dap_req_num, resp, fault, session, kind, hist>>

NoPacket == <<0, 0>>
Packet   == Nat \X Nat
Signal   == {"NO_SIGNAL", "RESET_HANDLE", "DELETE_HANDLE"}
Handle   == {"null", "live", "freed"}
Kind     == {"none", "usbip", "elaphureLink", "websocket", "unknown"}

TcpAt == {"accept", "recv",
          "in_call", "in_blocked", "in_notify",             \* handle_dap_data_request
          "fr_call", "fr_blocked", "fr_dec", "fr_return",   \* fast_reply
          "ul_call", "ul_wait", "ul_dec", "ul_return",      \* handle_dap_unlink
          "el_flag", "free", "free_null", "execute",        \* elaphureLink, WebSocket
          "cl_flag", "cl_notify", "hung"}

DapAt == {"check", "free", "free_null", "signal", "malloc", "no_signal", "wait", "rx",
          "process", "out_call", "out_blocked", "inc", "dead", "hung"}

(* An item that was received but not returned still takes up its place.    *)
HeldIN_UntilSent == IF dap \in {"process", "out_call", "out_blocked"} THEN 1 ELSE 0
HeldIN == IF dap = "process" THEN 1 ELSE 0
HeldOUT == IF tcp \in {"fr_dec", "fr_return", "ul_dec", "ul_return"} THEN 1 ELSE 0
RoomIN_OneTooMany == Len(ringIN) + HeldIN <= BufferNum
RoomIN == Len(ringIN) + HeldIN < BufferNum
RoomOUT == Len(ringOUT) + HeldOUT < BufferNum

(* What DAP_Thread looks like when it has nothing left to do.              *)
AtRest ==
  /\ dap = "wait" /\ notify = 0 /\ kRestartDAPHandle = "NO_SIGNAL" /\ mux = "none"
  /\ dap_dataIN = "live" /\ dap_dataOUT = "live"
  /\ ringIN = <<>> /\ ringOUT = <<>>

Init ==
  /\ tcp = "accept" /\ dap = "check" /\ kRestartDAPHandle = "NO_SIGNAL" /\ notify = 0
  /\ dap_dataIN = "live" /\ dap_dataOUT = "live" /\ ringIN = <<>> /\ ringOUT = <<>>
  /\ mux = "none" /\ dap_respond = 0 /\ dap_req_num = 0 /\ resp = NoPacket
  /\ fault = FALSE /\ session = 0 /\ kind = "none"
  /\ clean = TRUE /\ sent = 0 /\ got = <<>> /\ dropped = 0 /\ unlinkAt = 0

(***************************************************************************)
(* Pieces the two tasks share.                                             *)
(***************************************************************************)

(* The caller stops in the middle of a ring operation it can never finish. *)
Crash == fault' = TRUE

(* free_dap_ringbuf, up to vRingbufferDelete: whoever waits without a      *)
(* timeout on a deleted ring is never woken; whoever holds one of its      *)
(* items, or waits on it with a timeout, goes on to touch freed memory.    *)
DeleteRings(holder) ==
  LET Deleted(h) == IF h = "null" THEN "null" ELSE "freed"
      other == IF holder = "dap" THEN tcp ELSE dap
  IN  /\ mux = "none"
      /\ mux' = holder
      /\ dap_dataIN' = Deleted(dap_dataIN)
      /\ dap_dataOUT' = Deleted(dap_dataOUT)
      /\ ringIN' = <<>>
      /\ ringOUT' = <<>>
      /\ fault' = (fault \/ other \in {"fr_dec", "fr_return", "ul_wait", "ul_dec",
                                       "ul_return", "process"})

(* The rest of free_dap_ringbuf: both handles become NULL, the mutex is    *)
(* released.                                                               *)
ForgetRings ==
  /\ dap_dataIN' = "null" /\ dap_dataOUT' = "null"
  /\ mux' = "none"
  /\ UNCHANGED <<ringIN, ringOUT>>

(***************************************************************************)
(* tcp_server_task.                                                        *)
(***************************************************************************)

(* accept, the four header bytes and the handshake of the protocol they    *)
(* announce.  An unknown header, or a peer that leaves before or during    *)
(* the handshake, goes straight to cleanup.                                *)
Accept(k) ==
  /\ ~fault /\ tcp = "accept" /\ session < MaxSessions
  /\ session' = session + 1 /\ kind' = k
  /\ tcp' = CASE k = "usbip"        -> "recv"
              [] k = "elaphureLink" -> "el_flag"
              [] k = "websocket"    -> "free"
              [] k = "unknown"      -> "cl_flag"
  /\ dap_req_num' = 0
  /\ clean' = AtRest /\ sent' = 0 /\ got' = <<>> /\ dropped' = 0 /\ unlinkAt' = 0
  /\ UNCHANGED <<dap, kRestartDAPHandle, notify, ringVars, mux, dap_respond, resp, fault>>

(* cleanup: close the socket, flag the restart ...                         *)
CleanupFlag ==
  /\ ~fault /\ tcp = "cl_flag"
  /\ tcp' = "cl_notify"
  /\ kRestartDAPHandle' = "RESET_HANDLE"
  /\ UNCHANGED <<dap, notify, ringVars, mux, dap_respond, dap_req_num, resp, fault,
                 session, kind, hist>>

(* xTaskNotifyGive: a deleted DAP_Thread has no task control block left.   *)
GiveNotification ==
  /\ notify' = notify + 1
  /\ fault' = (fault \/ dap = "dead")

CleanupNotify_Forgotten ==
  /\ ~fault /\ tcp = "cl_notify"
  /\ tcp' = "accept"
  /\ UNCHANGED <<dap, kRestartDAPHandle, notify, ringVars, mux, dap_respond, dap_req_num,
                 resp, fault, session, kind, hist>>

(* ... and wake DAP_Thread.                                                *)
CleanupNotify ==
  /\ ~fault /\ tcp = "cl_notify"
  /\ tcp' = "accept"
  /\ GiveNotification
  /\ UNCHANGED <<dap, kRestartDAPHandle, ringVars, mux, dap_respond, dap_req_num, resp,
                 session, kind, hist>>

(* The peer closes the connection, or sends what ends the worker's loop.   *)
Leave ==
  /\ ~fault /\ tcp \in {"recv", "execute"}
  /\ tcp' = "cl_flag"
  /\ UNCHANGED <<dap, kRestartDAPHandle, notify, ringVars, mux, dap_respond, dap_req_num,
                 resp, fault, session, kind, hist>>

(* usbip_urb_process, endpoint 1 OUT: the URB is acknowledged at once and  *)
(* counted, then its packet goes to handle_dap_data_request.               *)
UrbOut ==
  /\ ~fault /\ tcp = "recv" /\ sent < MaxCommands
  /\ tcp' = "in_call"
  /\ dap_req_num' = dap_req_num + 1
  /\ sent' = sent + 1
  /\ UNCHANGED <<dap, kRestartDAPHandle, notify, ringVars, mux, dap_respond, resp, fault,
                 session, kind, clean, got, dropped, unlinkAt>>

(* xRingbufferSend(dap_dataIN_handle, ..., portMAX_DELAY).                 *)
RequestSend ==
  /\ ~fault
  /\ \/ tcp = "in_call" /\ dap_dataIN = "live"
     \/ tcp = "in_blocked"
  /\ RoomIN
  /\ tcp' = "in_notify"
  /\ ringIN' = Append(ringIN, <<session, sent>>)
  /\ UNCHANGED <<dap, kRestartDAPHandle, notify, dap_dataIN, dap_dataOUT, ringOUT, mux,
                 dap_respond, dap_req_num, resp, fault, session, kind, hist>>

RequestBlock_DropsPacket ==
  /\ ~fault /\ tcp = "in_call" /\ dap_dataIN = "live" /\ ~RoomIN
  /\ tcp' = "in_notify"
  /\ UNCHANGED <<dap, kRestartDAPHandle, notify, ringVars, mux, dap_respond, dap_req_num,
                 resp, fault, session, kind, hist>>

RequestBlock ==
  /\ ~fault /\ tcp = "in_call" /\ dap_dataIN = "live" /\ ~RoomIN
  /\ tcp' = "in_blocked"
  /\ UNCHANGED <<dap, kRestartDAPHandle, notify, ringVars, mux, dap_respond, dap_req_num,
                 resp, fault, session, kind, hist>>

RequestNotify_NotWhenBusy ==
  /\ ~fault /\ tcp = "in_notify"
  /\ tcp' = "recv"
  /\ notify' = IF dap = "wait" THEN notify + 1 ELSE notify
  /\ UNCHANGED <<dap, kRestartDAPHandle, ringVars, mux, dap_respond, dap_req_num, resp, fault,
                 session, kind, hist>>

RequestNotify ==
  /\ ~fault /\ tcp = "in_notify"
  /\ tcp' = "recv"
  /\ GiveNotification
  /\ UNCHANGED <<dap, kRestartDAPHandle, ringVars, mux, dap_respond, dap_req_num, resp,
                 session, kind, hist>>

(* usbip_urb_process, endpoint 1 IN, through fast_reply: with no command   *)
(* outstanding the URB gets an empty reply and nothing else happens;       *)
(* otherwise the TCP task waits for a response.                            *)
UrbIn ==
  /\ ~fault /\ tcp = "recv" /\ dap_req_num > 0
  /\ tcp' = "fr_call"
  /\ UNCHANGED <<dap, kRestartDAPHandle, notify, ringVars, mux, dap_respond, dap_req_num,
                 resp, fault, session, kind, hist>>

(* xRingbufferReceiveUpTo(dap_dataOUT_handle, ..., portMAX_DELAY), and the *)
(* response goes to the host.                                              *)
ReplyReceive ==
  /\ ~fault
  /\ \/ tcp = "fr_call" /\ dap_dataOUT = "live"
     \/ tcp = "fr_blocked"
  /\ ringOUT # <<>>
  /\ tcp' = "fr_dec"
  /\ ringOUT' = Tail(ringOUT)
  /\ got' = Append(got, Head(ringOUT))
  /\ UNCHANGED <<dap, kRestartDAPHandle, notify, dap_dataIN, dap_dataOUT, ringIN, mux,
                 dap_respond, dap_req_num, resp, fault, session, kind, clean, sent,
                 dropped, unlinkAt>>

ReplyBlock ==
  /\ ~fault /\ tcp = "fr_call" /\ dap_dataOUT = "live" /\ ringOUT = <<>>
  /\ tcp' = "fr_blocked"
  /\ UNCHANGED <<dap, kRestartDAPHandle, notify, ringVars, mux, dap_respond, dap_req_num,
                 resp, fault, session, kind, hist>>

(* --dap_respond under data_response_mux, in fast_reply and in             *)
(* handle_dap_unlink.                                                      *)
CountDown ==
  /\ ~fault /\ tcp \in {"fr_dec", "ul_dec"} /\ mux = "none"
  /\ tcp' = IF tcp = "fr_dec" THEN "fr_return" ELSE "ul_return"
  /\ dap_respond' = dap_respond - 1
  /\ UNCHANGED <<dap, kRestartDAPHandle, notify, ringVars, mux, dap_req_num, resp, fault,
                 session, kind, hist>>

(* vRingbufferReturnItem; back in usbip_urb_process, dap_req_num--.        *)
ReplyDone ==
  /\ ~fault /\ tcp = "fr_return"
  /\ tcp' = "recv"
  /\ dap_req_num' = dap_req_num - 1
  /\ UNCHANGED <<dap, kRestartDAPHandle, notify, ringVars, mux, dap_respond, resp, fault,
                 session, kind, hist>>

(* USBIP_CMD_UNLINK: handle_dap_unlink looks at dap_respond without the    *)
(* mutex, and only if it is positive takes a response out of the ring.     *)
Unlink ==
  /\ ~fault /\ tcp = "recv"
  /\ tcp' = IF dap_respond > 0 THEN "ul_call" ELSE "recv"
  /\ unlinkAt' = IF sent <= Len(got) + dropped + 1 THEN sent ELSE 0
  /\ UNCHANGED <<dap, kRestartDAPHandle, notify, ringVars, mux, dap_respond, dap_req_num,
                 resp, fault, session, kind, clean, sent, got, dropped>>

(* xRingbufferReceiveUpTo(dap_dataOUT_handle, ..., 10 ms) finds a packet   *)
UnlinkReceive ==
  /\ ~fault
  /\ \/ tcp = "ul_call" /\ dap_dataOUT = "live"
     \/ tcp = "ul_wait"
  /\ ringOUT # <<>>
  /\ tcp' = "ul_dec"
  /\ ringOUT' = Tail(ringOUT)
  /\ dropped' = dropped + 1
  /\ UNCHANGED <<dap, kRestartDAPHandle, notify, dap_dataIN, dap_dataOUT, ringIN, mux,
                 dap_respond, dap_req_num, resp, fault, session, kind, clean, sent, got,
                 unlinkAt>>

UnlinkWait ==
  /\ ~fault /\ tcp = "ul_call" /\ dap_dataOUT = "live" /\ ringOUT = <<>>
  /\ tcp' = "ul_wait"
  /\ UNCHANGED <<dap, kRestartDAPHandle, notify, ringVars, mux, dap_respond, dap_req_num,
                 resp, fault, session, kind, hist>>

(* ... or times out, or has returned the item: send_stage2_unlink.         *)
UnlinkDone ==
  /\ ~fault
  /\ \/ tcp = "ul_wait" /\ ringOUT = <<>>
     \/ tcp = "ul_return"
  /\ tcp' = "recv"
  /\ UNCHANGED <<dap, kRestartDAPHandle, notify, ringVars, mux, dap_respond, dap_req_num,
                 resp, fault, session, kind, hist>>

(* A ring function is called with a handle that is NULL or freed.          *)
TcpCrash ==
  /\ ~fault
  /\ \/ tcp = "in_call" /\ dap_dataIN # "live"
     \/ tcp \in {"fr_call", "ul_call"} /\ dap_dataOUT # "live"
  /\ Crash
  /\ UNCHANGED <<tcpVars, dap, kRestartDAPHandle, notify, ringVars, mux, dap_respond, resp,
                 hist>>

(* el_dap_work after the handshake: the flag, without a notification.      *)
ElFlag ==
  /\ ~fault /\ tcp = "el_flag"
  /\ tcp' = "free"
  /\ kRestartDAPHandle' = "DELETE_HANDLE"
  /\ UNCHANGED <<dap, notify, ringVars, mux, dap_respond, dap_req_num, resp, fault,
                 session, kind, hist>>

(* el_process_buffer_malloc, websocket_buffer_malloc: free_dap_ringbuf in  *)
(* the TCP task.                                                           *)
TcpFree ==
  /\ ~fault /\ tcp = "free"
  /\ DeleteRings("tcp")
  /\ tcp' = "free_null"
  /\ dap' = IF dap = "out_blocked" THEN "hung" ELSE dap
  /\ UNCHANGED <<kRestartDAPHandle, notify, dap_respond, dap_req_num, resp, session, kind,
                 hist>>

TcpFreeNull ==
  /\ ~fault /\ tcp = "free_null"
  /\ ForgetRings
  /\ tcp' = "execute"
  /\ UNCHANGED <<dap, kRestartDAPHandle, notify, dap_respond, dap_req_num, resp, fault,
                 session, kind, hist>>

(* el_dap_data_process, co_websocket_process_dap: DAP_ExecuteCommand in    *)
(* the TCP task, and its response goes straight back.                      *)
Execute ==
  /\ ~fault /\ tcp = "execute" /\ sent < MaxCommands
  /\ sent' = sent + 1
  /\ got' = Append(got, <<session, sent + 1>>)
  /\ UNCHANGED <<tcpVars, dap, kRestartDAPHandle, notify, ringVars, mux, dap_respond, resp,
                 fault, clean, dropped, unlinkAt>>

(***************************************************************************)
(* DAP_Thread.                                                             *)
(***************************************************************************)

(* The head of the inner loop.                                             *)
DapCheck ==
  /\ ~fault /\ dap = "check"
  /\ dap' = IF kRestartDAPHandle = "NO_SIGNAL" THEN "wait" ELSE "free"
  /\ UNCHANGED <<tcpVars, kRestartDAPHandle, notify, ringVars, mux, dap_respond, resp,
                 fault, hist>>

DapFree ==
  /\ ~fault /\ dap = "free"
  /\ DeleteRings("dap")
  /\ dap' = "free_null"
  /\ tcp' = IF tcp \in {"in_blocked", "fr_blocked"} THEN "hung" ELSE tcp
  /\ UNCHANGED <<kRestartDAPHandle, notify, dap_respond, dap_req_num, resp, session, kind,
                 hist>>

DapFreeNull ==
  /\ ~fault /\ dap = "free_null"
  /\ ForgetRings
  /\ dap' = "signal"
  /\ UNCHANGED <<tcpVars, kRestartDAPHandle, notify, dap_respond, resp, fault, hist>>

(* kRestartDAPHandle is read a second time.                                *)
DapSignal ==
  /\ ~fault /\ dap = "signal"
  /\ dap' = IF kRestartDAPHandle = "RESET_HANDLE" THEN "malloc" ELSE "no_signal"
  /\ UNCHANGED <<tcpVars, kRestartDAPHandle, notify, ringVars, mux, dap_respond, resp,
                 fault, hist>>

(* malloc_dap_ringbuf.  Only dap_dataIN_handle is tested afterwards: the   *)
(* thread deletes itself when that ring could not be created.              *)
DapMalloc ==
  /\ ~fault /\ dap = "malloc" /\ mux = "none"
  /\ \E in, out \in IF MallocMayFail THEN {"live", "null"} ELSE {"live"} :
       /\ dap_dataIN' = IF dap_dataIN = "null" THEN in ELSE dap_dataIN
       /\ dap_dataOUT' = IF dap_dataOUT = "null" THEN out ELSE dap_dataOUT
  /\ dap' = IF dap_dataIN' = "null" THEN "dead" ELSE "no_signal"
  /\ UNCHANGED <<tcpVars, kRestartDAPHandle, notify, ringIN, ringOUT, mux, dap_respond,
                 resp, fault, hist>>

DapNoSignal ==
  /\ ~fault /\ dap = "no_signal"
  /\ dap' = "wait"
  /\ kRestartDAPHandle' = "NO_SIGNAL"
  /\ UNCHANGED <<tcpVars, notify, ringVars, mux, dap_respond, resp, fault, hist>>

(* ulTaskNotifyTake(pdFALSE, portMAX_DELAY) takes one off the count.       *)
NotifyTake_ClearsCount == notify' = 0
NotifyTake == notify' = notify - 1

(* DAP_Thread is woken; then the NULL test.                                *)
DapTake_NoNullTest ==
  /\ ~fault /\ dap = "wait" /\ notify > 0
  /\ NotifyTake
  /\ dap' = "rx"
  /\ UNCHANGED <<tcpVars, kRestartDAPHandle, ringVars, mux, dap_respond, resp, fault, hist>>

DapTake ==
  /\ ~fault /\ dap = "wait" /\ notify > 0
  /\ NotifyTake
  /\ dap' = IF "null" \in {dap_dataIN, dap_dataOUT} THEN "check" ELSE "rx"
  /\ UNCHANGED <<tcpVars, kRestartDAPHandle, ringVars, mux, dap_respond, resp, fault, hist>>

DapReceive_NotReturned ==
  /\ ~fault /\ dap = "rx" /\ dap_dataIN = "live" /\ ringIN # <<>>
  /\ dap' = "process"
  /\ resp' = Head(ringIN)
  /\ UNCHANGED <<tcpVars, kRestartDAPHandle, notify, ringVars, mux, dap_respond, fault, hist>>

(* xRingbufferReceiveUpTo(dap_dataIN_handle, ..., 1 ms) finds a packet     *)
DapReceive ==
  /\ ~fault /\ dap = "rx" /\ dap_dataIN = "live" /\ ringIN # <<>>
  /\ dap' = "process"
  /\ resp' = Head(ringIN)
  /\ ringIN' = Tail(ringIN)
  /\ UNCHANGED <<tcpVars, kRestartDAPHandle, notify, dap_dataIN, dap_dataOUT, ringOUT, mux,
                 dap_respond, fault, hist>>

(* ... or times out (packetSize is 0: break).                              *)
DapReceiveNothing ==
  /\ ~fault /\ dap = "rx" /\ dap_dataIN = "live" /\ ringIN = <<>>
  /\ dap' = "check"
  /\ UNCHANGED <<tcpVars, kRestartDAPHandle, notify, ringVars, mux, dap_respond, resp,
                 fault, hist>>

(* DAP_ProcessCommand has filled DAPDataProcessed; vRingbufferReturnItem.  *)
DapProcess ==
  /\ ~fault /\ dap = "process"
  /\ dap' = "out_call"
  /\ UNCHANGED <<tcpVars, kRestartDAPHandle, notify, ringVars, mux, dap_respond, resp,
                 fault, hist>>

(* xRingbufferSend(dap_dataOUT_handle, ..., portMAX_DELAY).                *)
DapSend ==
  /\ ~fault
  /\ \/ dap = "out_call" /\ dap_dataOUT = "live"
     \/ dap = "out_blocked"
  /\ RoomOUT
  /\ dap' = "inc"
  /\ ringOUT' = Append(ringOUT, resp)
  /\ UNCHANGED <<tcpVars, kRestartDAPHandle, notify, dap_dataIN, dap_dataOUT, ringIN, mux,
                 dap_respond, resp, fault, hist>>

DapBlock ==
  /\ ~fault /\ dap = "out_call" /\ dap_dataOUT = "live" /\ ~RoomOUT
  /\ dap' = "out_blocked"
  /\ UNCHANGED <<tcpVars, kRestartDAPHandle, notify, ringVars, mux, dap_respond, resp,
                 fault, hist>>

DapCount_LostUpdate ==
  /\ ~fault /\ dap = "inc"
  /\ dap' = "check"
  /\ dap_respond' = IF tcp \in {"fr_dec", "ul_dec"} THEN dap_respond ELSE dap_respond + 1
  /\ UNCHANGED <<tcpVars, kRestartDAPHandle, notify, ringVars, mux, resp, fault, hist>>

(* ++dap_respond under data_response_mux, after the response is visible.   *)
DapCount ==
  /\ ~fault /\ dap = "inc" /\ mux = "none"
  /\ dap' = "check"
  /\ dap_respond' = dap_respond + 1
  /\ UNCHANGED <<tcpVars, kRestartDAPHandle, notify, ringVars, mux, resp, fault, hist>>

DapCrash ==
  /\ ~fault
  /\ \/ dap = "rx" /\ dap_dataIN # "live"
     \/ dap = "out_call" /\ dap_dataOUT # "live"
  /\ Crash
  /\ UNCHANGED <<tcpVars, dap, kRestartDAPHandle, notify, ringVars, mux, dap_respond, resp,
                 hist>>

-----------------------------------------------------------------------------

(* Steps the TCP task takes by itself; the rest of its steps wait for what *)
(* the peer sends.                                                         *)
TcpStep ==
  \/ CleanupFlag \/ CleanupNotify
  \/ RequestSend \/ RequestBlock \/ RequestNotify
  \/ ReplyReceive \/ ReplyBlock \/ CountDown \/ ReplyDone
  \/ UnlinkReceive \/ UnlinkWait \/ UnlinkDone
  \/ TcpCrash \/ ElFlag \/ TcpFree \/ TcpFreeNull

Peer ==
  \/ \E k \in Kind \ {"none"} : Accept(k)
  \/ Leave \/ UrbOut \/ UrbIn \/ Unlink \/ Execute

DapStep ==
  \/ DapCheck \/ DapFree \/ DapFreeNull \/ DapSignal \/ DapMalloc \/ DapNoSignal
  \/ DapTake \/ DapReceive \/ DapReceiveNothing \/ DapProcess
  \/ DapSend \/ DapBlock \/ DapCount \/ DapCrash

Next == TcpStep \/ Peer \/ DapStep

Spec == Init /\ [][Next]_vars

(* Both tasks are ready whenever a step of theirs is enabled, and          *)
(* FreeRTOS runs every ready task whose superiors block: the TCP task      *)
(* blocks on the network and never spins.  Nothing makes a peer act.       *)
FairSpec == Spec /\ WF_vars(TcpStep) /\ WF_vars(DapStep)

-----------------------------------------------------------------------------
(* Properties.                                                             *)

(* Every variable has its type and neither ring holds more packets, the    *)
(* received but not yet returned ones included, than xRingbufferCreate     *)
(* made room for.                                                          *)
TypeOK ==
  /\ tcp \in TcpAt /\ dap \in DapAt
  /\ kRestartDAPHandle \in Signal /\ notify \in Nat
  /\ dap_dataIN \in Handle /\ dap_dataOUT \in Handle
  /\ ringIN \in Seq(Packet) /\ ringOUT \in Seq(Packet)
  /\ Len(ringIN) + HeldIN <= BufferNum /\ Len(ringOUT) + HeldOUT <= BufferNum
  /\ mux \in {"none", "tcp", "dap"} /\ dap_respond \in Int /\ dap_req_num \in Nat
  /\ resp \in Packet /\ fault \in BOOLEAN /\ session \in Nat /\ kind \in Kind
  /\ clean \in BOOLEAN /\ sent \in Nat /\ got \in Seq(Packet)
  /\ dropped \in Nat /\ unlinkAt \in Nat

(* Notifications that are about to be given, and just taken.               *)
Giving == IF tcp = "in_notify" THEN 1 ELSE 0
Taken  == IF dap = "rx" THEN 1 ELSE 0

(* No wake-up is lost: for every packet in dap_dataIN a notification is    *)
(* still counted, about to be given by handle_dap_data_request, or already *)
(* taken by DAP_Thread for its next receive.  (A ring set whose OUT half   *)
(* could not be created swallows notifications: DAP_Thread tests           *)
(* dap_dataIN_handle twice and never dap_dataOUT_handle.)                  *)
NoLostWakeup == dap_dataOUT # "null" => Len(ringIN) <= notify + Giving + Taken

(* A response that is in the ring and not counted, and one that is still   *)
(* counted and no longer in the ring.                                      *)
Uncounted == IF dap = "inc" THEN 1 ELSE 0
Counted   == IF tcp \in {"fr_dec", "ul_dec"} THEN 1 ELSE 0

(* dap_respond never understates the responses that wait in dap_dataOUT,   *)
(* except by the one DAP_Thread has queued and not yet counted: at any     *)
(* other moment a non-empty ring is visible to handle_dap_unlink, across   *)
(* ring restarts, which do not touch the counter.                          *)
RespondCoversRing ==
  Len(ringOUT) + Counted <= dap_respond + Uncounted

Serving ==
  /\ clean /\ kind = "usbip"
  /\ tcp \notin {"accept", "cl_flag", "cl_notify"}

(* Where the commands of a connection are: still with the TCP task, in a   *)
(* ring, or with DAP_Thread.                                               *)
WithTcp == IF tcp \in {"in_call", "in_blocked"} THEN 1 ELSE 0
WithDap == IF dap \in {"process", "out_call", "out_blocked"} THEN 1 ELSE 0

(* fast_reply has sent the response that usbip_urb_process still counts.   *)
Replying == IF tcp \in {"fr_dec", "fr_return"} THEN 1 ELSE 0

(* While a USBIP connection that found DAP_Thread at rest is served, every *)
(* submitted command is answered, dropped by UNLINK, or still on its way,  *)
(* and dap_req_num counts what the host has not been answered: so an IN    *)
(* URB that waits in fast_reply without an UNLINK before it waits for a    *)
(* response that is coming.                                                *)
NothingLost ==
  Serving =>
    /\ sent = Len(got) + dropped + Len(ringOUT) + WithDap + Len(ringIN) + WithTcp
    /\ sent = Len(got) + dap_req_num - Replying

(* The TCP task waits for room in one ring and DAP_Thread in the other.    *)
Wedged ==
  /\ tcp = "in_blocked" /\ ~RoomIN
  /\ dap = "out_blocked" /\ ~RoomOUT

(* In such a connection the two tasks cannot block each other before the   *)
(* host has 2 * DAP_BUFFER_NUM + 2 commands without an answer.             *)
WedgeNeedsOverload ==
  Serving /\ Wedged => sent - Len(got) >= 2 * BufferNum + 2

(* A connection accepted while DAP_Thread is at rest never makes a task    *)
(* use a deleted ring or wait on one, until the next connection comes,     *)
(* whatever its protocol and however it ends.  The one fault left is a     *)
(* notification to a DAP_Thread that deleted itself for want of memory.    *)
CleanConnectionIsSafe ==
  clean => tcp # "hung" /\ dap # "hung" /\ (fault => dap = "dead")

(* After such a connection, once DAP_Thread waits and no notification is   *)
(* left, it has restarted: the flag is cleared and the rings are empty     *)
(* and, unless one could not be created, alive.                            *)
CleanConnectionRestarts ==
  clean /\ tcp = "accept" /\ dap = "wait" /\ notify = 0 =>
    /\ kRestartDAPHandle = "NO_SIGNAL"
    /\ ringIN = <<>> /\ ringOUT = <<>>
    /\ MallocMayFail \/ AtRest

(* What the TCP task promises a host, as a FIFO of its commands.           *)
Pending ==
  ringOUT \o (IF WithDap = 1 THEN <<resp>> ELSE <<>>)
          \o ringIN \o (IF WithTcp = 1 THEN <<<<session, sent>>>> ELSE <<>>)

(* The numbers of packets, without the connection they belong to.          *)
Numbers(packets) == [i \in 1 .. Len(packets) |-> packets[i][2]]

Service == INSTANCE DapService WITH
  open      <- Serving,
  submitted <- IF Serving THEN sent ELSE 0,
  pending   <- IF Serving THEN Numbers(Pending) ELSE <<>>,
  answered  <- IF Serving THEN Numbers(got) ELSE <<>>

(* A USBIP connection that found DAP_Thread at rest is the FIFO service of *)
(* DapService: rings, hands and counters together lose, duplicate and      *)
(* reorder nothing, and UNLINK removes the oldest response only.           *)
ImplementsService == Service!Spec

-----------------------------------------------------------------------------
(* Liveness, under FairSpec.                                               *)

(* An IN URB of such a connection that waits for a response gets it, as    *)
(* long as no UNLINK has taken a response that dap_req_num still counts.   *)
ReplyDelivered ==
  (Serving /\ dropped = 0 /\ tcp \in {"fr_call", "fr_blocked"}) ~> (tcp = "recv")

(* A connection that leaves at most DAP_BUFFER_NUM responses unread leaves *)
(* a probe that comes to rest, unless the next connection comes first.     *)
ComesToRest ==
  (clean /\ tcp = "accept" /\ sent - Len(got) - dropped <= BufferNum)
    ~> (AtRest \/ tcp # "accept")

-----------------------------------------------------------------------------
(* What the comments of the code say.                                      *)

(* DAP_config.h, on DAP_PACKET_COUNT: "Specifies number of packets         *)
(* buffered".  A host that keeps within it never blocks the probe.         *)
PacketCountIsBuffered ==
  Serving /\ sent - Len(got) <= PacketCount => ~Wedged

(* handle_dap_unlink: "This code is a compromise for eliminating the       *)
(* lagging response caused by UNLINK", assuming "that there is at most one *)
(* piece of data that has not yet been returned".  Under that assumption,  *)
(* once a new command was submitted after an UNLINK, no IN URB gets the    *)
(* response to a command submitted before it.                              *)
UnlinkEliminatesLagging ==
  [][Serving /\ Len(got') > Len(got) /\ sent > unlinkAt
       => got'[Len(got')][2] > unlinkAt]_vars
=============================================================================
