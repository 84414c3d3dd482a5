---------------------------- MODULE UsbipStream ----------------------------
(***************************************************************************)
(* The USBIP server (components/dap_proxy/usbip_server.c) and the control  *)
(* requests of the emulated device (components/USBIP/usb_handle.c): the    *)
(* stages of a connection, the messages taken from the TCP stream and the  *)
(* replies.  What happens to the bulk transfers of endpoint 1 after they   *)
(* are handed over is in DapPipeline.                                      *)
(***************************************************************************)
EXTENDS Integers, Sequences

CONSTANTS
    Urbs,           \* bound: the messages a host may send once attached
    Segments,       \* bound: what recv may return besides all it was asked for
    MaxReqNum       \* bound: dap_req_num

\* Only a submission to the device is followed by data.
ASSUME UsbipStreamAssumption ==
    /\ MaxReqNum \in Nat
    /\ \A u \in Urbs :
          /\ u.ep \in Nat /\ u.data \in Nat
          /\ u.data > 0 => u.command = "submit" /\ u.dir = "out"

VARIABLES
    usbip_state,    \* WAIT_DEVLIST, WAIT_IMPORT, WAIT_URB, or "closed"
    part,           \* what the recv loop reads
    sz,             \* bytes it still has to read
    urb,            \* the message the header is of
    order,          \* byte order of the header fields: "net" or "host"
    dap_req_num,
    reply,          \* what was sent for the last message
    owed            \* history: bytes of the host's message not yet received

usbVars == <<usbip_state, part, sz, urb, order, dap_req_num, reply, owed>>

NoUrb == [command |-> "none", dir |-> "in", ep |-> 0, data |-> 0, req |-> "none", wLength |-> 0]
NoReply == [sent |-> "none"]

UsbIdle ==
    /\ usbip_state = "closed" /\ part = "none" /\ sz = 0
    /\ urb = NoUrb /\ order = "net" /\ dap_req_num = 0
    /\ reply = NoReply /\ owed = 0

\* tcp_server_task has read four bytes and chosen the state by them.
UsbStart(first) ==
    /\ usbip_state' = first
    /\ part' = CASE first = "WAIT_DEVLIST" -> "devlist"
                 [] first = "WAIT_IMPORT"  -> "import"
                 [] OTHER                  -> "none"
    /\ sz' = CASE first = "WAIT_DEVLIST" -> 8 - 4
               [] first = "WAIT_IMPORT"  -> 40 - 4
               [] OTHER                  -> 0
    /\ owed' = sz'
    /\ urb' = NoUrb /\ order' = "net" /\ dap_req_num' = 0 /\ reply' = NoReply

\* One recv of a loop that reads exactly sz bytes.
UsbRecv(n) ==
    /\ usbip_state # "closed" /\ n \in 1..sz
    /\ n \in Segments \/ n = sz
    /\ sz' = sz - n
    /\ owed' = owed - n
    /\ UNCHANGED <<usbip_state, part, urb, order, dap_req_num, reply>>

UsbGone ==
    /\ usbip_state # "closed" /\ sz > 0
    /\ UsbStart("closed")

\* attach and what follows it in usbip_worker; the host sends OP_REQ_IMPORT
\* after the list, and messages with a header of 48 bytes after the import.
Stage1 ==
    /\ usbip_state # "closed" /\ sz = 0 /\ part \in {"devlist", "import"}
    /\ reply' = [sent |-> "stage1", command |-> part]
    /\ IF part = "devlist"
       THEN usbip_state' = "WAIT_IMPORT" /\ part' = "import" /\ sz' = 40 /\ owed' = 40
       ELSE usbip_state' = "WAIT_URB" /\ part' = "header" /\ sz' = 48 /\ owed' = 48
    /\ UNCHANGED <<urb, order, dap_req_num>>

----------------------------------------------------------------------------
(* Replies *)

Flip(o) == IF o = "net" THEN "host" ELSE "net"

\* send_stage2_submit packs the header in place, the fields it received with
\* the ones it sets; sent data bytes follow.
Submitted(o, announced, sent) ==
    [sent |-> "submit", order |-> Flip(o), announced |-> announced, bytes |-> sent]

\* Lengths of descriptors: device, configuration, interface and endpoints,
\* languages, a string of n characters, BOS, Microsoft OS 2.0.
DeviceLen == 18
ConfigLen == 9
InterfaceLen == 30
LangLen == 4
StringLen(n) == 2 + 2 * n
QualifierLen == 10
BosLen == 33
MsOsLen == 162

\* handleGetDescriptor: the bytes announced and sent.
GetDescriptor(u) ==
    CASE u.req = "device"    -> <<DeviceLen, DeviceLen>>
      [] u.req = "config" /\ u.wLength = ConfigLen -> <<u.wLength, ConfigLen>>
      [] u.req = "config" /\ u.wLength # ConfigLen -> <<ConfigLen + InterfaceLen, ConfigLen + InterfaceLen>>
      [] u.req = "lang"      -> <<LangLen, LangLen>>
      [] u.req = "string"    -> <<StringLen(4), StringLen(4)>>
      [] u.req = "qualifier" -> <<QualifierLen, QualifierLen>>
      [] u.req = "bos"       -> LET n == IF BosLen < u.wLength THEN BosLen ELSE u.wLength
                                IN  <<n, n>>
      [] OTHER               -> <<0, 0>>    \* string 0xee, interface, endpoint, other speed, power

\* handleUSBControlRequest: requests it does not know get no reply at all.
ControlReply(u, o) ==
    CASE u.req = "unknown" -> NoReply
      [] u.req \in {"set", "status", "idle"} -> Submitted(o, 0, 0)
      [] u.req = "msos"    -> Submitted(o, MsOsLen, MsOsLen)
      [] OTHER             -> Submitted(o, GetDescriptor(u)[1], GetDescriptor(u)[2])

----------------------------------------------------------------------------
(* usbip_urb_process *)

NextHeader == part' = "header" /\ sz' = 48 /\ owed' = 48

\* The header is complete: data follow an OUT submission.  The host's message
\* is u, which has data exactly then.
UrbHeader(u) ==
    LET may_has_data == u.command = "submit" /\ u.dir = "out" IN
    /\ usbip_state = "WAIT_URB" /\ part = "header" /\ sz = 0
    /\ u.ep = 1 => dap_req_num < MaxReqNum \/ u.dir = "in"
    /\ urb' = u
    /\ order' = "net"
    /\ part' = "data"
    /\ sz' = IF may_has_data THEN u.data ELSE 0
    /\ owed' = IF u.dir = "out" THEN u.data ELSE 0
    /\ reply' = NoReply
    /\ UNCHANGED <<usbip_state, dap_req_num>>

Dispatching == usbip_state = "WAIT_URB" /\ part = "data" /\ sz = 0

\* Endpoint 1: handed over, in network order, with the requests outstanding.
BulkIn ==
    /\ Dispatching /\ urb.command = "submit" /\ urb.ep = 1 /\ urb.dir = "in"
    /\ reply' = [sent |-> "bulk", order |-> order, dir |-> "in"]
    /\ dap_req_num' = IF dap_req_num > 0 THEN dap_req_num - 1 ELSE 0
    /\ NextHeader
    /\ UNCHANGED <<usbip_state, urb, order>>

BulkOut ==
    /\ Dispatching /\ urb.command = "submit" /\ urb.ep = 1 /\ urb.dir = "out"
    /\ reply' = [sent |-> "bulk", order |-> order, dir |-> "out"]
    /\ dap_req_num' = dap_req_num + 1
    /\ NextHeader
    /\ UNCHANGED <<usbip_state, urb, order>>

Control_NotUnpacked ==
    /\ Dispatching /\ urb.command = "submit" /\ urb.ep = 0
    /\ reply' = ControlReply(urb, order)
    /\ NextHeader
    /\ UNCHANGED <<usbip_state, urb, order, dap_req_num>>

Control ==
    /\ Dispatching /\ urb.command = "submit" /\ urb.ep = 0
    /\ order' = Flip(order)
    /\ reply' = ControlReply(urb, order')
    /\ NextHeader
    /\ UNCHANGED <<usbip_state, urb, dap_req_num>>

\* Endpoint 3, reserved for SWO, is answered without unpack.
Reserved ==
    /\ Dispatching /\ urb.command = "submit" /\ urb.ep > 1
    /\ reply' = Submitted(order, 0, 0)
    /\ NextHeader
    /\ UNCHANGED <<usbip_state, urb, order, dap_req_num>>

handle_unlink ==
    /\ Dispatching /\ urb.command = "unlink"
    /\ order' = Flip(order)
    /\ reply' = [sent |-> "unlink", order |-> Flip(order')]
    /\ NextHeader
    /\ UNCHANGED <<usbip_state, urb, dap_req_num>>

\* usbip_urb_process returns -1 and the connection is closed.
UnknownCommand ==
    /\ Dispatching /\ urb.command = "unknown"
    /\ UsbStart("closed")

UsbStep ==
    \/ Stage1
    \/ \E u \in Urbs : UrbHeader(u)
    \/ BulkIn \/ BulkOut \/ Control \/ Reserved \/ handle_unlink \/ UnknownCommand

----------------------------------------------------------------------------
(* Properties *)

\* The two ends agree on where messages and replies end and whose they are: the
\* server reads what the host sends of a message and no more, a reply carries
\* its header in network order (the host finds the request by the sequence
\* number in it) and is followed by as many bytes as it announces.  The
\* reserved endpoint is the exception (usbip_server.c:178-236, 347-412,
\* usb_handle.c:31-330).
UrbExchange ==
    usbip_state = "WAIT_URB" =>
       /\ sz = owed
       /\ reply.sent \in {"submit", "unlink"} /\ urb.ep <= 1 => reply.order = "net"
       /\ reply.sent = "submit" => reply.announced = reply.bytes
       /\ part = "header" /\ reply.sent = "none" => urb.req = "unknown"

=============================================================================
