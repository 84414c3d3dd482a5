-------------------------- MODULE ProxyConnections --------------------------
(***************************************************************************)
(* tcp_server_task with the two protocols it serves from a byte stream:    *)
(* WebSocket (WsStream) and USBIP (UsbipStream).  One connection at a time *)
(* is served to its end, its first four bytes choosing the protocol.       *)
(***************************************************************************)
EXTENDS WsStream, UsbipStream

proxyVars == <<wsVars, usbVars>>

Init == WsIdle /\ UsbIdle

\* A worker has the connection: accept is called again when it has returned.
Serving == status # "CLOSING" \/ usbip_state # "closed"

AcceptWebSocket ==
    \E h \in Requests : WsStart(h, "HANDSHAKE") /\ UsbStart("closed")

AcceptUsbip ==
    \E first \in {"WAIT_DEVLIST", "WAIT_IMPORT"} :
       UsbStart(first) /\ WsStart(NoRequest, "CLOSING")

Accept == ~Serving /\ (AcceptWebSocket \/ AcceptUsbip)

ServeWebSocket ==
    ((\E f \in Frames : Send(f)) \/ WsRecv \/ WsStep \/ PeerGone) /\ UNCHANGED usbVars
ServeUsbip == ((\E n \in 1..48 : UsbRecv(n)) \/ UsbStep \/ UsbGone) /\ UNCHANGED wsVars

Next == Accept \/ ServeWebSocket \/ ServeUsbip

\* The task runs on until it waits in recv; what a client sends, and when, is
\* up to the client.
Spec == Init /\ [][Next]_proxyVars /\ WF_wsVars(WsStep)

=============================================================================
