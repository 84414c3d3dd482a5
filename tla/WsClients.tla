------------------------------ MODULE WsClients ------------------------------
(***************************************************************************)
(* The list of WebSocket clients of the web server                         *)
(* (web_server/uri_modules/uri_ws.c): the HTTP server's task adds a client *)
(* when it opens a WebSocket and removes it on a CLOSE frame, and the      *)
(* heartbeat task sends to every client and removes those it cannot send   *)
(* to.  Neither takes a lock for the list.                                 *)
(*                                                                         *)
(* A client that goes away without a CLOSE frame stays listed, and its     *)
(* file descriptor may be used by another one before the next heartbeat.   *)
(* clients[] is left out: GET_FD_IDX is one-to-one and there is one hd.    *)
(***************************************************************************)
EXTENDS Integers, FiniteSets

CONSTANTS
    Fds,            \* bound: sockets of the server
    MaxSockets      \* CONFIG_LWIP_MAX_SOCKETS, the size of valid_fd

ASSUME WsClientsAssumption ==
    MaxSockets \in Nat \ {0} /\ "junk" \notin Fds /\ "none" \notin Fds

VARIABLES
    session,        \* a socket: "closed", "http" or "ws"
    closing,        \* httpd_sess_trigger_close: sockets the server is to close
    valid_fd, client_count,
    task,           \* of "httpd" and "heartbeat": where it is, and its locals
    overlapped,     \* history: one task began to change the list while the
                    \* other was changing it
    unclosed        \* history: open sockets whose close was asked for and not queued

list == <<valid_fd, client_count>>
vars == <<session, closing, list, task, overlapped, unclosed>>

Tasks == {"httpd", "heartbeat"}
Idle == [pc |-> "idle", fd |-> "none", k |-> 0, n |-> 0, i |-> 0]

Init ==
    /\ session = [fd \in Fds |-> "closed"]
    /\ closing = {}
    /\ valid_fd = [i \in 0..MaxSockets-1 |-> "junk"] /\ client_count = 0
    /\ task = [t \in Tasks |-> Idle]
    /\ overlapped = FALSE /\ unclosed = {}

At(t, pc) == task[t].pc = pc
Go(t, pc) == task' = [task EXCEPT ![t].pc = pc]

\* Bytes next to valid_fd are written when client_count is -1.
Store(i, fd) == [j \in DOMAIN valid_fd |-> IF j = i THEN fd ELSE valid_fd[j]]
Load(i) == IF i \in DOMAIN valid_fd THEN valid_fd[i] ELSE "junk"

Changing(t) == task[t].pc \in {"move", "uncount", "count"}
Begin(t) == overlapped' = (overlapped \/ \E u \in Tasks \ {t} : Changing(u))

----------------------------------------------------------------------------
(* The list *)

\* The server closes the session of fd.
Closes(fd) ==
    /\ session' = [session EXCEPT ![fd] = "closed"]
    /\ closing' = closing \ {fd}
    /\ unclosed' = unclosed \ {fd}

\* ws_add_fd.  A client that finds the list full has its session closed.
AddFull ==
    /\ At("httpd", "add") /\ client_count >= MaxSockets
    /\ Closes(task["httpd"].fd)
    /\ task' = [task EXCEPT !["httpd"] = Idle]
    /\ UNCHANGED <<list, overlapped>>

AddStore ==
    /\ At("httpd", "add") /\ client_count < MaxSockets
    /\ valid_fd' = Store(client_count, task["httpd"].fd)
    /\ task' = [task EXCEPT !["httpd"].pc = "count", !["httpd"].n = client_count]
    /\ Begin("httpd")
    /\ UNCHANGED <<session, closing, client_count, unclosed>>

AddCount ==
    /\ At("httpd", "count")
    /\ client_count' = task["httpd"].n + 1
    /\ task' = [task EXCEPT !["httpd"] = Idle]
    /\ UNCHANGED <<session, closing, valid_fd, overlapped, unclosed>>

\* ws_rm_fd: the first entry of the socket is replaced by the last one.
Entries(fd) == {i \in 0..client_count-1 : valid_fd[i] = fd}
First(S) == CHOOSE i \in S : \A j \in S : i <= j

RmFind(t) ==
    /\ At(t, "find")
    /\ LET found == Entries(task[t].fd)
       IN  IF found = {}
           THEN Go(t, "close") /\ UNCHANGED overlapped
           ELSE /\ task' = [task EXCEPT ![t].pc = "move", ![t].k = First(found)]
                /\ Begin(t)
    /\ UNCHANGED <<session, closing, list, unclosed>>

LastItem_OffByOne == client_count
LastItem == client_count - 1

RmMove(t) ==
    /\ At(t, "move")
    /\ valid_fd' = Store(task[t].k, Load(LastItem))
    /\ task' = [task EXCEPT ![t].pc = "uncount", ![t].n = client_count]
    /\ UNCHANGED <<session, closing, client_count, overlapped, unclosed>>

RmCount(t) ==
    /\ At(t, "uncount")
    /\ client_count' = task[t].n - 1
    /\ task' = [task EXCEPT ![t].pc = "close", ![t].k = 0, ![t].n = 0]
    /\ UNCHANGED <<session, closing, valid_fd, overlapped, unclosed>>

\* httpd_sess_trigger_close, after a removal by either task: the close is work
\* queued for the server, and nobody looks whether it could be queued.
TriggerClose(t, ok) ==
    LET fds == {fd \in Fds : fd = task[t].fd /\ session[fd] # "closed"} IN
    /\ At(t, "close")
    /\ closing' = IF ok THEN closing \cup fds ELSE closing
    /\ unclosed' = IF ok THEN unclosed ELSE unclosed \cup (fds \ closing)
    /\ task' = [task EXCEPT ![t] = IF t = "httpd" THEN Idle
                                  ELSE [Idle EXCEPT !.pc = "next", !.i = task[t].i]]
    /\ UNCHANGED <<session, list, overlapped>>

\* The answer to a CLOSE frame could not be sent: the handler returns the error, for
\* which the server closes the session.
CloseFails ==
    /\ At("httpd", "close")
    /\ Closes(task["httpd"].fd)
    /\ task' = [task EXCEPT !["httpd"] = Idle]
    /\ UNCHANGED <<list, overlapped>>

----------------------------------------------------------------------------
(* The HTTP server *)

\* ws_on_socket_open, and a connection that only makes HTTP requests
Open(fd, kind) ==
    /\ At("httpd", "idle") /\ session[fd] = "closed" /\ fd \notin closing
    /\ session' = [session EXCEPT ![fd] = kind]
    /\ IF kind = "ws"
       THEN task' = [task EXCEPT !["httpd"].pc = "add", !["httpd"].fd = fd]
       ELSE UNCHANGED task
    /\ UNCHANGED <<closing, list, overlapped, unclosed>>

\* ws_on_close
OnClose(fd) ==
    /\ At("httpd", "idle") /\ session[fd] = "ws"
    /\ task' = [task EXCEPT !["httpd"].pc = "find", !["httpd"].fd = fd]
    /\ UNCHANGED <<session, closing, list, overlapped, unclosed>>

\* The connection is lost, or closed without a CLOSE frame.
Lost(fd) ==
    /\ At("httpd", "idle") /\ session[fd] # "closed"
    /\ Closes(fd)
    /\ UNCHANGED <<list, task, overlapped>>

CloseSession(fd) ==
    /\ At("httpd", "idle") /\ fd \in closing
    /\ Closes(fd)
    /\ UNCHANGED <<list, task, overlapped>>

----------------------------------------------------------------------------
(* heartbeat_task *)

HbStart ==
    /\ At("heartbeat", "idle")
    /\ task' = [task EXCEPT !["heartbeat"].pc = "loop", !["heartbeat"].i = 0]
    /\ UNCHANGED <<session, closing, list, overlapped, unclosed>>

HbEnd ==
    /\ At("heartbeat", "loop") /\ task["heartbeat"].i >= client_count
    /\ task' = [task EXCEPT !["heartbeat"] = Idle]
    /\ UNCHANGED <<session, closing, list, overlapped, unclosed>>

HbPick ==
    /\ At("heartbeat", "loop") /\ task["heartbeat"].i < client_count
    /\ task' = [task EXCEPT !["heartbeat"].pc = "send",
                            !["heartbeat"].fd = Load(task["heartbeat"].i)]
    /\ UNCHANGED <<session, closing, list, overlapped, unclosed>>

\* ws_send_frame_safe: it fails for a socket that is not open, and may fail for
\* one that is.  It does not ask whether the socket is still a WebSocket.
HbSend(err) ==
    /\ At("heartbeat", "send")
    /\ task["heartbeat"].fd \notin {fd \in Fds : session[fd] # "closed"} => err
    /\ Go("heartbeat", IF err THEN "find" ELSE "next")
    /\ UNCHANGED <<session, closing, list, overlapped, unclosed>>

HbNext ==
    /\ At("heartbeat", "next")
    /\ task' = [task EXCEPT !["heartbeat"].pc = "loop", !["heartbeat"].i = @ + 1]
    /\ UNCHANGED <<session, closing, list, overlapped, unclosed>>

----------------------------------------------------------------------------

HttpdRuns ==
    \/ AddFull \/ AddStore \/ AddCount
    \/ RmFind("httpd") \/ RmMove("httpd") \/ RmCount("httpd")
    \/ CloseFails \/ \E ok \in BOOLEAN : TriggerClose("httpd", ok)

HeartbeatRuns ==
    \/ HbStart \/ HbEnd \/ HbPick \/ HbNext
    \/ \E err \in BOOLEAN : HbSend(err)
    \/ RmFind("heartbeat") \/ RmMove("heartbeat") \/ RmCount("heartbeat")
    \/ \E ok \in BOOLEAN : TriggerClose("heartbeat", ok)

Sessions ==
    \E fd \in Fds :
       \/ \E kind \in {"ws", "http"} : Open(fd, kind)
       \/ OnClose(fd) \/ Lost(fd) \/ CloseSession(fd)

Next == HttpdRuns \/ HeartbeatRuns \/ Sessions

\* Both tasks are scheduled again and again, and the HTTP server looks at the
\* work queued for it before each request; clients do as they like.
Spec ==
    /\ Init /\ [][Next]_vars
    /\ WF_vars(HeartbeatRuns)
    /\ WF_vars(HttpdRuns)
    /\ \A fd \in Fds : SF_vars(CloseSession(fd))

----------------------------------------------------------------------------
(* Properties *)

\* A WebSocket that is open and has its entry missing gets it or is closed,
\* and the entries of a socket that is closed go away, unless it is opened
\* again (uri_ws.c:359-387, 407-414): through lost connections, sockets that
\* are used again, entries that are there twice and one that the loop skips.
\* An open WebSocket stays out of the list only when its close could not be
\* queued (uri_ws.c:290, 412), and until it is closed.  Once both tasks have
\* changed the list at the same time, an open client may be missing for good and
\* an entry that was removed may come back.
ListFollowsSessions ==
    \A fd \in Fds :
       /\ session[fd] = "ws" /\ Entries(fd) = {}
             ~> session[fd] # "ws" \/ Entries(fd) # {} \/ fd \in unclosed \/ overlapped
       /\ session[fd] = "closed" /\ Entries(fd) # {}
             ~> session[fd] # "closed" \/ Entries(fd) = {} \/ overlapped

=============================================================================
