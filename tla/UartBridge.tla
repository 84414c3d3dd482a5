----------------------------- MODULE UartBridge -----------------------------
(***************************************************************************)
(* The bridge between a TCP port and a UART                                *)
(* (components/uart_tcp_bridge/uart_tcp_bridge.c): one task that serves    *)
(* all connections from a queue of events, filled by a callback that the   *)
(* TCP/IP thread runs.                                                     *)
(*                                                                         *)
(* uart_bridge_close has no caller, so its event is left out.  An event of *)
(* a connection that has been deleted is handled on freed memory: either   *)
(* the chip restarts, or the memory still looks like the closed            *)
(* connection.                                                             *)
(***************************************************************************)
EXTENDS Integers, Sequences, FiniteSets, SequencesExt

CONSTANTS
    Conns,          \* bound: connections clients make
    Items,          \* bound: what a client sends at a time, a sequence of fragments
    MaxItems,       \* bound: times one client sends
    QueueSize       \* EVENTS_QUEUE_SIZE, scaled down

Listen == "listen"
Fin == <<"fin">>

ASSUME UartBridgeAssumption ==
    /\ Listen \notin Conns /\ "none" \notin Conns /\ Fin \notin Items
    /\ MaxItems \in Nat /\ QueueSize \in Nat \ {0}

VARIABLES
    state,          \* a connection: "new", "backlog", "open" or "deleted"
    pending_err,    \* netconn.pending_err: "ok", "CLSD", or "RST" once the client
                    \* has reset the connection
    inbox,          \* recvmbox: what was received and not read, "fin" last
    acceptmbox,     \* connections waiting to be accepted
    uart_server_events,
    uart_netconn, is_conn_valid, is_first_time_recv,
    uart_rx,        \* bytes have come in on the UART
    sent,           \* history: what the client sent, one item for each time
    uart_tx,        \* history: what was written to the UART of each of them
    disturbed       \* history: an event was dropped, or one of a deleted
                    \* connection was handled

bridge == <<uart_netconn, is_conn_valid, is_first_time_recv>>
vars == <<state, pending_err, inbox, acceptmbox, uart_server_events, bridge,
          uart_rx, sent, uart_tx, disturbed>>

None == [c \in Conns |-> <<>>]

Init ==
    /\ state = [c \in Conns |-> "new"]
    /\ pending_err = [c \in Conns |-> "ok"]
    /\ inbox = None /\ acceptmbox = <<>> /\ uart_server_events = <<>>
    /\ uart_netconn = "none" /\ is_conn_valid = FALSE /\ is_first_time_recv = FALSE
    /\ uart_rx = FALSE
    /\ sent = None /\ uart_tx = None /\ disturbed = FALSE

----------------------------------------------------------------------------
(* Clients and the TCP/IP thread *)

netCallback_OnlyAccepted(nc) ==
    IF nc # Listen /\ state[nc] = "backlog"
    THEN UNCHANGED <<uart_server_events, disturbed>>
    ELSE /\ Len(uart_server_events) < QueueSize
         /\ uart_server_events' = Append(uart_server_events, nc)
         /\ UNCHANGED disturbed

\* netCallback for RCVPLUS: a full queue is waited for, one second.  Nothing
\* is queued for a connection with an error.
netCallback(nc) ==
    IF nc # Listen /\ pending_err[nc] # "ok"
    THEN UNCHANGED <<uart_server_events, disturbed>>
    ELSE IF Len(uart_server_events) < QueueSize
    THEN /\ uart_server_events' = Append(uart_server_events, nc)
         /\ UNCHANGED disturbed
    ELSE /\ disturbed' = TRUE
         /\ UNCHANGED uart_server_events

ClientConnects(c) ==
    /\ state[c] = "new"
    /\ state' = [state EXCEPT ![c] = "backlog"]
    /\ acceptmbox' = Append(acceptmbox, c)
    /\ netCallback(Listen)
    /\ UNCHANGED <<pending_err, inbox, bridge, uart_rx, sent, uart_tx>>

Connected(c) == state[c] \in {"backlog", "open"} /\ pending_err[c] = "ok"
Finished(c) == Fin \in ToSet(inbox[c])

ClientSends(c, item) ==
    /\ Connected(c) /\ ~Finished(c)
    /\ Len(sent[c]) < MaxItems
    /\ inbox' = [inbox EXCEPT ![c] = Append(@, item)]
    /\ sent' = [sent EXCEPT ![c] = Append(@, item)]
    /\ netCallback(c)
    /\ UNCHANGED <<state, pending_err, acceptmbox, bridge, uart_rx, uart_tx>>

ClientCloses(c) ==
    /\ Connected(c) /\ ~Finished(c)
    /\ inbox' = [inbox EXCEPT ![c] = Append(@, Fin)]
    /\ netCallback(c)
    /\ UNCHANGED <<state, pending_err, acceptmbox, bridge, uart_rx, sent, uart_tx>>

\* The error is set before the callback runs, so that no event is queued.
ClientResets(c) ==
    /\ Connected(c)
    /\ pending_err' = [pending_err EXCEPT ![c] = "RST"]
    /\ UNCHANGED <<state, inbox, acceptmbox, uart_server_events, bridge, uart_rx,
                   sent, uart_tx, disturbed>>

UartReceives ==
    /\ ~uart_rx /\ uart_rx' = TRUE
    /\ UNCHANGED <<state, pending_err, inbox, acceptmbox, uart_server_events, bridge,
                   sent, uart_tx, disturbed>>

----------------------------------------------------------------------------
(* uart_bridge_task *)

Event(nc) ==
    /\ uart_server_events # <<>> /\ Head(uart_server_events) = nc
    /\ uart_server_events' = Tail(uart_server_events)

\* close_tcp_netconn
close_tcp_netconn(c) ==
    /\ state' = [state EXCEPT ![c] = "deleted"]
    /\ pending_err' = [pending_err EXCEPT ![c] = "CLSD"]

\* No event for 100 ms: what the UART has received goes to the client.
Timeout ==
    /\ uart_server_events = <<>>
    /\ is_conn_valid /\ uart_rx
    /\ uart_rx' = FALSE
    /\ disturbed' = (disturbed \/ state[uart_netconn] = "deleted")
    /\ UNCHANGED <<state, pending_err, inbox, acceptmbox, uart_server_events, bridge,
                   sent, uart_tx>>

\* A second client is accepted and closed.
Refuse ==
    /\ Event(Listen) /\ is_conn_valid
    /\ IF acceptmbox = <<>>
       THEN UNCHANGED <<state, pending_err, acceptmbox>>
       ELSE /\ close_tcp_netconn(Head(acceptmbox))
            /\ acceptmbox' = Tail(acceptmbox)
    /\ UNCHANGED <<inbox, bridge, uart_rx, sent, uart_tx, disturbed>>

\* One that was deleted before, because its event was dropped, stays deleted.
Accept ==
    /\ Event(Listen) /\ ~is_conn_valid
    /\ IF acceptmbox = <<>>
       THEN UNCHANGED <<state, acceptmbox, bridge>>
       ELSE /\ state' = [state EXCEPT ![Head(acceptmbox)] = IF @ = "deleted" THEN @ ELSE "open"]
            /\ uart_netconn' = Head(acceptmbox)
            /\ is_conn_valid' = TRUE
            /\ is_first_time_recv' = TRUE
            /\ acceptmbox' = Tail(acceptmbox)
    /\ UNCHANGED <<pending_err, inbox, uart_rx, sent, uart_tx, disturbed>>

\* The fragments written to the UART: a first one that is a number of its own
\* length sets the baud rate instead.
Written_AnyBaud(item, first) == SelectSeq(item, LAMBDA f : f # "baud")
Written(item, first) == IF first /\ Head(item) = "baud" THEN Tail(item) ELSE item

Received_All(c) == [c1 \in Conns |-> IF c1 = c THEN <<>> ELSE inbox[c1]]
Received(c) == [inbox EXCEPT ![c] = Tail(@)]

\* Data of connection c, which may still be waiting to be accepted.
Data(c) ==
    /\ Event(c) /\ state[c] # "deleted"
    /\ inbox[c] # <<>> /\ Head(inbox[c]) # Fin
    /\ uart_netconn' = c
    /\ uart_rx' = FALSE
    /\ inbox' = Received(c)
    /\ uart_tx' = [uart_tx EXCEPT ![c] = Append(@, Written(Head(inbox[c]), is_first_time_recv))]
    /\ is_first_time_recv' = FALSE
    /\ UNCHANGED <<state, pending_err, acceptmbox, is_conn_valid, sent, disturbed>>

\* netconn_recv fails: the client has closed the connection, or has reset it,
\* which may be told before what was received is read.
RecvFails(c) ==
    \/ inbox[c] # <<>> /\ Head(inbox[c]) = Fin
    \/ pending_err[c] = "RST"

CloseClient_NotReset(c) ==
    /\ Event(c) /\ state[c] # "deleted"
    /\ RecvFails(c)
    /\ close_tcp_netconn(c)
    /\ uart_netconn' = "none"
    /\ uart_rx' = FALSE
    /\ UNCHANGED <<inbox, acceptmbox, is_conn_valid, is_first_time_recv, sent, uart_tx,
                   disturbed>>

\* The client is closed.  With nothing to read and no error netconn_recv would
\* block, and no action is enabled.
CloseClient(c) ==
    /\ Event(c) /\ state[c] # "deleted"
    /\ RecvFails(c)
    /\ close_tcp_netconn(c)
    /\ uart_netconn' = "none" /\ is_conn_valid' = FALSE
    /\ uart_rx' = FALSE
    /\ UNCHANGED <<inbox, acceptmbox, is_first_time_recv, sent, uart_tx, disturbed>>

\* An event of a connection that was refused: its freed memory is used.  What
\* looks closed is left alone, but stays in uart_netconn.
Freed(c) ==
    /\ Event(c) /\ state[c] = "deleted"
    /\ disturbed' = TRUE
    /\ uart_netconn' = c
    /\ uart_rx' = FALSE
    /\ UNCHANGED <<state, pending_err, inbox, acceptmbox, is_conn_valid, is_first_time_recv,
                   sent, uart_tx>>

\* The chip restarts: every connection is gone.
Restart(c) ==
    /\ uart_server_events # <<>> /\ Head(uart_server_events) = c
    /\ state[c] = "deleted"
    /\ uart_server_events' = <<>>
    /\ state' = [d \in Conns |-> "deleted"]
    /\ pending_err' = [d \in Conns |-> "CLSD"]
    /\ inbox' = None /\ acceptmbox' = <<>>
    /\ uart_netconn' = "none" /\ is_conn_valid' = FALSE /\ is_first_time_recv' = FALSE
    /\ uart_rx' = FALSE
    /\ disturbed' = TRUE
    /\ UNCHANGED <<sent, uart_tx>>

Task ==
    \/ Timeout \/ Refuse \/ Accept
    \/ \E c \in Conns : Data(c) \/ CloseClient(c) \/ Freed(c) \/ Restart(c)

Client ==
    \/ \E c \in Conns :
          ClientConnects(c) \/ ClientCloses(c) \/ ClientResets(c)
          \/ \E item \in Items : ClientSends(c, item)
    \/ UartReceives

Next == Task \/ Client

\* The task is always scheduled again; clients do as they like.
Spec == Init /\ [][Next]_vars /\ WF_vars(Task)

----------------------------------------------------------------------------
(* Properties *)

Queued(c) == Cardinality({i \in DOMAIN uart_server_events : uart_server_events[i] = c})

\* Every event of a connection finds something to read: netconn_recv, which has
\* no timeout, never blocks the one task that serves everybody, also when
\* events are dropped (uart_tcp_bridge.c:141-165, 293).
RecvNeverBlocks ==
    \A c \in Conns : state[c] # "deleted" => Queued(c) <= Len(inbox[c])

Served == {c \in Conns : state[c] = "open"}

\* Until an event is dropped or a refused client has sent something, the bridge
\* has one client at a time: is_conn_valid says whether it has one, and the
\* UART is joined to that client, or for the moment to the one about to be
\* accepted (uart_tcp_bridge.c:254-284, 321-322).
ServesItsClient ==
    ~disturbed =>
       /\ Cardinality(Served) = IF is_conn_valid THEN 1 ELSE 0
       /\ is_conn_valid => uart_netconn \in Served

Unread(c) == IF Finished(c) THEN Front(inbox[c]) ELSE inbox[c]
NotBaud(item) == IF Head(item) = "baud" THEN Tail(item) ELSE item

\* What a client sends reaches the UART once, complete and in order, except a
\* number at its very beginning, which is the baud rate and never sent
\* (uart_tcp_bridge.c:279, 293-316): also when clients come and go, or are
\* closed for a reset, with data unread, until an event is dropped or handled
\* on a deleted connection.
UartInOrder ==
    \A c \in Conns :
       ~disturbed =>
          \/ uart_tx[c] = <<>> /\ Unread(c) = sent[c]
          \/ uart_tx[c] \o Unread(c) = [sent[c] EXCEPT ![1] = NotBaud(@)]

\* Nothing that was received stays unread for want of an event
\* (uart_tcp_bridge.c:153-164, 241).
ReceivedIsRead ==
    \A c \in Conns :
       inbox[c] # <<>> ~> (inbox[c] = <<>> \/ state[c] = "deleted" \/ disturbed)

=============================================================================
