# Verification of wireless-esp32-tools

This directory holds TLA+ specifications of the firmware under `src/`, the TLC
configurations that model-check them, and TLAPS proofs about them. `PROJECT.json`
maps every definition to the source lines it models, and lists the hazards of the
code with the properties aimed at them.

The firmware turns an ESP32 into a wireless debug probe. A host reaches it over
USBIP, elaphureLink or a WebSocket, all on one TCP port; a web interface configures
Wi-Fi; a serial port is bridged to TCP.

## Inventory

| Component | State | Operations | Interacts with | What is hard | What makes it correct |
|---|---|---|---|---|---|
| `tcp_server_task` (tcp_server.c) | `kSock`, the protocol worker it is in | accept, recognise the protocol, run its worker, clean up | sets `kRestartDAPHandle` and notifies `DAP_Thread` | the restart it asks for is served later, by another task | a connection sees rings that are its own |
| `DAP_Thread` (DAP_handle.c) | two ring buffers, `dap_respond`, `DAPDataProcessed` | take a notification, receive a packet, execute it, queue the response, restart the rings | ring buffers, notifications and a mutex shared with the TCP task | unbounded waits, rings deleted under a waiting task, a counter read without its lock | no lost wake-up, no lost or reordered command, no use of a deleted ring |
| USBIP server (usbip_server.c, USBIP/) | `dap_req_num`, protocol stage | device list, import, submit URB, unlink URB, control requests | `handle_dap_data_request`, `fast_reply`, `handle_dap_unlink` | an IN URB waits for ever if the count is wrong | an IN URB gets the response to the oldest unanswered command |
| elaphureLink, WebSocket DAP server | one process buffer; the WebSocket's frame state | handshake, execute commands in the TCP task | both delete the rings first | they race `DAP_Thread` | responses go to the connection that asked |
| WebSocket framing (websocket_server.c) | header, mask rotation, remaining length | header, payload, ping, close, fragments | executes DAP commands | payload split over many `recv` calls | the payload executed is the one that was sent |
| CMSIS-DAP interpreter (DAP.c, SW_DP.c, JTAG_DP.c) | `DAP_Data`, `DAP_TransferAbort` | about forty commands | runs in `DAP_Thread` or in the TCP task | request and response lengths under retries and aborts | consumed and produced lengths agree with the request |
| UART bridge (uart_tcp_bridge.c) | listening and client netconn, event queue | accept, forward both ways, close | lwIP callback, UART driver | events of a connection that is already deleted | bytes go to the current client only |
| SSDP (ssdp.c) | socket, addresses, task handle | start, stop, notify, answer searches | Wi-Fi events | stop against a running task | one socket, closed once |
| Web server, API, request runner, memory pool | seven buffers, two queues, the client list | HTTP and WebSocket requests, long-run jobs, sends, heart beat | each other, through callbacks | who frees a buffer on every error path | every buffer is returned exactly once |
| Wi-Fi manager, event handler, storage | connection state, a lock, a reconnect task, stored credentials | connect, disconnect, scan, set mode, set AP | ESP-IDF events, NVS, API callbacks | events against API calls, time-outs | one job at a time, the lock released once |
| SWD and JTAG lines (SW_DP.c, JTAG_DP.c, spi_op.c, spi_switch.c) | function of the pins, `SWD_TransferSpeed`, `swd_conf`, `jtag_dev` | transfers, scans, sequences, by GPIO or SPI | called by the interpreter | turnarounds, the last bit of a scan, the last byte of a sequence | host and target agree on every clock |
| kcp, SWO, DAP UART | - | - | - | vendored or compiled out | - |

The hazards these lead to are listed in `PROJECT.json`, each at its line.

## Modules

| Module | What it is |
|---|---|
| `DapPipeline` | `tcp_server_task`, `DAP_Thread` and the peer of the connection, at the grain of their ring, mutex, notification and flag operations |
| `DapService` | the service a host expects of the probe: a FIFO of commands, with `UNLINK` withdrawing the oldest |
| `DapPipelineProofs` | the inductive invariant of `DapPipeline`, its theorems, and that a clean connection implements `DapService` |
| `WebApi` | the life of a web request: httpd, the memory pool, the request runner's two queues and tasks, the send-out callbacks |
| `WebApiProofs` | conservation of the buffers for every size of the pool and of the queues |
| `WebRequestProofs` | every request is answered once and its cJSON trees are deleted once; extends `WebApiProofs` |
| `SwjPort` | the debug port below the commands: pins, clocks of SWD transfers, JTAG scans, bit sequences |
| `DapTransfer` | `DAP_Transfer` and `DAP_TransferBlock` over both ports, one step per transfer on the line; extends `SwjPort` |
| `DapInterpreter` | the dispatcher: port commands and transfer commands, one at a time; extends `DapTransfer` |
| `DapInterpreterProofs` | pins, clocks and sequences of the port; order, confirmation and size of transfer commands |
| `JtagScanProofs` | what the TAP controllers make of the clocks of a scan; extends `DapInterpreterProofs` |
| `WsStream` | the WebSocket frame parser over a TCP stream cut anywhere |
| `UsbipStream` | the stages of a USBIP connection, URB headers and data, control requests, replies |
| `ProxyConnections` | `tcp_server_task` serving one connection after another in either protocol; extends `WsStream` and `UsbipStream` |
| `ProxyConnectionsProofs` | the WebSocket parser stays at the client's frames, USBIP at the host's messages |
| `WifiManager` | the Wi-Fi manager with its event handler, reconnection task and delayed tasks |
| `WifiManagerProofs` | where `ctx.lock` can be lost and where not; `is_endless_connect` never outlives its task |
| `UartBridge` | the task, the lwIP callback and the clients of the UART to TCP bridge |
| `UartBridgeProofs` | the task never blocks in `netconn_recv`; one client at a time, its bytes in order |
| `WsClients` | the list of WebSocket clients, changed by httpd and by the heartbeat task |
| `MCDapInterpreter`, `MCProxyConnections`, `MCUartBridge` | the constants of the TLC runs |

### DapPipeline

A packet is `<<session, n>>`, the n-th command of a connection; its response carries
the same name, so that order, loss, duplication and mixing of connections are visible
while the 512 bytes of a packet are not. `tcp` and `dap` say where each task is: a step
is the code between two points at which the other task can see or change shared state.
`dap_dataIN` and `dap_dataOUT` are the handles (`"null"`, `"live"`, and `"freed"` between
`vRingbufferDelete` and the assignment of NULL), `ringIN` and `ringOUT` the contents.
An item received and not yet returned keeps its place (`HeldIN`, `HeldOUT`), as in the
ESP-IDF ring buffer. `notify` is the task notification used as a counting semaphore.
The ring buffers hold whole packets only: every send has the same size and the ring is
a multiple of it, so the "wrong packet size" branches cannot be reached.

`fault` records that a task used a NULL or deleted ring, or notified a deleted task;
the model stops there. A task that waits without a time-out on a ring that is deleted is
`"hung"`: ESP-IDF does not wake it. The boot sequence before `DAP_Thread` has created
its rings is the initial state: the network is not up before that.

The mapping of a guard to the code is direct: `RequestSend` / `RequestBlock` are the two
outcomes of `xRingbufferSend` on `dap_dataIN_handle`, `ReplyReceive` / `ReplyBlock` those of
the receive in `fast_reply`, `CountDown` the locked decrement, `DapCheck` .. `DapNoSignal`
the restart with its two reads of `kRestartDAPHandle`, `DapTake` .. `DapCount` the inner
loop of `DAP_Thread`.

`clean` is history: `DAP_Thread` was at rest, its restart served, when the connection was
accepted. `Serving` is a USBIP connection of that kind. The code gives guarantees to such
connections only. A connection accepted before the restart was served can have its rings
deleted while it uses them; nothing in the code prevents that, and the properties say what
holds in spite of it (`NoLostWakeup`, `RespondCoversRing`, `TypeOK` hold always) and what
needs `clean`.

### WebApi

`memory_pool`, `request_runner`, the WebSocket and POST handlers and the JSON router share
one resource, the seven buffers of the pool, and pass it around by convention: whoever ends
a request frees it. So they are one module. A buffer stands for the request in it (`msg`):
its kind, the state of the two cJSON trees, the status given to the callback, whether a POST
has a request copy that must be completed, and history (how often it was answered, whether its
connection is being closed, whether httpd refused the work). The buffer that the SSDP task keeps (`ssdp.c:186`) and
the one the event loop takes for a moment (`ssdp.c:334`) are outside: the pool of the model is what they leave. `httpd`, `long` and `send` say
where the three tasks are and which buffer they hold; `longQ`, `sendQ`, `work` and `pool` are
the queues in between.

What a request contains is reduced to the choice between actions: `ParseError`,
`Synchronous` (a command run by `api_json_route` itself), `Asynchronous` (`API_JSON_ASYNC`,
after which the push succeeds or fails), `ControlFrame` and `CloseConnection`. `LongRun` is the
command, with any status, and with or without a result (`wifi_api_json_get_scan` sets both an error
and a result). `LongPushFails` is the 20 ms time-out after which `Ltask` runs the callback
itself. `PoolEmpty` is the assert in `memory_pool_get`: `crashed` stops everything. `Ssdp` is the
handler that takes a buffer and never puts it back; the set `ssdp` remembers these.

A call of `httpd_queue_work` that reports success is taken to run: its loopback socket is
ESP-IDF's. A POST longer than a buffer is refused before anything is taken and is left out, as
is whether a send reaches its client; an answer counts when it is given to httpd.

### SwjPort, DapTransfer, DapInterpreter

The two halves of the CMSIS-DAP interpreter are kept apart by what they are about. `SwjPort`
is about single clocks. A line operation is a sequence of clocks, each named for what the host does
in it, and is compared with what the target does according to the debug interface (`TargetClocks`)
or the JTAG standard (`TapNext`, `TapRun`), which are the references and not code. The data bits are numbered, so
that a scan which shifts one bit too many, or a sequence that leaves its last byte in the wrong
place, shows. Register accesses and delay loops are left out; `mux` is what they do to the pins. The SPI
controllers differ, so `Chip` is a constant: the C3 and the S3 send the turnaround after a request as its ninth,
zero, bit, the ESP32 ends a WAIT of a read with a low clock, and the C3 cannot send a single bit and reads instead.
So SPI may drive a zero in a turnaround clock, when the target does not drive; `BusHandover` allows that
and nothing else, and only for SPI. `DAP_SWJ_Pins` takes the pins from SPI and gives them back when transfers
use SPI, and otherwise leaves their function as it finds it.

`DapTransfer` is about the order of transfers inside one command. A step is one call of
`SWD_Transfer` or `JTAG_Transfer`; the target answers with OK, WAIT, FAULT or no valid answer. A data
word is named by the access it came from, which is the question: with posted reads the word of an
access arrives with the next transfer. `posted` is the target's read buffer, `issued` and
`unconfirmed` are history. `op` is the place in the loop, named for the transfer to be made there:
"post", "fetch" and "fetchpost" are the three ways a read of an access port is begun and completed, "matchpost"
and "matchread" the polls, "lastfetch" and "check" what follows the loop. `DAP_TransferAbort` is only ever
cleared in this repository, so its tests are constant.

`DapInterpreter` puts both behind `DAP_ProcessCommand`. `Plain` is a bound: a transfer command
is begun only in the port configuration of start-up, since the order of transfers does not depend
on the configuration, and line operations are looked at outside of transfer commands.

What a command's requests add up to is said with sets and their cardinality (`Bytes`, `Reads`), and not with
a fold over the requests, so that it can be reasoned about for a list of any length. For the same reason
the guards of every `CASE` are disjoint: where two hold, `CASE` is an arbitrary choice of one.

### WsStream, UsbipStream, ProxyConnections

The client sends one frame after the other (`Send`), each with the offset at which it starts; a byte
is its offset. `Send` is the peer's and free of the server, so a frame may come before or after the server has
read the one before it.
`co_websocket_process` always has a contiguous stretch in its buffer, described by the offset of
the first byte (`head`), `remaining_len` and `read_len` as in the code. `Recv` takes any number of bytes
that fits, so every way of cutting the stream is covered. `ws_pc` is the place in
`co_websocket_process`; what each part does to the payload is compared with the place of the byte
in the frame (`Unmasked`, `garbled`), including the word-wise masking at any alignment and the
rotation of the key. A 64-bit length with its top bit set is refused, and of any other the low 32 bits are the
payload expected; the constants `LengthTop` and `LengthRange` scale 2^63 and 2^32 down. That no accepted frame is
4 GiB or longer is assumed of the clients. The HTTP request of the handshake is a length and whether it is acceptable.

In `UsbipStream` a message is its command, direction, endpoint, length of data and, for control
requests, what it asks for. `order` is the byte order of the header in the buffer: `unpack` and
`pack` convert it in place and only some paths call both. `ProxyConnections` is the task that serves
the one or the other; what happens behind endpoint 1 is `DapPipeline`.

### WifiManager

The tasks are `Ltask` (scan and connect), httpd (mode and disconnect), reconnection tasks and the two
kinds of delayed tasks. `pc` is where each is between two blocking calls, operations of `ctx.lock`, or uses of
`is_endless_connect` and `ctx.task`: Ltask has a higher priority than a reconnection task, so its read of
`is_endless_connect`, its `vTaskDelete(ctx.task)` and the two assignments at the beginning of the reconnection
task are steps of their own (`LTake`, `LTook`, `LRefused`, `LDelete`; `ReconBegin`, `ReconTask`).
Events of the driver are handled in the event loop, whose priority is above that of all these
tasks: an event with its handler is one step. `lock` is a binary semaphore that any task can give.

A handle may be stale. `Named` is what it then stands for: memory that is nobody's, or any task that has been created since
and lives. Deleting or notifying through it can be without effect, hit that task, or be a panic (`WildTask`).
`vTaskDelete(NULL)`, and a `ctx.task` that is Ltask itself, end Ltask (`LDeletesItself`).
`xTaskCreate` may fail, and nobody looks: a delayed task is then missing, and a reconnection task leaves the lock that was
taken for it behind, `"stranded"`. At start-up there is memory for the tasks.

`union` is the place `ctx.conn.event` and `ctx.scan.ap` share. The driver is a small machine: its mode, the state of
the station, and a scan. A write through an address that the other user of the union left there is a restart
of the chip (`WildScan`, `Restart`), after which the flash still has the credential and the mode.
Waits with a time-out end at any time. Addresses, credentials of the access point and the LED
only pass values through and are left out.

### UartBridge

`netCallback` runs in the TCP/IP thread and puts a connection into the event queue; the task takes
events one at a time. `inbox` is what a connection has received and not read. A client may connect, send
and leave while another one is served; then its events are handled before it is accepted or after
it was refused and deleted. The latter is use of freed memory: the chip restarts, or what is
left looks like a closed connection (`Restart`, `Freed`). `disturbed` remembers that this, or an
event dropped by a full queue, has happened. lwIP may tell a reset before or after the data that came
earlier is read, so `netconn_recv` may fail for a reset client although something is unread (`RecvFails`), and the
client is closed. A fragment is a number ("baud") or not; that is all
`Written` needs.

### WsClients

`ws_add_fd` and `ws_rm_fd` are cut where the other task can see or change the list: the read of
`client_count`, the store, the write back. `overlapped` remembers that both tasks were inside at
once. `session` is what httpd knows of a socket, `closing` the sockets it was told to close. A client
that goes away without a CLOSE frame stays listed and its descriptor can be given to the next one.
`httpd_sess_trigger_close` queues work for httpd and may fail, which neither caller looks at: `unclosed` remembers a socket
that then stays open, and by then unlisted. A CLOSE frame that cannot be answered makes the handler return an error, and the
server closes the session itself (`CloseFails`).

## Runs

| Run | Bounds | Shows |
|---|---|---|
| `dap_pipeline` | rings of 2 packets, 2 connections of any protocol, 4 commands, allocations may fail | the invariants, and that a clean USBIP connection refines `DapService` |
| `dap_live` | rings of 1 packet, 2 connections, 4 commands | an IN URB is answered (`ReplyDelivered`); the probe comes to rest after a connection (`ComesToRest`); the two tasks block each other only at 2N+2 commands (`WedgeNeedsOverload`) |
| `dap_packet_count` | rings of 1, 6 commands | violation: the advertised packet count is not what is buffered |
| `dap_unlink` | rings of 2, 2 commands | violation: UNLINK leaves a lagging response |
| `web_api` | 3 buffers, runner queues of 1, 3 frames or POSTs, one `/SSDP` | every buffer in one place (`PoolConserved`), `memory_pool_put` never asserts (`PutHasRoom`), every cJSON tree deleted once (`JsonReleased`), every request answered once (`AnsweredOnce`), every request handed to the runner ends (`RunnerReturns`) |
| `web_pool` | 3 buffers, runner queues of 1, 4 frames or POSTs | violation: `memory_pool_get` fails its assert where its callers have an answer for NULL |
| `dap_commands` | ESP32-C3, 3 requests of 6 kinds per command, retries 0 and 1, chains of 1 and 3 devices, sequences of 1 to 256 bits | reads arrive in request order (`ReadsInOrder`), each register is accessed once (`AccessedOnce`), an OK means the last write was confirmed (`WritesConfirmed`), the bytes consumed (`ConsumesRequest`), the pins follow the speed (`SwdPinsMatchSpeed`), SWDIO changes hands as the target expects (`BusHandover`), scans reach their device (`ScanReachesDevice`), sequences are exact (`SequencesExact`), every command ends (`Answered`) |
| `connections` | 2 frames of 10 kinds, a buffer of 24 bytes, 3 HTTP requests; 26 USB messages | the parser stays at the client's frames (`ParserInSync`), payload is unmasked with the right byte of the key (`PayloadUnmasked`), one answer per binary frame and cut (`AnswersPerFrame`), a complete frame is handled without more input (`FramesHandled`); USBIP reads what was sent and announces what it sends (`UrbExchange`) |
| `wifi` | AP off while the station is on, with 3 API calls or lost connections, and the automatic mode, with 1; 2 reconnection tasks, 1 of each delayed kind, 2 channels | where the lock can be lost and where not (`LockHasOwner`), `is_endless_connect` has its task (`EndlessHasTask`) |
| `wifi_ap_stop` | 2 tasks that close the AP, 2 inputs | violation: the AP is closed although the station was disconnected |
| `uart_bridge` | 2 clients, 2 fragments each, an event queue of 3 | `netconn_recv` never blocks (`RecvNeverBlocks`), one client is served (`ServesItsClient`), bytes in order (`UartInOrder`), nothing stays unread (`ReceivedIsRead`) |
| `ws_clients` | 2 sockets, a list of 2 | the list follows the sessions (`ListFollowsSessions`) |

Bounds of the DAP runs: with one packet per ring "full" is one step away, and four commands
are the 2N+2 at which the two tasks block each other; two packets per ring let notifications
pile up, so that a lost one is not masked by the next. Two connections let the second race
the restart of the first. Rings of one with three connections of two commands, and rings of
two with six commands, were checked as well; the proofs cover every size. Bounds of the web
runs: the firmware has 7 buffers for queues of 2 and 4 and httpd, here it is 3 for 1 and 1
and httpd, the same relation; three requests fill both queues and empty the pool, and the
`/SSDP` request takes one buffer away for good.

Bounds of the other runs. `dap_commands`: the post_read protocol looks at a request and the one
before it; three requests are a posted read, what fetches it and what comes after, and also the
shortest command with a request on both sides of a failing one. Three devices have one before, one after and
the addressed one in each place. The lengths of sequences are around 8, 64 and 256, where bytes,
words and counters end. `connections`: two frames are enough for a frame to share the buffer with the
end or the beginning of another; payloads of 11 bytes are masked at every alignment and cut in every
way. USBIP messages are cut in one place.
`wifi`: two reconnection tasks can overlap, one deleted and one new; three inputs are a scan or connect
in every state of a reconnection and a second one after it; one input in the automatic mode is enough for what the delayed
tasks do to the lock; the proofs cover every mode, number of tasks and number of inputs. The SPI clocks are those of the C3; the proof of
`BusHandover` covers those of the ESP32 and the S3 as well. `uart_bridge`: two clients are one served and one refused;
three events fill the queue. `ws_clients`: a socket can be listed twice and the list be full.

Deadlock is checked in `dap_commands`, `connections` and `ws_clients`. Elsewhere it is not: a probe
whose peers have stopped, or whose `DAP_Thread` deleted itself, legitimately stops, and so do a web
server without requests and a bridge without clients; the bounded inputs of the Wi-Fi runs run out.

Fairness (`FairSpec`): weak fairness of each task. FreeRTOS runs a ready task whenever no
task of higher priority is ready; the TCP task (14) blocks on the network between URBs and
never spins, so `DAP_Thread` (10) runs. Nothing is assumed of the peer: it may never send
another byte, which is why `ComesToRest` speaks only about what follows a closed connection. In `WebApi` it is
weak fairness of httpd and of the runner's two tasks: they block on sockets and queues only,
every wait but the one for `/SSDP` has a time-out, and a command (connect, scan) terminates.
httpd serves its control socket in every round of `select`, so queued work is not starved.
In `DapInterpreter` the task that took a command goes on, and the target's answer to a transfer is any of
the four at any time (`WF` of `Step` and `Reply`). In `ProxyConnections` only the steps between two
`recv` calls are fair; no client has to send. In `UartBridge` the task is fair: it blocks on its
queue only, with a time-out. In `WsClients` the steps of httpd inside a handler and those of the heartbeat
task are weakly fair; the closing of a session that was asked for is strongly fair, since it is queued work
that httpd does between two requests, and requests may interrupt it again and again.

## Findings

* `dap_packet_count`: `DAP_config.h` advertises 255 buffered packets, the rings hold 10
  each. A host that uses the advertised depth without reading responses blocks both tasks
  at 2 * 10 + 2 outstanding commands. `WedgeNeedsOverload`, proved for every size, says this
  bound is exact from below.
* `dap_unlink`: the comment in `handle_dap_unlink` says lagging responses are eliminated
  when at most one is outstanding. If the UNLINK comes while `DAP_Thread` is still executing
  that one command, `dap_respond` is still 0, nothing is removed, and the next IN URB gets
  the older response. (The comment concedes "synchronization problems"; this is one within its own
  assumption.)
* `web_pool`: `assert(ptr)` in `memory_pool_get` contradicts both callers, which test for
  NULL after a time-out of 10 or 20 ms and answer "Resource busy" or log "static buf busy".
  The runner's queues and tasks alone have 2 + 1 + 4 + 1 places for 7 buffers, so slow commands
  sent in a burst, or a few requests of `/SSDP`, lead there.
* `wifi_ap_stop`: the comment in `delayed_set_ap_stop` says a time-out means "connected to STA
  without disconnection". `ctx.delayed_stopAP_task` is one handle for a task per successful
  connect: after a second connect the first task can no longer be told of a disconnection, and
  closes the access point while the station is not connected.

More that the models show without a run of their own, as no document contradicts it; the
properties say where they stop:

* `/SSDP` loses a buffer each time (`PoolConserved` names these as the only ones lost), and a
  failed WebSocket command leaks its `json.out` (the exception in `JsonReleased`).
* After a failed request `DAP_Transfer` skips one entry too many, so that the size it reports is not
  the size of the command (`Skip`, the exception in `ConsumesRequest`).
* `DAP_SPI_ReadBits` masks the last byte of a capture wrongly unless it has two to seven bits, and
  `DAP_SPI_WriteBits` takes its count as a byte and fills a buffer of 16 words with a word for each byte (the exceptions in `SequencesExact`). The SPI path
  ignores the configured turnaround and data phase (the exception in `BusHandover`).
* The reply for the reserved endpoint is sent with its header in host order (the exception in
  `UrbExchange`).
* A WebSocket frame received in parts is executed in parts and gets an answer for each
  (`AnswersPerFrame` counts them).
* `PORT_JTAG_SETUP` leaves TCK and TMS alone (its `DAP_SPI_Deinit` is commented out under a FIXME, `DAP_config.h:495`), against
  its comment at line 434: after a clock of 10 MHz or more, set before JTAG is selected, the scans clock nothing. `SwdPinsMatchSpeed` is
  about SWD only.
* `reconnection_task` sets `is_endless_connect` (`wifi_manager.c:561`) before `ctx.task` (562). Ltask may come in between, or find
  `ctx.task` changed after it read the flag, and `vTaskDelete(ctx.task)` (277, 286, 350) then deletes Ltask itself (NULL) or writes to the
  memory of a task that has ended (`LDeletesItself`, `WildTask`).
* Ltask that deletes itself keeps `ctx.lock` when it has it, and a reconnection task that cannot be created leaves
  it taken as well (the exceptions in `LockHasOwner`).
* An UNLINK leaves `dap_req_num` as it is, and a later IN URB waits for a response that will not come (`NothingLost` says what is
  counted; `ReplyDelivered` excepts it). A connection closed with more responses unread than the ring holds leaves `DAP_Thread` blocked
  (the premise of `ComesToRest`).
* A WebSocket whose close cannot be queued stays open and unlisted (`unclosed` in `ListFollowsSessions`).
* Events of a refused client of the UART bridge are handled on its freed memory, and a reset client
  that is the current one is not noticed when all it sent has been read.
* Both tasks inside the client list at once lose a client, bring a removed one back, or remove one client twice, which takes
  `client_count` to -1 when it was the only one (`uri_ws.c:384`; `overlapped` in `ListFollowsSessions`).

## Proofs

Every safety invariant the passing runs check is a theorem of the specification for every value of the
constants; so is the refinement of `DapService`.

| Module | Theorems | From |
|---|---|---|
| `DapPipelineProofs` | `TypeOK`, `NoLostWakeup`, `RespondCoversRing`, `NothingLost`, `WedgeNeedsOverload`, `CleanConnectionIsSafe`, `CleanConnectionRestarts`, `ImplementsService` | `DapPipelineAssumption` |
| `WebApiProofs` | `TypeOK`, `PoolConserved`, `PutHasRoom` | `WebApiAssumption` |
| `WebRequestProofs` | `JsonReleased`, `AnsweredOnce` | `WebApiAssumption` |
| `DapInterpreterProofs` | `SwdPinsMatchSpeed`, `SequencesExact`, `BusHandover`, `WritesConfirmed`, `AccessedOnce`, `ReadsInOrder`, `ConsumesRequest` | `SwjPortAssumption`, `DapTransferAssumption` |
| `JtagScanProofs` | `ScanReachesDevice` | `SwjPortAssumption` |
| `ProxyConnectionsProofs` | `ParserInSync`, `PayloadUnmasked`, `AnswersPerFrame`, `UrbExchange` | `WsStreamAssumption`, `UsbipStreamAssumption` |
| `WifiManagerProofs` | `LockHasOwner`, `EndlessHasTask` | `WifiAssumption` |
| `UartBridgeProofs` | `RecvNeverBlocks`, `ServesItsClient`, `UartInOrder` | `UartBridgeAssumption` |

The assumptions say what the constants are: bounds are natural numbers, rings and queues hold something, a
buffer of the WebSocket server holds the longest header (14 bytes) and the text buffer is no larger, no
frame has 4 GiB or more but one that is refused for it, names that
stand for "none" name nothing else, only a submitted OUT URB carries data, turnarounds, idle cycles and lengths of
sequences are those the protocol can encode, the chip is one of the three. A JTAG chain has at most `DAP_JTAG_DEV_CNT` devices and every instruction
register at least a bit; `DAP_JTAG_Configure` leaves both to the host, as a chain without them does not exist.

### The pipeline

The invariant is `IInv`: the properties themselves, and what makes them inductive. `MuxInv`: who is between
the deletion of the rings and their being set to NULL. `HandleInv`: a ring that is not live is empty, so a
restart takes packets away only together with the claim about them, and a task blocked on a ring is blocked on a
live one. `ReqInv`: `fast_reply` is entered with a command outstanding. `ServingInv`: while a clean USBIP
connection is served no restart is pending or under way; this is what keeps its rings its own, and it holds
because only cleanup raises the flag and `AtRest` says it is down. `WedgeNeedsOverload` then is arithmetic: both
rings full, one command in each task's hands.

`CleanInv` follows a clean connection of any protocol to its end. While it is served as USBIP, `Serving`; an
elaphureLink or WebSocket connection deletes the rings itself and finds `DAP_Thread` asleep (`Asleep`); cleanup finds
it running or asleep, notifies it, and until the next connection the restart is under way (`Restarting`) or
served (`Restarted`). Asleep and notified with no ring left, `DAP_Thread` cannot but serve it; that is
`CleanConnectionRestarts`. `FreedInv` rules out a ring that is freed and not yet forgotten outside the lock.

`PipelineIsService` is the refinement, under the mapping that `DapPipeline` states. `Pending`, the commands a
connection still waits for, is a concatenation of what is in `ringOUT`, in the tasks' hands and in `ringIN`; the mapping takes the
numbers of these commands. `SubmitAppends` and `OldestLeaves` show that a submit appends to it and that
the answer and the withdrawal take its head; `MovesKeep` that a packet moving from one place to the next leaves it as it
is. The other actions are stutters (`OtherStepsIdle`), and a connection opens with both rings empty (`OpenEmpty`).

### The web server

`WebApiProofs`: the invariant `IInv` adds to the properties only `HoldInv`, that a task holds a buffer exactly while it
works on a request. The work is in the counting. `CopiesAppend` and `CopiesTail` say what a send to and a receive from
a queue do to the number of places of a buffer (the second by a bijection between positions), `PoolHasRoom` that a queue
without repetition that lacks a buffer is shorter than the number of buffers (an injection into the others).
So a buffer that a task holds, or that is at the head of httpd's work, is not in the pool (`NotInPool`), putting it back
succeeds (`PutSucceeds`), and each action moves one buffer from one place to another or none at all (`NothingMoves`).

`WebRequestProofs` builds on that. By conservation a buffer that is not in the pool is in exactly one place
(`Exclusive`), so the state of the request in it can be read off its place: raw or parsed with httpd (`Handled`), accepted
while it waits for the runner (`Waits`), run (`HasRun`), printed in httpd's work (`Leaves`), released in the pool. That is
`RequestInv`; `RequestsInv` says it of every buffer, with `~fault`: no tree is deleted or used twice. `HttpdReleases`
and `CallbackReleases` cover the ways a request ends, on error paths and on success.

### The interpreter

`SwdPinsMatchSpeed` is inductive as it stands: the lemmas say which commands leave the three variables alone, so that only
Connect, Disconnect, SWJ_Clock and SWJ_Pins have to be looked at. `SequencesExact` and `BusHandover` need `LineInv`:
the last line operation was made with a configuration that can be set. From there they are
facts about sequences of clocks, not about steps: each part of a transfer is a repeated clock or a concatenation, and
lemmas say when a repetition fits the target's clocks and that fitting pieces fit when joined (`FitRep`, `FitJoin`,
`CoversJoin`), once for the bit-banged and once for the SPI transfer.

`ScanReachesDevice` (`JtagScanProofs`) is about data: the TAP controller is run along a scan of any length, and the bits for
the devices before the addressed one are a sum over the chain. `LeastNumber`, from the library's well-founded order of
finite sets, gives a set of numbers its least one, and `FirstFlaw` makes an induction of it: a set that has 0, and i
whenever it has i - 1, is all of `0..n`. With that `Sum` and `TapRun` are what any function satisfying their recursion ends
in (`SumIs`, `TapRunIs`), and partial sums exist and grow. `Leads(t, clocks, u)` says that clocks take the controller from t to u;
runs join (`LeadsOn`), so each part of a scan has a lemma of its own (`LeadsToShiftDR`, `LeadsIn`, `LeadsOut`, ...)
and a scan shifts the frame `Framed`: bypass bits, data, bypass bits (`InstructionBits`, `DataScanBits`). `DataSlice` and `BypassSlice`
cut it, `InstructionShares` and `DataShares` say where each device's bits are. The invariant, `ScanInv`, only says that the chain is one
`DAP_JTAG_Configure` made and that the last scans were made with it.

The transfer commands have four invariants, all for a list of requests of any length.

* `Confirming`: a write not yet confirmed still has its check ahead of it, or the response is not OK.
* `OnceInv`: `CommandOK` (the place in the loop fits the request, and a read is chained only to a posted one of the same
  port) and `Accesses` (what was issued are accesses of different requests up to `Reached`, in order, each at its own port).
* `DataInv`: `Delivered` requests have their words in the response, and when a read is posted the target's read
  buffer holds its word (`Pending`). At the end this is `ReadsInOrder`: only the last read can be missing, and it is only if
  the response is not OK.
* `SizeInv`: the request pointer stands after the bytes of the requests before this one, and after the operand unless that
  is loaded later; the one path that breaks it, the skipping after a failure, is excepted in `ConsumesRequest`.

### The connections

`WsInv` describes the parser by the frame it is at. `Layout` places the frames one after the other, `Buffer` says
that the buffer is the stretch of the stream from `head` to `rx`. `At(c)`: at frame c the parser either reads the header, whose
first byte is at `head` (`ReadingHeader`), or is in the payload, has handled `got[c]` bytes of it, has the mask
rotated by as many, and expects exactly the bytes up to the next frame (`ReadingPayload`); earlier binary frames had an
execution for each part, later ones are untouched. Each part of `co_websocket_process` keeps it (`HeaderStep`, `HandshakeKeeps`,
`RecvKeeps`, `PayloadKeeps`), and so does the client's sending (`SendKeeps`). `FastMask` is the alignment: bytes up to a word boundary, words,
and the rest have each the right byte of the key.

`UsbInv` says that what the server still reads is what the host still owes of its message, that a header whose data are being
read is in network order, and how the reply to each message is sent.

### The Wi-Fi manager

The invariant `Inductive` adds where each kind of task can be (`Placed`), so that creating a task never
disturbs another one, and what `ctx.task` can be. A lock that is taken and not stranded is `Owned`: some task is at a point
from which it gives it, or Ltask is gone. The argument is a case split by who takes a
step: a task that moves keeps the lock's owner unless it gives the lock (`OneMoves`), creating tasks
only adds (`StartsKeep`, `MovesAndStarts`), and whichever task a stale handle deletes, the one that deletes it then has the lock
itself (`LDeletes`). For `EndlessHasTask` (`Pointed`) the steps that can end a task that `ctx.task` names, its own end and a deletion,
clear `is_endless_connect`; Ltask deleting itself, which does not, is the exception.

### The UART bridge

`RecvNeverBlocks` follows from `Bounded`, which is the property for deleted connections as well: an event that is still
queued when its connection is deleted must not make the count wrong. `CountAppend` and `CountTail` are what
the queue does to the number of events of one connection.

`ServesItsClient` and `UartInOrder` need to know when a connection is accepted. `InTurn`: each waiting connection has a Listen event of
its own in the queue, in the order in which they wait and ahead of all its data events (`TurnJoins`, `TurnListen`, `TurnData`, `TurnEvent`
keep that). So, as long as nothing `disturbed` the bridge, a connection is accepted or refused before its data is
looked at, and an event the task takes is of the one served (`EventOfServed`). `Copied` then is that what was written to
the UART followed by what is unread is what the client sent, its first fragment less a baud rate.

### Left to TLC

* Liveness, which needs fairness and ENABLED: `ReplyDelivered`, `ComesToRest`, `RunnerReturns`, `Answered`, `FramesHandled`,
  `ReceivedIsRead`, `ListFollowsSessions`.

## Next

In the order of their worth: a model of the stale descriptor an answer goes to (`uri_ws.c:303`) joining `WebApi` and
`WsClients`; liveness of the Wi-Fi manager, which needs a model of how long its
time-outs are compared with each other.

## Not modelled

* kcp: vendored, and its user was removed from this firmware.
* SWO.c, UART.c: compiled out (`SWO_FUNCTION_ENABLE` and `DAP_UART` are 0 in `DAP_config.h`).
* `DAP_Info`, `DAP_HostStatus`, `DAP_Delay` and the empty vendor commands: they keep no state and touch no line.
* SSDP: each datagram is answered by itself; `ssdp_stop` has no caller.
* `uart_bridge_close` has no caller; `need_unlock` of the Wi-Fi manager is never set.
* The content of USB descriptors and of HTML pages: constant data; their lengths are in `UsbipStream`.
* GPIO and SPI register access and timing loops: their effect on pins and clocks is in `SwjPort`.
* The search for HTTP headers in the WebSocket handshake: a choice of good and bad requests.
* mDNS, LED, system information, the storage wrappers: calls of ESP-IDF that pass values through; what
  Wi-Fi keeps in flash is in `WifiManager`.
* Start-up and the registration of URI and API modules: a fixed sequence of calls.

`PROJECT.json` lists every part with its state.
