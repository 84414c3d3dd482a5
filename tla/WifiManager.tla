---------------------------- MODULE WifiManager ----------------------------
(***************************************************************************)
(* The Wi-Fi manager (project_components/wifi_manager): connecting,        *)
(* scanning and changing the mode from the API, reconnecting by a task     *)
(* that the event loop starts, and the delayed tasks that open and close   *)
(* the access point.                                                       *)
(*                                                                         *)
(* The tasks are Ltask of the request runner ("L": scan and connect), the  *)
(* HTTP server ("H": mode and disconnect), reconnection tasks and delayed  *)
(* tasks.  A step of a task goes from one blocking call, one operation of  *)
(* ctx.lock, or one use of is_endless_connect and ctx.task, to the next.   *)
(* The event loop has a higher priority than all of them: an event of the  *)
(* driver and its handler are one step.                                    *)
(* ctx.lock is a binary semaphore: giving it when it is free does nothing, *)
(* and any task can give what another one took.  xTaskCreate may fail, and *)
(* none of its callers looks.                                              *)
(***************************************************************************)
EXTENDS Integers, Sequences, FiniteSets

CONSTANTS
    Recons, Stops, Starts,  \* bound: tasks of each function alive at a time
    Modes,          \* bound: the modes asked for over the API
    Channels,       \* 13 in the code
    Attempts,       \* bound: retries asked for, 3 and 2 in the code
    SavedModes,     \* bound: the mode in flash
    Limit,          \* 5 in the code: disconnections after which AP opens at once
    MaxInputs,      \* bound: calls of the API and connections that are lost
    MaxAutoInputs   \* bound: the same when the mode in flash is the automatic one

Delayed == Stops \cup Starts
Tasks == {"L", "H"} \cup Recons \cup Delayed

ASSUME WifiAssumption ==
    /\ IsFiniteSet(Tasks) /\ Recons # {} /\ Starts # {}
    /\ "L" \notin Recons \cup Delayed /\ {"none", "nobody"} \cap Tasks = {}
    /\ Recons \cap Delayed = {} /\ "H" \notin Recons \cup Delayed
    /\ Channels \in Nat \ {0} /\ Limit \in Nat

VARIABLES
    lock,           \* ctx.lock: free, taken, or taken for a task that was not created
    task,           \* ctx.task
    union,          \* ctx.conn.event, or ctx.scan.ap, which is in the same place
    is_endless_connect, auto_reconnect, do_fast_connect, is_sta_connected,
    try_connect_count,
    permanent_mode, mode,
    delayed_stopAP_task, delayed_startAP_task,
    event_ctx,      \* event_ctx: conn.attempt, conn.cb set, is_connected
    cred, saved,    \* flash: a credential is stored; the stored mode
    drv,            \* driver: its mode
    link,           \* driver: state of the station
    scanning,       \* driver: a scan is running
    pc,             \* where each task is
    note,           \* tasks with a notification pending
    call,           \* Ltask's call, and its locals channel, broke_endless_connect
    asked, new_mode,\* locals of wifi_manager_change_mode
    inputs          \* calls and lost connections still allowed, for the bound

flags == <<is_endless_connect, auto_reconnect, do_fast_connect, is_sta_connected>>
ap == <<try_connect_count, delayed_stopAP_task, delayed_startAP_task>>
modes == <<permanent_mode, mode, drv>>
flash == <<cred, saved>>
radio == <<link, scanning>>
vars == <<lock, task, union, flags, ap, modes, event_ctx, flash, radio, pc, note,
          call, asked, new_mode, inputs>>

NoCall == [name |-> "none", channel |-> 0, broke |-> FALSE]

----------------------------------------------------------------------------
(* Tasks, notifications and modes *)

Free(p, S) == {s \in S : p[s] = "off"}
Created(p, S) == CHOOSE s \in Free(p, S) : TRUE

\* xTaskCreate: a slot of S starts at point at, or there is no memory for it.
xTaskCreate(p, S, at) ==
    {p} \cup IF Free(p, S) = {} THEN {} ELSE {[p EXCEPT ![Created(p, S)] = at]}

\* A task that starts has no notification.
Started(p, q) == {t \in Tasks : p[t] = "off" /\ q[t] # "off"}

\* The tasks a handle may stand for.  The memory of a task that has ended is
\* nobody's, or another task's that was created: any of these.
Alive(t) == t \in Tasks /\ pc[t] \notin {"off", "gone"}
Named(handle) ==
    IF Alive(handle) THEN {handle}
    ELSE {"nobody"} \cup {t \in Recons \cup Delayed : Alive(t)}

\* xTaskNotifyGive to a handle that may be NULL.  A notification makes a difference
\* to Ltask and to a delayed task that waits.
Heeds == {"L"} \cup {s \in Delayed : pc[s] = "wait"}
Given(n, handle) ==
    IF handle = "none" THEN {n}
    ELSE {n \cup ({t} \cap Heeds) : t \in Named(handle)}

\* vTaskDelete of another task.
Deleted(handle) ==
    {[t \in Tasks |-> IF t = x THEN "off" ELSE pc[t]] : x \in Named(handle)}

\* set_wifi_mode: the driver's mode for what was asked, a set of interfaces.
NewMode(m) ==
    CASE m = "AP_AUTO_STA_ON" -> IF is_sta_connected THEN {"STA"} ELSE {"AP", "STA"}
      [] m = "AP_STA_OFF"     -> {}
      [] m = "AP_ON_STA_OFF"  -> {"AP"}
      [] m = "AP_OFF_STA_ON"  -> {"STA"}
      [] m = "AP_STA_ON"      -> {"AP", "STA"}
      [] m = "AP_STOP"        -> mode \ {"AP"}
      [] m = "AP_START"       -> mode \cup {"AP"}
      [] m = "STA_STOP"       -> mode \ {"STA"}
      [] m = "STA_START"      -> mode \cup {"STA"}

Permanent == {"AP_AUTO_STA_ON", "AP_STA_OFF", "AP_ON_STA_OFF", "AP_OFF_STA_ON", "AP_STA_ON"}
\* An input from outside: a call of the API, or a lost connection.
Input == inputs > 0 /\ inputs' = inputs - 1

IsAuto == permanent_mode = "AP_AUTO_STA_ON"

----------------------------------------------------------------------------
(* The driver *)

CanConnect == link = "down" /\ "STA" \in drv
Left == IF link = "down" THEN "down" ELSE "leaving"

\* wifi_event_trigger_connect: a connected station is disconnected first, and
\* the event of that makes the first attempt.
TriggerOk == event_ctx.is_connected \/ CanConnect
Triggered == IF event_ctx.is_connected THEN Left
             ELSE IF CanConnect THEN "connecting" ELSE link
WithAttempts(n) == [event_ctx EXCEPT !.attempt = n, !.cb = TRUE]

\* The driver is told what differs from ctx.mode, and without station drops the
\* connection.
SetDriver(m) ==
    /\ drv' = IF m = mode THEN drv ELSE m
    /\ link' = IF "STA" \in drv' THEN link ELSE Left

----------------------------------------------------------------------------
(* handle_wifi_connected and disconn_handler, as parts of a caller's step  *)
(* that has made p of pc and n of note, and finds l in lock                *)

handle_wifi_connected(p, n) ==
    /\ is_sta_connected' = TRUE
    /\ \E told \in Given(n, delayed_startAP_task) :
       IF IsAuto
       THEN /\ pc' \in xTaskCreate(p, Stops, "wait")
            /\ delayed_stopAP_task' = IF pc' = p THEN delayed_stopAP_task
                                                ELSE Created(p, Stops)
            /\ note' = told \ Started(p, pc')
       ELSE /\ pc' = p /\ note' = told
            /\ UNCHANGED delayed_stopAP_task
    /\ UNCHANGED <<try_connect_count, delayed_startAP_task>>

Reconnects(l) == auto_reconnect /\ l = "free"

\* The reconnection task inherits the lock; one that was not created never gives it.
Inherited(p, l) ==
    IF ~Reconnects(l) THEN l
    ELSE IF Started(p, pc') \cap Recons = {} THEN "stranded" ELSE "taken"

\* handle_wifi_disconnected, then the reconnection task.
disconn_handler(p, n, l) ==
    \E told \in Given(n, delayed_stopAP_task),
       p1 \in IF IsAuto THEN xTaskCreate(p, Starts, "wait") ELSE {p} :
        /\ is_sta_connected' = FALSE
        /\ pc' \in IF Reconnects(l) THEN xTaskCreate(p1, Recons, "new") ELSE {p1}
        /\ note' = told \ Started(p, pc')
        /\ do_fast_connect' = (do_fast_connect \/ Reconnects(l))
        /\ delayed_startAP_task' = IF p1 = p THEN delayed_startAP_task ELSE Created(p, Starts)
        /\ try_connect_count' = IF IsAuto /\ try_connect_count <= Limit
                                THEN try_connect_count + 1 ELSE try_connect_count
        /\ UNCHANGED delayed_stopAP_task

----------------------------------------------------------------------------
(* Start-up *)

\* wifi_manager_init: the manager's state after it, for stored credential c and
\* mode m.  Without station the access point is opened as well; there is memory
\* for the tasks.
Booted(c, m) ==
    [lock |-> IF c THEN "taken" ELSE "free",
     auto |-> m = "AP_AUTO_STA_ON",
     mode |-> IF m = "AP_ON_STA_OFF" THEN {"AP"} ELSE {"AP", "STA"},
     pc |-> [t \in Tasks |->
               IF t \in {"L", "H"} THEN "idle"
               ELSE IF c /\ t = Created([s \in Tasks |-> "off"], Recons) THEN "new"
               ELSE IF c /\ m = "AP_AUTO_STA_ON"
                         /\ t = Created([s \in Tasks |-> "off"], Starts) THEN "wait"
               ELSE "off"]]

Init ==
    /\ cred \in BOOLEAN /\ saved \in SavedModes
    /\ permanent_mode = saved
    /\ LET b == Booted(cred, saved) IN
       /\ lock = b.lock /\ pc = b.pc /\ mode = b.mode /\ drv = b.mode
       /\ delayed_startAP_task = IF cred /\ b.auto THEN Created([s \in Tasks |-> "off"], Starts)
                                                   ELSE "none"
       /\ try_connect_count = IF cred /\ b.auto THEN 1 ELSE 0
    /\ task = "none" /\ union = "null"
    /\ is_endless_connect = FALSE /\ auto_reconnect = TRUE
    /\ do_fast_connect = cred /\ is_sta_connected = FALSE
    /\ delayed_stopAP_task = "none"
    /\ event_ctx = [attempt |-> 0, cb |-> FALSE, is_connected |-> FALSE]
    /\ link = "down" /\ scanning = FALSE
    /\ note = {} /\ call = NoCall
    /\ asked = "none" /\ new_mode = {}
    /\ inputs = IF IsAuto THEN MaxAutoInputs ELSE MaxInputs

\* A panic restarts the chip; the flash keeps the credential and the mode.
Restart ==
    /\ LET b == Booted(cred, saved) IN
       /\ lock' = b.lock /\ pc' = b.pc /\ mode' = b.mode /\ drv' = b.mode
       /\ delayed_startAP_task' = IF cred /\ b.auto THEN Created([s \in Tasks |-> "off"], Starts)
                                                    ELSE "none"
       /\ try_connect_count' = IF cred /\ b.auto THEN 1 ELSE 0
    /\ permanent_mode' = saved
    /\ task' = "none" /\ union' = "null"
    /\ is_endless_connect' = FALSE /\ auto_reconnect' = TRUE
    /\ do_fast_connect' = cred /\ is_sta_connected' = FALSE
    /\ delayed_stopAP_task' = "none"
    /\ event_ctx' = [attempt |-> 0, cb |-> FALSE, is_connected |-> FALSE]
    /\ link' = "down" /\ scanning' = FALSE
    /\ note' = {} /\ call' = NoCall
    /\ asked' = "none" /\ new_mode' = {}
    /\ UNCHANGED <<flash, inputs>>

----------------------------------------------------------------------------
(* Ltask: wifi_manager_get_scan_list and wifi_manager_connect *)

\* The lock, without waiting.  A scan that has it looks for a reconnection task
\* that pauses, a connect does not.
LTake(name) ==
    /\ pc["L"] = "idle" /\ Input
    /\ call' = [NoCall EXCEPT !.name = name]
    /\ IF lock = "free"
       THEN /\ lock' = "taken"
            /\ pc' = [pc EXCEPT !["L"] = IF name = "scan" THEN "took" ELSE "begin"]
       ELSE /\ pc' = [pc EXCEPT !["L"] = "refused"]
            /\ UNCHANGED lock
    /\ UNCHANGED <<task, union, flags, ap, modes, event_ctx, flash, radio, note,
                   asked, new_mode>>

LTook ==
    /\ pc["L"] = "took"
    /\ pc' = [pc EXCEPT !["L"] = IF is_endless_connect THEN "delay" ELSE "begin"]
    /\ UNCHANGED <<lock, task, union, flags, ap, modes, event_ctx, flash, radio, note,
                   call, asked, new_mode, inputs>>

\* The lock is taken: if nothing reconnects the call returns 1.
LRefused ==
    /\ pc["L"] = "refused"
    /\ pc' = [pc EXCEPT !["L"] = IF is_endless_connect THEN "connecting" ELSE "idle"]
    /\ call' = IF is_endless_connect THEN call ELSE NoCall
    /\ UNCHANGED <<lock, task, union, flags, ap, modes, event_ctx, flash, radio, note,
                   asked, new_mode, inputs>>

Deleting == pc["L"] \in {"delay", "connecting"}

\* vTaskDelete(ctx.task), which may have changed since is_endless_connect was
\* read.  A scan then takes what the task had taken, and gives the connection up.
LDelete ==
    /\ Deleting /\ task \notin {"L", "none"}
    /\ \E p \in Deleted(task) : pc' = [p EXCEPT !["L"] = "begin"]
    /\ is_endless_connect' = FALSE
    /\ call' = [call EXCEPT !.broke = TRUE]
    /\ IF call.name = "scan" /\ pc["L"] = "connecting"
       THEN lock' = "taken" /\ link' = Left
       ELSE UNCHANGED <<lock, link>>
    /\ UNCHANGED <<task, union, auto_reconnect, do_fast_connect, is_sta_connected, ap, modes,
                   event_ctx, flash, scanning, note, asked, new_mode, inputs>>

\* ctx.task is Ltask after a connect in the pause of a reconnection task, and NULL
\* before the first one has set it: Ltask deletes itself and keeps what it took.
LDeletesItself ==
    /\ Deleting /\ task \in {"L", "none"}
    /\ pc' = [pc EXCEPT !["L"] = "gone"]
    /\ UNCHANGED <<lock, task, union, flags, ap, modes, event_ctx, flash, radio, note,
                   call, asked, new_mode, inputs>>

\* The memory of a task that has ended is read and written: a panic.
Notifies == scanning \/ (event_ctx.cb /\ link \in {"connecting", "assoc", "leaving"})
WildTask ==
    /\ Deleting \/ Notifies
    /\ task # "none" /\ ~Alive(task)
    /\ Restart

ScanStart ==
    /\ pc["L"] = "begin" /\ call.name = "scan"
    /\ pc' = [pc EXCEPT !["L"] = "scan"]
    /\ call' = [call EXCEPT !.channel = 1]
    /\ union' = "aps"
    /\ task' = "L"
    /\ UNCHANGED <<lock, flags, ap, modes, event_ctx, flash, radio, note, asked, new_mode,
                   inputs>>

\* wifi_event_trigger_scan of the next channel.  A callback of a connection may
\* have put NULL or an event in the place of ctx.scan.ap: a NULL is noticed when
\* nothing was found on the channels before, any other address is written to.
ScanChannel ==
    /\ pc["L"] = "scan"
    /\ IF union = "null" \/ scanning \/ link = "connecting" \/ "STA" \notin drv
       THEN pc' = [pc EXCEPT !["L"] = "scanned"] /\ UNCHANGED scanning
       ELSE /\ pc' = [pc EXCEPT !["L"] = "scanwait"]
            /\ scanning' = TRUE
    /\ UNCHANGED <<lock, task, union, flags, ap, modes, event_ctx, flash, link,
                   note, call, asked, new_mode, inputs>>

WildScan ==
    /\ pc["L"] = "scan"
    /\ union = "ip" \/ (union = "null" /\ call.channel > 1)
    /\ Restart

\* A notification, or one second.
ScanWait ==
    /\ pc["L"] = "scanwait"
    /\ note' = note \ {"L"}
    /\ IF "L" \in note /\ call.channel < Channels
       THEN /\ pc' = [pc EXCEPT !["L"] = "scan"]
            /\ call' = [call EXCEPT !.channel = @ + 1]
       ELSE /\ pc' = [pc EXCEPT !["L"] = "scanned"]
            /\ UNCHANGED call
    /\ UNCHANGED <<lock, task, union, flags, ap, modes, event_ctx, flash, radio,
                   asked, new_mode, inputs>>

ScanGive_NotAfterError ==
    /\ pc["L"] = "scanned"
    /\ lock' = IF call.channel = Channels THEN "free" ELSE lock
    /\ pc' = [pc EXCEPT !["L"] = IF call.broke THEN "redo" ELSE "idle"]
    /\ call' = NoCall
    /\ UNCHANGED <<task, union, flags, ap, modes, event_ctx, flash, radio, note,
                   asked, new_mode, inputs>>

ScanGive ==
    /\ pc["L"] = "scanned"
    /\ lock' = "free"
    /\ pc' = [pc EXCEPT !["L"] = IF call.broke THEN "redo" ELSE "idle"]
    /\ call' = NoCall
    /\ UNCHANGED <<task, union, flags, ap, modes, event_ctx, flash, radio, note,
                   asked, new_mode, inputs>>

\* set_default_sta_cred and disconn_handler, after a scan that broke off a
\* reconnection and after a failed connect.
Redo ==
    LET p == [pc EXCEPT !["L"] = "idle"] IN
    /\ pc["L"] = "redo"
    /\ IF cred
       THEN disconn_handler(p, note, lock) /\ lock' = Inherited(p, lock)
       ELSE pc' = p /\ UNCHANGED <<lock, do_fast_connect, is_sta_connected, ap, note>>
    /\ UNCHANGED <<task, union, is_endless_connect, auto_reconnect, modes, event_ctx, flash,
                   radio, call, asked, new_mode, inputs>>

ConnectStart ==
    /\ pc["L"] = "begin" /\ call.name = "connect"
    /\ pc' = [pc EXCEPT !["L"] = "conn"]
    /\ auto_reconnect' = TRUE
    /\ task' = "L"
    /\ event_ctx' = WithAttempts(Attempts)
    /\ link' = Triggered
    /\ UNCHANGED <<lock, union, is_endless_connect, do_fast_connect, is_sta_connected, ap,
                   modes, flash, scanning, note, call, asked, new_mode, inputs>>

\* A notification, or ten seconds.
ConnectWait ==
    /\ pc["L"] = "conn"
    /\ note' = note \ {"L"}
    /\ lock' = "free"
    /\ pc' = [pc EXCEPT !["L"] = IF "L" \in note /\ union # "null" THEN "connected"
                                                                   ELSE "redo"]
    /\ call' = NoCall
    /\ UNCHANGED <<task, union, flags, ap, modes, event_ctx, flash, radio,
                   asked, new_mode, inputs>>

\* wifi_data_save_sta_ap_credential may fail.
ConnectDone ==
    /\ pc["L"] = "connected"
    /\ handle_wifi_connected([pc EXCEPT !["L"] = "idle"], note)
    /\ cred' \in {cred, TRUE}
    /\ UNCHANGED <<lock, task, union, is_endless_connect, auto_reconnect, do_fast_connect,
                   modes, event_ctx, saved, radio, call, asked, new_mode, inputs>>

----------------------------------------------------------------------------
(* HTTP server: wifi_manager_change_mode and wifi_manager_disconnect *)

ChangeMode(m) ==
    /\ pc["H"] = "idle" /\ Input
    /\ IF permanent_mode = m
       THEN UNCHANGED <<pc, asked>>
       ELSE pc' = [pc EXCEPT !["H"] = "mode"] /\ asked' = m
    /\ UNCHANGED <<lock, task, union, flags, ap, modes, event_ctx, flash, radio, note,
                   call, new_mode>>

\* The lock within two seconds, or an error.
ModeTake ==
    /\ pc["H"] = "mode"
    /\ IF lock = "free"
       THEN /\ lock' = "taken"
            /\ pc' = [pc EXCEPT !["H"] = "set"]
            /\ \E told \in Given(note, delayed_stopAP_task) :
                  note' \in Given(told, delayed_startAP_task)
            /\ UNCHANGED asked
       ELSE /\ pc' = [pc EXCEPT !["H"] = "idle"]
            /\ asked' = "none"
            /\ UNCHANGED <<lock, note>>
    /\ UNCHANGED <<task, union, flags, ap, modes, event_ctx, flash, radio, call,
                   new_mode, inputs>>

\* set_wifi_mode and what follows it.  When the station comes back the lock is
\* given before ctx.mode is assigned.
ModeSet(ok) ==
    LET new == NewMode(asked)
        reco == ok /\ "STA" \notin mode /\ "STA" \in new
    IN  /\ pc["H"] = "set"
        /\ permanent_mode' = IF asked \in Permanent THEN asked ELSE permanent_mode
        /\ IF ok THEN SetDriver(new) ELSE UNCHANGED <<drv, link>>
        /\ IF ~ok \/ reco THEN UNCHANGED mode ELSE mode' = new
        /\ lock' = "free"
        /\ pc' = [pc EXCEPT !["H"] = IF reco THEN "reco" ELSE "idle"]
        /\ new_mode' = IF reco THEN new ELSE {}
        /\ asked' = IF reco THEN asked ELSE "none"
        /\ saved' = IF ok /\ ~reco /\ asked \in Permanent THEN asked ELSE saved
        /\ UNCHANGED <<task, union, flags, ap, event_ctx, cred, scanning, note,
                       call, inputs>>

\* disconn_handler, and the lock is given once more.
ModeReco ==
    /\ pc["H"] = "reco"
    /\ disconn_handler([pc EXCEPT !["H"] = "idle"], note, lock)
    /\ lock' = "free"
    /\ mode' = new_mode /\ new_mode' = {}
    /\ saved' = IF asked \in Permanent THEN asked ELSE saved
    /\ asked' = "none"
    /\ UNCHANGED <<task, union, is_endless_connect, auto_reconnect, permanent_mode, drv,
                   event_ctx, cred, radio, call, inputs>>

Disconnect ==
    /\ pc["H"] = "idle" /\ Input
    /\ auto_reconnect' = FALSE
    /\ link' = Left
    /\ UNCHANGED <<lock, task, union, is_endless_connect, do_fast_connect, is_sta_connected, ap,
                   modes, event_ctx, flash, scanning, pc, note, call, asked,
                   new_mode>>

----------------------------------------------------------------------------
(* reconnection_task *)

ReconBegin(r) ==
    /\ pc[r] = "new"
    /\ is_endless_connect' = TRUE
    /\ pc' = [pc EXCEPT ![r] = "begun"]
    /\ UNCHANGED <<lock, task, union, auto_reconnect, do_fast_connect, is_sta_connected, ap,
                   modes, event_ctx, flash, radio, note, call, asked, new_mode, inputs>>

ReconTask(r) ==
    /\ pc[r] = "begun"
    /\ task' = r
    /\ pc' = [pc EXCEPT ![r] = "try"]
    /\ UNCHANGED <<lock, union, flags, ap, modes, event_ctx, flash, radio, note, call, asked,
                   new_mode, inputs>>

\* wifi_event_trigger_connect, or the end of the loop when it fails.
ReconTry(r) ==
    /\ pc[r] = "try"
    /\ event_ctx' = WithAttempts(IF do_fast_connect THEN Attempts ELSE 0)
    /\ do_fast_connect' = FALSE
    /\ link' = Triggered
    /\ pc' = [pc EXCEPT ![r] = IF TriggerOk THEN "wait" ELSE "ended"]
    /\ UNCHANGED <<lock, task, union, is_endless_connect, auto_reconnect, is_sta_connected, ap,
                   modes, flash, scanning, note, call, asked, new_mode, inputs>>

\* A notification, or twenty seconds.
ReconWait(r) ==
    LET n == note \ {r}
        ends == union # "null" \/ ~auto_reconnect
        p == [pc EXCEPT ![r] = IF ends THEN "ended" ELSE "pause"]
    IN  /\ pc[r] = "wait"
        /\ lock' = IF ends THEN lock ELSE "free"
        /\ IF union # "null"
           THEN handle_wifi_connected(p, n)
           ELSE pc' = p /\ note' = n /\ UNCHANGED <<is_sta_connected, ap>>
        /\ UNCHANGED <<task, union, is_endless_connect, auto_reconnect, do_fast_connect, modes,
                       event_ctx, flash, radio, call, asked, new_mode, inputs>>

\* After five seconds the lock is taken again, or the loop ends.
ReconPause(r) ==
    /\ pc[r] = "pause"
    /\ pc' = [pc EXCEPT ![r] = IF lock = "free" THEN "try" ELSE "ended"]
    /\ lock' = IF lock = "free" THEN "taken" ELSE lock
    /\ UNCHANGED <<task, union, flags, ap, modes, event_ctx, flash, radio, note, call, asked,
                   new_mode, inputs>>

ReconEnd_StaysEndless(r) ==
    /\ pc[r] = "ended"
    /\ lock' = "free"
    /\ pc' = [pc EXCEPT ![r] = "off"]
    /\ UNCHANGED <<task, union, flags, ap, modes, event_ctx, flash, radio, note, call, asked,
                   new_mode, inputs>>

\* The lock is given whoever has it.
ReconEnd(r) ==
    /\ pc[r] = "ended"
    /\ is_endless_connect' = FALSE
    /\ lock' = "free"
    /\ pc' = [pc EXCEPT ![r] = "off"]
    /\ UNCHANGED <<task, union, auto_reconnect, do_fast_connect, is_sta_connected, ap, modes,
                   event_ctx, flash, radio, note, call, asked, new_mode, inputs>>

----------------------------------------------------------------------------
(* delayed_set_ap_stop and delayed_set_ap_start *)

\* The wait ends by a notification or by time; the task that opens the access
\* point does not wait when connections keep failing.
DelayedWake(s) ==
    /\ pc[s] = "wait"
    /\ LET told == s \in note /\ ~(s \in Starts /\ try_connect_count > Limit)
       IN  pc' = [pc EXCEPT ![s] = IF told THEN "told" ELSE "timeout"]
    /\ note' = note \ {s}
    /\ UNCHANGED <<lock, task, union, flags, ap, modes, event_ctx, flash, radio, call,
                   asked, new_mode, inputs>>

\* The lock within ten seconds; without it the task goes on all the same.
DelayedTake(s) ==
    /\ pc[s] \in {"told", "timeout"}
    /\ lock' = "taken"
    /\ pc' = [pc EXCEPT ![s] = IF @ = "told" THEN "ending" ELSE "switching"]
    /\ UNCHANGED <<task, union, flags, ap, modes, event_ctx, flash, radio, note, call,
                   asked, new_mode, inputs>>

DelayedEnd(s, ok) ==
    LET acts == pc[s] = "switching" /\ (s \in Starts => IsAuto)
        new == NewMode(IF s \in Stops THEN "AP_STOP" ELSE "AP_START")
    IN  /\ pc[s] \in {"ending", "switching"}
        /\ IF acts /\ ok THEN SetDriver(new) /\ mode' = new
                         ELSE UNCHANGED <<drv, link, mode>>
        /\ try_connect_count' = IF acts THEN 0 ELSE try_connect_count
        /\ delayed_stopAP_task' = IF s \in Stops THEN "none" ELSE delayed_stopAP_task
        /\ delayed_startAP_task' = IF s \in Starts THEN "none" ELSE delayed_startAP_task
        /\ lock' = "free"
        /\ pc' = [pc EXCEPT ![s] = "off"]
        /\ note' = note \ {s}
        /\ UNCHANGED <<task, union, flags, permanent_mode, event_ctx, flash, scanning,
                       call, asked, new_mode, inputs>>

----------------------------------------------------------------------------
(* The driver's events: wifi_event_handler and ip_event_handler *)

\* try_connect_done(arg, event): the outcome, and a notification to ctx.task.
try_connect_done(event) ==
    /\ union' = event
    /\ note' \in Given(note, task)

OnConnected ==
    /\ link = "connecting"
    /\ link' = "assoc"
    /\ event_ctx' = [event_ctx EXCEPT !.is_connected = TRUE]
    /\ UNCHANGED <<lock, task, union, flags, ap, modes, flash, scanning, pc, note,
                   call, asked, new_mode, inputs>>

OnGotIp ==
    /\ link = "assoc"
    /\ link' = "up"
    /\ IF event_ctx.cb THEN try_connect_done("ip") ELSE UNCHANGED <<union, note>>
    /\ event_ctx' = [event_ctx EXCEPT !.attempt = 0, !.cb = FALSE]
    /\ UNCHANGED <<lock, task, flags, ap, modes, flash, scanning, pc, call,
                   asked, new_mode, inputs>>

\* The station was refused, has left, or was dropped by the access point.
Disconnected ==
    \/ link \in {"connecting", "leaving"} /\ UNCHANGED inputs
    \/ link \in {"assoc", "up"} /\ Input

\* reconnect_after_disco with attempts left.
OnDisconnectedRetry ==
    /\ Disconnected
    /\ event_ctx.attempt > 0 /\ "STA" \in drv
    /\ link' = "connecting"
    /\ event_ctx' = [event_ctx EXCEPT !.is_connected = FALSE, !.attempt = @ - 1]
    /\ UNCHANGED <<lock, task, union, flags, ap, modes, flash, scanning, pc, note, call,
                   asked, new_mode>>

\* Without: the connection failed, or was lost and is to be made again.
OnDisconnected ==
    /\ Disconnected
    /\ event_ctx.attempt = 0 \/ "STA" \notin drv
    /\ link' = "down"
    /\ event_ctx' = [attempt |-> 0, cb |-> FALSE, is_connected |-> FALSE]
    /\ IF event_ctx.cb
       THEN /\ try_connect_done("null")
            /\ UNCHANGED <<lock, pc, do_fast_connect, is_sta_connected, ap>>
       ELSE /\ disconn_handler(pc, note, lock)
            /\ lock' = Inherited(pc, lock)
            /\ UNCHANGED union
    /\ UNCHANGED <<task, is_endless_connect, auto_reconnect, modes, flash, scanning, call,
                   asked, new_mode>>

\* wifi_on_scan_done and wifi_event_scan_channel_done.
OnScanDone ==
    /\ scanning
    /\ scanning' = FALSE
    /\ note' \in Given(note, task)
    /\ UNCHANGED <<lock, task, union, flags, ap, modes, event_ctx, flash, link, pc, call,
                   asked, new_mode, inputs>>

----------------------------------------------------------------------------

Next ==
    \/ \E name \in {"scan", "connect"} : LTake(name)
    \/ LTook \/ LRefused \/ LDelete \/ LDeletesItself \/ WildTask
    \/ ScanStart \/ ScanChannel \/ WildScan \/ ScanWait \/ ScanGive
    \/ Redo \/ ConnectStart \/ ConnectWait \/ ConnectDone
    \/ \E m \in Modes : ChangeMode(m)
    \/ ModeTake \/ (\E ok \in BOOLEAN : ModeSet(ok)) \/ ModeReco \/ Disconnect
    \/ \E r \in Recons :
          ReconBegin(r) \/ ReconTask(r) \/ ReconTry(r) \/ ReconWait(r) \/ ReconPause(r) \/ ReconEnd(r)
    \/ \E s \in Delayed : DelayedWake(s) \/ DelayedTake(s) \/ \E ok \in BOOLEAN : DelayedEnd(s, ok)
    \/ OnConnected \/ OnGotIp \/ OnDisconnectedRetry \/ OnDisconnected \/ OnScanDone

Spec == Init /\ [][Next]_vars

----------------------------------------------------------------------------
(* Properties *)

\* The points from which a task is going to give the lock.
Holding == {"took", "delay", "begin", "scan", "scanwait", "scanned", "conn", "set",
            "new", "begun", "try", "wait", "ended"}
DelayedHolding == {"ending", "switching"}

\* ctx.lock is never lost: whoever deleted whom, and whoever gave what another
\* task took, while it is taken there is a task that is going to give it.  Only
\* Ltask, deleting itself, takes it along, and a reconnection task that cannot be
\* created leaves it "stranded" (wifi_manager.c:271-306, 346-362, 397-405, 494-503,
\* 561-600, 616-623).
LockHasOwner ==
    lock = "taken" =>
        \/ pc["L"] = "gone"
        \/ \E t \in Tasks \ Delayed : pc[t] \in Holding
        \/ \E s \in Delayed : pc[s] \in DelayedHolding

\* While is_endless_connect is set, ctx.task is a task that exists, also when
\* reconnection tasks, scans and connects have followed each other: but for a
\* reconnection task between its two assignments (wifi_manager.c:561, 562), and
\* for Ltask after it deleted itself.
EndlessHasTask ==
    is_endless_connect =>
        Alive(task) \/ (\E r \in Recons : pc[r] = "begun") \/ pc["L"] = "gone"

\* wifi_manager.c:495: "timeout: connected to STA without disconnection: close
\* AP" - when the wait of delayed_set_ap_stop times out the station is connected.
ClosesApConnected ==
    [][\A s \in Stops : pc[s] = "wait" /\ pc'[s] = "timeout" => is_sta_connected]_vars

=============================================================================
