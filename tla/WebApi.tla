------------------------------- MODULE WebApi -------------------------------
(***************************************************************************)
(* The life of an API request: the httpd task takes a buffer from the      *)
(* memory pool for every WebSocket frame and every POST, answers what it   *)
(* can and hands slow commands to the request runner; "Ltask" runs them    *)
(* and passes them on to the send-out task, whose callback answers, or for *)
(* WebSocket clients queues the answer as work for httpd.  The buffer, the *)
(* parsed request (json.in) and the result (json.out) travel along, and    *)
(* whoever ends the request must release all three, on every error path.   *)
(*                                                                         *)
(* A buffer stands for the request it holds.  The contents of requests are *)
(* reduced to what decides the path: the kind of request and the outcomes  *)
(* of parsing, routing and running it, chosen freely.                      *)
(*                                                                         *)
(* The buffer that the SSDP task keeps (ssdp.c:186), and the one the event *)
(* loop has for a moment (ssdp.c:334), are left out: the pool is what they *)
(* leave.                                                                  *)
(***************************************************************************)
EXTENDS Integers, Sequences, FiniteSets, Functions

CONSTANTS
  Buffer,        \* the buffers of the pool (of BUFFER_NR)
  NoBuf,         \* no buffer
  LongRunMax,    \* length of long_run_queue
  SendOutMax,    \* length of send_out_queue
  MaxRequests,   \* bound: WebSocket frames and POSTs httpd receives
  MaxSsdp        \* bound: buffers taken to answer /SSDP

ASSUME WebApiAssumption ==
  /\ IsFiniteSet(Buffer) /\ NoBuf \notin Buffer
  /\ LongRunMax \in Nat \ {0} /\ SendOutMax \in Nat \ {0}
  /\ MaxRequests \in Nat /\ MaxSsdp \in Nat

VARIABLES
  pool,       \* buf_queue
  httpd,      \* where the httpd task is, with which request and buffer
  longQ,      \* long_run_queue
  long,       \* where req_long_task is
  sendQ,      \* send_out_queue
  send,       \* where req_send_out_task is
  work,       \* work queued for httpd with httpd_queue_work
  msg,        \* the request in each buffer
  requests,   \* history: frames and POSTs received
  ssdp,       \* history: the buffers taken to answer /SSDP
  crashed,    \* an assert failed
  fault       \* a JSON tree was used or deleted after it was deleted

vars == <<pool, httpd, longQ, long, sendQ, send, work, msg, requests, ssdp, crashed, fault>>

Json == {"null", "live", "deleted"}

Msg == [kind    : {"frame", "text", "post"},  \* a text frame is an API request
        in      : Json,
        out     : Json,
        status  : {"none", "ok", "error"},    \* what send_out.cb is told
        begun   : BOOLEAN,   \* httpd_req_async_handler_begin, not yet completed
        answers : Nat,       \* history: responses sent
        closed  : BOOLEAN,   \* history: its connection is being closed
        unsent  : BOOLEAN]   \* history: httpd_queue_work failed

Fresh(k) == [kind |-> k, in |-> "null", out |-> "null", status |-> "none", begun |-> FALSE,
             answers |-> 0, closed |-> FALSE, unsent |-> FALSE]

HttpdAt == {"idle", "get", "handle", "push"}
TaskAt  == {"idle", "run", "push", "cb"}

Idle == [at |-> "idle", buf |-> NoBuf]

Init ==
  /\ pool = CHOOSE f \in [1..Cardinality(Buffer) -> Buffer] :
              \A i, j \in DOMAIN f : f[i] = f[j] => i = j
  /\ httpd = [at |-> "idle", buf |-> NoBuf, kind |-> "ws"]
  /\ longQ = <<>> /\ sendQ = <<>> /\ work = <<>>
  /\ long = Idle /\ send = Idle
  /\ msg = [b \in Buffer |-> Fresh("frame")]
  /\ requests = 0 /\ ssdp = {} /\ crashed = FALSE /\ fault = FALSE

(***************************************************************************)
(* Pieces.                                                                 *)
(***************************************************************************)

(* memory_pool_put: the queue has room for every buffer once.              *)
Put(b) ==
  IF Len(pool) < Cardinality(Buffer)
    THEN pool' = Append(pool, b) /\ UNCHANGED crashed
    ELSE UNCHANGED pool /\ crashed' = TRUE

(* cJSON_Delete, which accepts NULL and leaves the pointer as it was.      *)
Deleted(json) == IF json = "null" THEN "null" ELSE "deleted"

(* A response is sent and the parsed request released; json.out as well    *)
(* where the path prints it.                                               *)
Answered(m, printed) ==
  [m EXCEPT !.answers = @ + 1,
            !.in = Deleted(@),
            !.out = IF printed THEN Deleted(@) ELSE @]

HttpdIdle == httpd' = [httpd EXCEPT !.at = "idle", !.buf = NoBuf]

(***************************************************************************)
(* The httpd task.                                                         *)
(***************************************************************************)

(* A WebSocket frame, a POST to /api or a GET of /SSDP arrives.            *)
Request(k) ==
  /\ ~crashed /\ httpd.at = "idle"
  /\ IF k = "ssdp" THEN Cardinality(ssdp) < MaxSsdp ELSE requests < MaxRequests
  /\ httpd' = [at |-> "get", buf |-> NoBuf, kind |-> k]
  /\ requests' = IF k = "ssdp" THEN requests ELSE requests + 1
  /\ UNCHANGED <<pool, longQ, long, sendQ, send, work, msg, ssdp, crashed, fault>>

(* memory_pool_get finds a buffer within its timeout ...                   *)
PoolGet ==
  /\ ~crashed /\ httpd.at = "get" /\ httpd.kind # "ssdp" /\ pool # <<>>
  /\ pool' = Tail(pool)
  /\ httpd' = [httpd EXCEPT !.at = "handle", !.buf = Head(pool)]
  /\ msg' = [msg EXCEPT ![Head(pool)] = Fresh(IF httpd.kind = "post" THEN "post" ELSE "frame")]
  /\ UNCHANGED <<longQ, long, sendQ, send, work, requests, ssdp, crashed, fault>>

(* ... or its assert fails before the caller sees NULL.                    *)
PoolEmpty ==
  /\ ~crashed /\ httpd.at = "get" /\ httpd.kind # "ssdp" /\ pool = <<>>
  /\ crashed' = TRUE
  /\ UNCHANGED <<pool, httpd, longQ, long, sendQ, send, work, msg, requests, ssdp, fault>>

(* html_base_get_handler waits for a buffer without a timeout and never    *)
(* puts it back.                                                           *)
Ssdp ==
  /\ ~crashed /\ httpd.at = "get" /\ httpd.kind = "ssdp" /\ pool # <<>>
  /\ pool' = Tail(pool)
  /\ ssdp' = ssdp \cup {Head(pool)}
  /\ HttpdIdle
  /\ UNCHANGED <<longQ, long, sendQ, send, work, msg, requests, crashed, fault>>

(* A frame that is no request (ping, pong, continuation, binary data).     *)
ControlFrame ==
  /\ ~crashed /\ httpd.at = "handle" /\ httpd.kind = "ws"
  /\ Put(httpd.buf)
  /\ HttpdIdle
  /\ UNCHANGED <<longQ, long, sendQ, send, work, msg, requests, ssdp, fault>>

(* ws_on_close, for a CLOSE frame and whenever a frame cannot be received  *)
(* or is too long; or httpd_req_recv of a POST fails and httpd drops the   *)
(* connection.                                                             *)
CloseConnection ==
  /\ ~crashed /\ httpd.at = "handle"
  /\ msg' = [msg EXCEPT ![httpd.buf].closed = TRUE]
  /\ Put(httpd.buf)
  /\ HttpdIdle
  /\ UNCHANGED <<longQ, long, sendQ, send, work, requests, ssdp, fault>>

(* A text frame or a POST, up to the call of api_json_route.               *)
Received(b) ==
  [msg[b] EXCEPT !.kind = IF httpd.kind = "ws" THEN "text" ELSE "post", !.in = "live"]

(* cJSON_ParseWithLength fails.                                            *)
ParseError ==
  /\ ~crashed /\ httpd.at = "handle"
  /\ msg' = [msg EXCEPT ![httpd.buf] = Answered([Received(httpd.buf) EXCEPT !.in = "null"], FALSE)]
  /\ Put(httpd.buf)
  /\ HttpdIdle
  /\ UNCHANGED <<longQ, long, sendQ, send, work, requests, ssdp, fault>>

(* api_json_route runs the command at once: it fails, succeeds with        *)
(* nothing to say, or leaves a result that is printed and deleted.         *)
Synchronous ==
  /\ ~crashed /\ httpd.at = "handle"
  /\ \E out \in {"null", "live"} :
       msg' = [msg EXCEPT ![httpd.buf] =
                 Answered([Received(httpd.buf) EXCEPT !.out = out], TRUE)]
  /\ Put(httpd.buf)
  /\ HttpdIdle
  /\ UNCHANGED <<longQ, long, sendQ, send, work, requests, ssdp, fault>>

(* api_json_route returns API_JSON_ASYNC; a POST gets a copy of its        *)
(* request that outlives the handler.                                      *)
Asynchronous ==
  /\ ~crashed /\ httpd.at = "handle"
  /\ msg' = [msg EXCEPT ![httpd.buf] = [Received(httpd.buf) EXCEPT !.begun = httpd.kind = "post"]]
  /\ httpd' = [httpd EXCEPT !.at = "push"]
  /\ UNCHANGED <<pool, longQ, long, sendQ, send, work, requests, ssdp, crashed, fault>>

PushLongRun_Unbounded ==
  /\ ~crashed /\ httpd.at = "push"
  /\ longQ' = Append(longQ, httpd.buf)
  /\ HttpdIdle
  /\ UNCHANGED <<pool, long, sendQ, send, work, msg, requests, ssdp, crashed, fault>>

(* req_queue_push_long_run; from here the buffer is the runner's.          *)
PushLongRun ==
  /\ ~crashed /\ httpd.at = "push" /\ Len(longQ) < LongRunMax
  /\ longQ' = Append(longQ, httpd.buf)
  /\ HttpdIdle
  /\ UNCHANGED <<pool, long, sendQ, send, work, msg, requests, ssdp, crashed, fault>>

PushLongRunFails_SkipsDelete ==
  /\ ~crashed /\ httpd.at = "push" /\ Len(longQ) = LongRunMax
  /\ msg' = [msg EXCEPT ![httpd.buf].answers = @ + 1, ![httpd.buf].begun = FALSE]
  /\ Put(httpd.buf)
  /\ HttpdIdle
  /\ UNCHANGED <<longQ, long, sendQ, send, work, requests, ssdp, fault>>

(* The queue stays full for 20 ms: a WebSocket client gets its own frame   *)
(* back, a POST "503 Busy".                                                *)
PushLongRunFails ==
  /\ ~crashed /\ httpd.at = "push" /\ Len(longQ) = LongRunMax
  /\ msg' = [msg EXCEPT ![httpd.buf] = [Answered(msg[httpd.buf], FALSE) EXCEPT !.begun = FALSE]]
  /\ Put(httpd.buf)
  /\ HttpdIdle
  /\ UNCHANGED <<longQ, long, sendQ, send, work, requests, ssdp, fault>>

(* ws_async_resp, run by httpd between two requests.                       *)
RunWork ==
  /\ ~crashed /\ httpd.at = "idle" /\ work # <<>>
  /\ work' = Tail(work)
  /\ msg' = [msg EXCEPT ![Head(work)].answers = @ + 1]
  /\ Put(Head(work))
  /\ UNCHANGED <<httpd, longQ, long, sendQ, send, requests, ssdp, fault>>

(***************************************************************************)
(* The request runner.                                                     *)
(***************************************************************************)

LongTake ==
  /\ ~crashed /\ long.at = "idle" /\ longQ # <<>>
  /\ longQ' = Tail(longQ)
  /\ long' = [at |-> "run", buf |-> Head(longQ)]
  /\ UNCHANGED <<pool, httpd, sendQ, send, work, msg, requests, ssdp, crashed, fault>>

(* module.cb reads json.in and may leave a json.out whatever its status.   *)
LongRun ==
  /\ ~crashed /\ long.at = "run"
  /\ \E status \in {"ok", "error"}, out \in {"null", "live"} :
       msg' = [msg EXCEPT ![long.buf].status = status, ![long.buf].out = out]
  /\ long' = [long EXCEPT !.at = "push"]
  /\ fault' = (fault \/ msg[long.buf].in # "live")
  /\ UNCHANGED <<pool, httpd, longQ, sendQ, send, work, requests, ssdp, crashed>>

LongPush ==
  /\ ~crashed /\ long.at = "push" /\ Len(sendQ) < SendOutMax
  /\ sendQ' = Append(sendQ, long.buf)
  /\ long' = Idle
  /\ UNCHANGED <<pool, httpd, longQ, send, work, msg, requests, ssdp, crashed, fault>>

LongPushFails_DropsRequest ==
  /\ ~crashed /\ long.at = "push" /\ Len(sendQ) = SendOutMax
  /\ long' = Idle
  /\ UNCHANGED <<pool, httpd, longQ, sendQ, send, work, msg, requests, ssdp, crashed, fault>>

(* send_out_queue stays full for 20 ms: the callback runs in this task,    *)
(* with status -1.                                                         *)
LongPushFails ==
  /\ ~crashed /\ long.at = "push" /\ Len(sendQ) = SendOutMax
  /\ msg' = [msg EXCEPT ![long.buf].status = "error"]
  /\ long' = [long EXCEPT !.at = "cb"]
  /\ UNCHANGED <<pool, httpd, longQ, sendQ, send, work, requests, ssdp, crashed, fault>>

SendTake ==
  /\ ~crashed /\ send.at = "idle" /\ sendQ # <<>>
  /\ sendQ' = Tail(sendQ)
  /\ send' = [at |-> "cb", buf |-> Head(sendQ)]
  /\ UNCHANGED <<pool, httpd, longQ, long, work, msg, requests, ssdp, crashed, fault>>

WsSendError_FallsThrough(b) ==
  /\ msg[b].kind = "text" /\ msg[b].status = "error"
  /\ msg' = [msg EXCEPT ![b] = Answered(@, TRUE)]
  /\ work' = Append(work, b)
  /\ UNCHANGED <<pool, crashed>>

(* async_send_out_cb of uri_ws.c when the command failed: json.out, if the *)
(* command left one, is not deleted.                                       *)
WsSendError(b) ==
  /\ msg[b].kind = "text" /\ msg[b].status = "error"
  /\ msg' = [msg EXCEPT ![b] = Answered(@, FALSE)]
  /\ Put(b)
  /\ UNCHANGED work

WsQueueWork_PutsToo(b) ==
  /\ msg[b].kind = "text" /\ msg[b].status = "ok"
  /\ msg' = [msg EXCEPT ![b].in = Deleted(@), ![b].out = Deleted(@)]
  /\ work' = Append(work, b)
  /\ Put(b)

(* ... when it succeeded: the answer is printed and queued for httpd,      *)
(* which releases the buffer ...                                           *)
WsQueueWork(b) ==
  /\ msg[b].kind = "text" /\ msg[b].status = "ok"
  /\ msg' = [msg EXCEPT ![b].in = Deleted(@), ![b].out = Deleted(@)]
  /\ work' = Append(work, b)
  /\ UNCHANGED <<pool, crashed>>

(* ... unless httpd_queue_work fails.                                      *)
WsQueueWorkFails(b) ==
  /\ msg[b].kind = "text" /\ msg[b].status = "ok"
  /\ msg' = [msg EXCEPT ![b].in = Deleted(@), ![b].out = Deleted(@), ![b].unsent = TRUE]
  /\ Put(b)
  /\ UNCHANGED work

(* async_send_out_cb of uri_api.c: uri_api_send_out answers with json.out, *)
(* or with 500; a failed command also closes the connection.               *)
PostSendOut(b) ==
  /\ msg[b].kind = "post"
  /\ msg' = [msg EXCEPT ![b] = [Answered(@, TRUE) EXCEPT
                                  !.begun = FALSE, !.closed = msg[b].status # "ok"]]
  /\ Put(b)
  /\ UNCHANGED work

(* send_out.cb, from either task of the runner.                            *)
Callback(b) ==
  /\ WsSendError(b) \/ WsQueueWork(b) \/ WsQueueWorkFails(b) \/ PostSendOut(b)
  /\ fault' = (fault \/ msg[b].in # "live" \/ msg[b].out = "deleted")

SendOut ==
  /\ ~crashed /\ send.at = "cb"
  /\ Callback(send.buf)
  /\ send' = Idle
  /\ UNCHANGED <<httpd, longQ, long, sendQ, requests, ssdp>>

SendOutInline ==
  /\ ~crashed /\ long.at = "cb"
  /\ Callback(long.buf)
  /\ long' = Idle
  /\ UNCHANGED <<httpd, longQ, sendQ, send, requests, ssdp>>

-----------------------------------------------------------------------------

Client == \E k \in {"ws", "post", "ssdp"} : Request(k)

Httpd ==
  \/ PoolGet \/ PoolEmpty \/ Ssdp \/ ControlFrame \/ CloseConnection \/ ParseError
  \/ Synchronous \/ Asynchronous \/ PushLongRun \/ PushLongRunFails \/ RunWork

Ltask == LongTake \/ LongRun \/ LongPush \/ LongPushFails \/ SendOutInline

SendOutTask == SendTake \/ SendOut

Next == Client \/ Httpd \/ Ltask \/ SendOutTask

Spec == Init /\ [][Next]_vars

(* Every task runs when it can: httpd blocks on its sockets, the runner's  *)
(* tasks on their queues, and every wait but the one in                    *)
(* html_base_get_handler has a timeout.  A command terminates.             *)
FairSpec == Spec /\ WF_vars(Httpd) /\ WF_vars(Ltask) /\ WF_vars(SendOutTask)

-----------------------------------------------------------------------------
(* Properties.                                                             *)

BufferOrNone == Buffer \cup {NoBuf}

(* Every variable has its type, and neither queue is overfilled.           *)
TypeOK ==
  /\ pool \in Seq(Buffer)
  /\ httpd \in [at : HttpdAt, buf : BufferOrNone, kind : {"ws", "post", "ssdp"}]
  /\ long \in [at : TaskAt, buf : BufferOrNone]
  /\ send \in [at : TaskAt, buf : BufferOrNone]
  /\ longQ \in Seq(Buffer) /\ Len(longQ) <= LongRunMax
  /\ sendQ \in Seq(Buffer) /\ Len(sendQ) <= SendOutMax
  /\ work \in Seq(Buffer)
  /\ msg \in [Buffer -> Msg]
  /\ requests \in Nat /\ ssdp \subseteq Buffer /\ crashed \in BOOLEAN /\ fault \in BOOLEAN

(* In how many places a buffer is.                                         *)
Copies(s, b) == Cardinality({i \in DOMAIN s : s[i] = b})
Held(task, b) == IF task.buf = b THEN 1 ELSE 0
Places(b) ==
  Copies(pool, b) + Copies(longQ, b) + Copies(sendQ, b) + Copies(work, b)
    + Held(httpd, b) + Held(long, b) + Held(send, b)

(* A buffer is in one place only, the pool, one of the queues or one       *)
(* task's hands, and none is lost but those that answered /SSDP: no path   *)
(* puts a buffer back twice, or forgets to, or goes on using one it has    *)
(* handed over.                                                            *)
PoolConserved == \A b \in Buffer : Places(b) = IF b \in ssdp THEN 0 ELSE 1

(* The assert(0) of memory_pool_put never fires: the firmware stops only   *)
(* where memory_pool_get found no buffer.                                  *)
PutHasRoom == [][crashed' # crashed => httpd.at = "get" /\ pool = <<>>]_vars

(* When a buffer is back in the pool, its parsed request was deleted,      *)
(* exactly once, and so was the result, except for the result of a         *)
(* WebSocket command that failed or could not be queued (async_send_out_cb *)
(* jumps over json_to_text).                                               *)
JsonReleased ==
  /\ ~fault
  /\ \A b \in Range(pool) :
       /\ msg[b].in # "live"
       /\ msg[b].out = "live" => msg[b].kind = "text" /\ msg[b].status = "error"

(* A request is answered at most once, and one that is over was answered   *)
(* exactly once unless its connection is closed or httpd took no work; the *)
(* request copy of a POST was completed.                                   *)
AnsweredOnce ==
  /\ \A b \in Buffer : msg[b].answers <= 1
  /\ \A b \in Range(pool) :
       /\ msg[b].kind \in {"text", "post"} /\ ~msg[b].closed /\ ~msg[b].unsent
            => msg[b].answers = 1
       /\ ~msg[b].begun

(* A request that was handed to the runner ends and gives its buffer back, *)
(* unless httpd waits in html_base_get_handler for a buffer that only      *)
(* httpd could free, or an assert has stopped the firmware.                *)
RunnerReturns ==
  \A b \in Buffer :
    b \in Range(longQ) ~> \/ b \in Range(pool)
                          \/ crashed
                          \/ httpd.at = "get" /\ httpd.kind = "ssdp" /\ pool = <<>>

-----------------------------------------------------------------------------

(* memory_pool_get: assert(ptr).  The callers test the result for NULL and *)
(* have a "Resource busy" answer ready; the assert says it is never NULL.  *)
MemoryPoolGetSucceeds == ~crashed
=============================================================================
