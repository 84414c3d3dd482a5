-------------------------- MODULE WebRequestProofs --------------------------
(***************************************************************************)
(* What a request looks like in each of the places its buffer may be, and  *)
(* from that: every parsed request is deleted once, every request that     *)
(* ends is answered once, for every pool, every queue length and every     *)
(* number of requests.                                                     *)
(***************************************************************************)
EXTENDS WebApiProofs

(* httpd has read the request and not yet parsed it.                       *)
Raw(m) == m = Fresh(IF httpd.kind = "post" THEN "post" ELSE "frame")

(* It is for the runner: parsed, not yet run.                              *)
Accepted(m) ==
  /\ m.kind \in {"text", "post"} /\ (m.kind = "text" => ~m.begun)
  /\ m.in = "live" /\ m.out = "null" /\ m.answers = 0

(* The runner has run it.                                                  *)
Ran(m) ==
  /\ m.kind \in {"text", "post"} /\ (m.kind = "text" => ~m.begun)
  /\ m.status \in {"ok", "error"}
  /\ m.in = "live" /\ m.out # "deleted" /\ m.answers = 0

(* Its answer is printed and httpd has to send it.                         *)
Printed(m) ==
  /\ m.kind = "text" /\ ~m.begun
  /\ m.in = "deleted" /\ m.out # "live" /\ m.answers = 0

(* It is over.                                                             *)
Released(m) ==
  /\ m.in # "live" /\ ~m.begun /\ m.answers <= 1
  /\ m.out = "live" => m.kind = "text" /\ m.status = "error"
  /\ m.kind \in {"text", "post"} /\ ~m.closed /\ ~m.unsent => m.answers = 1

(* Where a buffer is.                                                      *)
InPool(b)  == Copies(pool, b) >= 1
Handled(b) == httpd.buf = b /\ httpd.at = "handle"
Waits(b)   == \/ Copies(longQ, b) >= 1
              \/ httpd.buf = b /\ httpd.at = "push"
              \/ long.buf = b /\ long.at = "run"
HasRun(b)  == \/ Copies(sendQ, b) >= 1
              \/ long.buf = b /\ long.at \in {"push", "cb"}
              \/ send.buf = b
Leaves(b)  == Copies(work, b) >= 1

(* The state of a request goes with the place of its buffer.               *)
RequestInv(b) ==
  /\ InPool(b)  => Released(msg[b])
  /\ Handled(b) => Raw(msg[b])
  /\ Waits(b)   => Accepted(msg[b])
  /\ HasRun(b)  => Ran(msg[b])
  /\ Leaves(b)  => Printed(msg[b])
  /\ msg[b].answers <= 1

RequestsInv == ~fault /\ \A b \in Buffer : RequestInv(b)

-----------------------------------------------------------------------------

(* A buffer is in at most one of the places.                               *)
OnePlace ==
  \A b \in Buffer :
    /\ InPool(b)  => ~Handled(b) /\ ~Waits(b) /\ ~HasRun(b) /\ ~Leaves(b)
    /\ Handled(b) => ~Waits(b) /\ ~HasRun(b) /\ ~Leaves(b)
    /\ Waits(b)   => ~HasRun(b) /\ ~Leaves(b)
    /\ HasRun(b)  => ~Leaves(b)

(* That follows from the conservation of buffers.                          *)
LEMMA Exclusive == IInv => OnePlace
<1> SUFFICES ASSUME IInv, NEW b \in Buffer
             PROVE  /\ InPool(b)  => ~Handled(b) /\ ~Waits(b) /\ ~HasRun(b) /\ ~Leaves(b)
                    /\ Handled(b) => ~Waits(b) /\ ~HasRun(b) /\ ~Leaves(b)
                    /\ Waits(b)   => ~HasRun(b) /\ ~Leaves(b)
                    /\ HasRun(b)  => ~Leaves(b)
  BY DEF OnePlace
<1>1. /\ Copies(pool, b) \in Nat /\ Copies(longQ, b) \in Nat
      /\ Copies(sendQ, b) \in Nat /\ Copies(work, b) \in Nat
  BY CountsNat DEF IInv
<1>2. Places(b) <= 1
  BY DEF IInv, PoolConserved
<1> QED
  BY <1>1, <1>2 DEF Places, Held, InPool, Handled, Waits, HasRun, Leaves

(* The same of the next state.                                             *)
LEMMA ExclusiveNext == IInv' => OnePlace'
BY Exclusive, PTL

(* A request whose buffer a step does not move.                            *)
LEMMA Stays ==
  ASSUME NEW b \in Buffer, RequestInv(b), msg'[b] = msg[b],
         InPool(b)' => InPool(b), Waits(b)' => Waits(b),
         Handled(b)' => Handled(b) /\ httpd'.kind = httpd.kind,
         HasRun(b)' => HasRun(b), Leaves(b)' => Leaves(b)
  PROVE  RequestInv(b)'
BY DEF RequestInv, Raw, Released, Accepted, Ran, Printed

(* A request that ends up in a place, in the state that belongs to it.     *)
LEMMA Arrives ==
  ASSUME OnePlace', NEW b \in Buffer,
         \/ InPool(b)'  /\ Released(msg'[b])
         \/ Handled(b)' /\ Raw(msg[b])'
         \/ Waits(b)'   /\ Accepted(msg'[b])
         \/ HasRun(b)'  /\ Ran(msg'[b])
         \/ Leaves(b)'  /\ Printed(msg'[b])
  PROVE  RequestInv(b)'
<1>1. Raw(msg[b])' => msg'[b].answers = 0
  BY DEF Raw, Fresh
<1>2. /\ Accepted(msg'[b]) \/ Ran(msg'[b]) \/ Printed(msg'[b]) => msg'[b].answers = 0
      /\ Released(msg'[b]) => msg'[b].answers <= 1
  BY DEF Accepted, Ran, Printed, Released
<1>3. msg'[b].answers <= 1
  BY <1>1, <1>2
<1>4. /\ InPool(b)'  => ~Handled(b)' /\ ~Waits(b)' /\ ~HasRun(b)' /\ ~Leaves(b)'
      /\ Handled(b)' => ~Waits(b)' /\ ~HasRun(b)' /\ ~Leaves(b)'
      /\ Waits(b)'   => ~HasRun(b)' /\ ~Leaves(b)'
      /\ HasRun(b)'  => ~Leaves(b)'
  BY DEF OnePlace
<1>5. /\ Released(msg'[b]) = Released(msg[b])' /\ Accepted(msg'[b]) = Accepted(msg[b])'
      /\ Ran(msg'[b]) = Ran(msg[b])' /\ Printed(msg'[b]) = Printed(msg[b])'
  BY DEF Released, Accepted, Ran, Printed
<1> QED
  BY <1>3, <1>4, <1>5 DEF RequestInv

(* Adding a buffer to a queue, or taking its head, leaves the others.      *)
LEMMA QueueOthers ==
  ASSUME NEW q \in Seq(Buffer), NEW c \in Buffer
  PROVE  /\ \A b \in Buffer \ {c} : Copies(Append(q, c), b) = Copies(q, b)
         /\ Copies(Append(q, c), c) >= 1
         /\ q # <<>> =>
              /\ \A b \in Buffer \ {Head(q)} : Copies(Tail(q), b) = Copies(q, b)
              /\ Head(q) \in Buffer /\ Copies(q, Head(q)) >= 1
              /\ Copies(Tail(q), Head(q)) <= Copies(q, Head(q))
<1>1. \A b \in Buffer : Copies(q, b) \in Nat
  BY CopiesType
<1>2. \A b \in Buffer : Copies(Append(q, c), b) = Copies(q, b) + (IF c = b THEN 1 ELSE 0)
  BY CopiesAppend
<1>3. CASE q # <<>>
  <2>1. Head(q) \in Buffer /\ Tail(q) \in Seq(Buffer)
    BY <1>3
  <2>2. \A b \in Buffer : Copies(q, b) = Copies(Tail(q), b) + (IF Head(q) = b THEN 1 ELSE 0)
    BY <1>3, CopiesTail
  <2>3. \A b \in Buffer : Copies(Tail(q), b) \in Nat
    BY <2>1, CopiesType
  <2> QED
    BY <1>1, <1>2, <2>1, <2>2, <2>3
<1> QED
  BY <1>1, <1>2, <1>3

(* A buffer in a queue is counted there.                                   *)
LEMMA Counted ==
  ASSUME NEW q \in Seq(Buffer), NEW b \in Range(q)
  PROVE  b \in Buffer /\ Copies(q, b) >= 1
<1> DEFINE S == {i \in DOMAIN q : q[i] = b}
<1>1. PICK i \in DOMAIN q : q[i] = b
  BY DEF Range
<1>2. IsFiniteSet(S) /\ Cardinality(S) \in Nat /\ Copies(q, b) = Cardinality(S)
  BY CopiesType DEF Copies
<1>3. S # {}
  BY <1>1
<1>4. Cardinality(S) # 0
  BY <1>2, <1>3, FS_EmptySet
<1>5. b \in Buffer
  BY <1>1
<1> QED
  BY <1>2, <1>4, <1>5

-----------------------------------------------------------------------------
(* Steps, by what they do with the buffer.                                 *)

(* httpd ends a request itself.                                            *)
LEMMA HttpdEnds ==
  ASSUME IInv, IInv', RequestsInv, httpd.at \in {"handle", "push"},
         Put(httpd.buf), HttpdIdle, UNCHANGED <<longQ, long, sendQ, send, work, fault>>,
         \A b \in Buffer \ {httpd.buf} : msg'[b] = msg[b],
         Released(msg'[httpd.buf])
  PROVE  RequestsInv'
<1> SUFFICES ASSUME NEW b \in Buffer PROVE RequestInv(b)'
  BY DEF RequestsInv
<1>1. /\ httpd.buf \in Buffer /\ NoBuf \notin Buffer /\ pool \in Seq(Buffer)
      /\ httpd \in [at : HttpdAt, buf : BufferOrNone, kind : {"ws", "post", "ssdp"}]
  BY WebApiAssumption DEF IInv, TypeOK, HoldInv, BufferOrNone
<1>2. pool' = Append(pool, httpd.buf)
  BY <1>1, NotInPool, PutSucceeds
<1>3. httpd'.at = "idle" /\ httpd'.buf = NoBuf
  BY <1>1 DEF HttpdIdle
<1>4. /\ b # httpd.buf => Copies(pool', b) = Copies(pool, b)
      /\ b = httpd.buf => Copies(pool', b) >= 1
  BY <1>1, <1>2, QueueOthers
<1>5. CASE b = httpd.buf
  BY <1>4, <1>5, ExclusiveNext, Arrives DEF InPool
<1>6. CASE b # httpd.buf
  <2>1. /\ InPool(b)' => InPool(b)
        /\ Waits(b)' => Waits(b)
        /\ HasRun(b)' => HasRun(b)
        /\ Leaves(b)' => Leaves(b)
        /\ ~Handled(b)'
    BY <1>1, <1>3, <1>4, <1>6 DEF InPool, Waits, Handled, HasRun, Leaves
  <2>2. RequestInv(b) /\ msg'[b] = msg[b]
    BY <1>6 DEF RequestsInv
  <2> QED
    BY <2>1, <2>2, Stays
<1> QED
  BY <1>5, <1>6

(* What answering changes in a request.                                    *)
LEMMA AnsweredIs ==
  ASSUME NEW m \in Msg, NEW p \in BOOLEAN
  PROVE  /\ Answered(m, p).in = Deleted(m.in)
         /\ Answered(m, p).out = IF p THEN Deleted(m.out) ELSE m.out
         /\ Answered(m, p).answers = m.answers + 1
         /\ Answered(m, p).kind = m.kind /\ Answered(m, p).status = m.status
         /\ Answered(m, p).begun = m.begun
BY DEF Answered, Msg

(* cJSON_Delete leaves no live tree.                                       *)
LEMMA DeletedIs ==
  ASSUME NEW j PROVE Deleted(j) # "live"
BY DEF Deleted

(* A request that was parsed, answered and released at once.               *)
LEMMA AnsweredAtOnce ==
  ASSUME NEW m \in Msg, NEW p \in BOOLEAN, m.answers = 0, ~m.begun, p \/ m.out # "live"
  PROVE  Released(Answered(m, p))
<1>1. Answered(m, p).in # "live" /\ Answered(m, p).out # "live"
  BY AnsweredIs, DeletedIs
<1>2. Answered(m, p).answers = 1 /\ Answered(m, p).begun = m.begun
  BY AnsweredIs
<1> QED
  BY <1>1, <1>2 DEF Released

(* A request that httpd ends is released.                                  *)
LEMMA HttpdReleases ==
  ASSUME IInv, IInv', RequestsInv,
         \/ ControlFrame \/ CloseConnection \/ ParseError \/ Synchronous
         \/ PushLongRunFails
  PROVE  RequestsInv'
<1> DEFINE c == httpd.buf
           m == msg[httpd.buf]
<1>1. /\ httpd.at \in {"handle", "push"} /\ Put(httpd.buf) /\ HttpdIdle
      /\ UNCHANGED <<longQ, long, sendQ, send, work, fault>>
  BY DEF ControlFrame, CloseConnection, ParseError, Synchronous, PushLongRunFails
<1>2. c \in Buffer /\ msg \in [Buffer -> Msg] /\ m \in Msg
  BY <1>1 DEF IInv, TypeOK, HoldInv, BufferOrNone
<1>3. /\ httpd.at = "handle" => Raw(m)
      /\ httpd.at = "push" => Accepted(m)
  BY <1>2 DEF RequestsInv, RequestInv, Handled, Waits
<1>4. httpd.at = "handle" =>
        m = [kind |-> IF httpd.kind = "post" THEN "post" ELSE "frame", in |-> "null",
             out |-> "null", status |-> "none", begun |-> FALSE, answers |-> 0,
             closed |-> FALSE, unsent |-> FALSE]
  BY <1>3 DEF Raw, Fresh
<1>a. /\ Received(c) \in Msg
      /\ httpd.at = "handle" =>
           Received(c).answers = 0 /\ ~Received(c).begun /\ Received(c).out = "null"
  <2>1. Received(c) \in Msg
    BY <1>2, ReceivedType
  <2>2. /\ Received(c).answers = m.answers /\ Received(c).begun = m.begun
        /\ Received(c).out = m.out
    BY <1>2 DEF Received, Msg
  <2>3. httpd.at = "handle" => m.answers = 0 /\ m.begun = FALSE /\ m.out = "null"
    BY <1>4
  <2> QED
    BY <2>1, <2>2, <2>3
<1> HIDE DEF m
<1>5. CASE ControlFrame
  <2>1. Released(m)
    BY <1>4, <1>5 DEF Released, ControlFrame
  <2> QED
    BY <1>1, <1>5, <2>1, HttpdEnds DEF ControlFrame, m
<1>6. CASE CloseConnection
  <2>1. /\ msg'[c] = [m EXCEPT !.closed = TRUE]
        /\ \A b \in Buffer \ {c} : msg'[b] = msg[b]
    BY <1>2, <1>6 DEF CloseConnection, m
  <2>2. Released(msg'[c])
    BY <1>4, <1>6, <2>1 DEF Released, CloseConnection
  <2> QED
    BY <1>1, <2>1, <2>2, HttpdEnds
<1>7. CASE ParseError
  <2>1. /\ msg'[c] = Answered([Received(c) EXCEPT !.in = "null"], FALSE)
        /\ \A b \in Buffer \ {c} : msg'[b] = msg[b]
    BY <1>2, <1>7 DEF ParseError
  <2>2. /\ Received(c) \in Msg /\ Received(c).answers = 0 /\ ~Received(c).begun
        /\ Received(c).out = "null"
    BY <1>a, <1>7 DEF ParseError
  <2>3. /\ [Received(c) EXCEPT !.in = "null"] \in Msg
        /\ [Received(c) EXCEPT !.in = "null"].answers = 0
        /\ ~[Received(c) EXCEPT !.in = "null"].begun
        /\ [Received(c) EXCEPT !.in = "null"].out # "live"
    BY <2>2 DEF Msg, Json
  <2>4. Released(msg'[c])
    BY <2>1, <2>3, AnsweredAtOnce
  <2> QED
    BY <1>1, <2>1, <2>4, HttpdEnds
<1>8. CASE Synchronous
  <2>1. PICK out \in {"null", "live"} :
          msg' = [msg EXCEPT ![c] = Answered([Received(c) EXCEPT !.out = out], TRUE)]
    BY <1>8 DEF Synchronous
  <2>2. /\ msg'[c] = Answered([Received(c) EXCEPT !.out = out], TRUE)
        /\ \A b \in Buffer \ {c} : msg'[b] = msg[b]
    BY <1>2, <2>1
  <2>3. Received(c) \in Msg /\ Received(c).answers = 0 /\ ~Received(c).begun
    BY <1>a, <1>8 DEF Synchronous
  <2>4. /\ [Received(c) EXCEPT !.out = out] \in Msg
        /\ [Received(c) EXCEPT !.out = out].answers = 0
        /\ ~[Received(c) EXCEPT !.out = out].begun
    BY <2>3 DEF Msg, Json
  <2>5. Released(msg'[c])
    BY <2>2, <2>4, AnsweredAtOnce
  <2> QED
    BY <1>1, <2>2, <2>5, HttpdEnds
<1>9. CASE PushLongRunFails
  <2>1. /\ msg'[c] = [Answered(m, FALSE) EXCEPT !.begun = FALSE]
        /\ \A b \in Buffer \ {c} : msg'[b] = msg[b]
    BY <1>2, <1>9 DEF PushLongRunFails, m
  <2>2. Accepted(m)
    BY <1>3, <1>9 DEF PushLongRunFails
  <2>3. Released(msg'[c])
    BY <1>2, <2>1, <2>2 DEF Released, Accepted, Answered, Deleted, Msg
  <2> QED
    BY <1>1, <2>1, <2>3, HttpdEnds
<1> QED
  BY <1>5, <1>6, <1>7, <1>8, <1>9

(* send_out.cb finds a live request and a result that is not deleted, and  *)
(* releases them, or leaves the printed answer to httpd.                   *)
LEMMA CallbackReleases ==
  ASSUME IInv, IInv', RequestsInv, NEW c \in Buffer, long.buf = c \/ send.buf = c,
         Ran(msg[c]), Callback(c)
  PROVE  /\ fault' = fault /\ \A b \in Buffer \ {c} : msg'[b] = msg[b]
         /\ \/ pool' = Append(pool, c) /\ work' = work /\ Released(msg'[c])
            \/ work' = Append(work, c) /\ pool' = pool /\ Printed(msg'[c])
<1>1. msg \in [Buffer -> Msg] /\ msg[c] \in Msg
  BY DEF IInv, TypeOK
<1>2. Put(c) => pool' = Append(pool, c)
  BY NotInPool, PutSucceeds
<1>3. fault' = fault
  <2>1. fault' = (fault \/ msg[c].in # "live" \/ msg[c].out = "deleted")
    BY DEF Callback
  <2>2. fault = FALSE
    BY DEF RequestsInv, IInv, TypeOK
  <2> QED
    BY <2>1, <2>2 DEF Ran
<1>4. CASE WsSendError(c)
  <2>1. msg' = [msg EXCEPT ![c] = Answered(msg[c], FALSE)] /\ Put(c) /\ work' = work
    BY <1>4, Zenon DEF WsSendError
  <2>2. msg[c].kind = "text" /\ msg[c].status = "error" /\ msg[c].answers = 0 /\ ~msg[c].begun
    BY <1>4 DEF WsSendError, Ran
  <2> DEFINE a == Answered(msg[c], FALSE)
  <2>4. /\ a.in = Deleted(msg[c].in) /\ a.answers = msg[c].answers + 1
        /\ a.kind = msg[c].kind /\ a.status = msg[c].status /\ a.begun = msg[c].begun
    BY <1>1, AnsweredIs
  <2>3. Released(a)
    <3> HIDE DEF a
    <3>1. a.in # "live"
      BY <2>4, DeletedIs
    <3> QED
      BY <2>2, <2>4, <3>1 DEF Released
  <2> QED
    BY <1>1, <1>2, <1>3, <2>1, <2>3
<1>5. CASE WsQueueWork(c)
  <2>1. /\ msg' = [msg EXCEPT ![c].in = Deleted(@), ![c].out = Deleted(@)]
        /\ work' = Append(work, c) /\ pool' = pool /\ msg[c].kind = "text"
    BY <1>5 DEF WsQueueWork
  <2>2. /\ msg'[c].in = Deleted(msg[c].in) /\ msg'[c].out = Deleted(msg[c].out)
        /\ msg'[c].kind = msg[c].kind /\ msg'[c].begun = msg[c].begun
        /\ msg'[c].answers = msg[c].answers /\ \A b \in Buffer \ {c} : msg'[b] = msg[b]
    BY <1>1, <2>1 DEF Msg
  <2>3. Printed(msg'[c])
    BY <2>1, <2>2, DeletedIs DEF Printed, Ran, Deleted
  <2> QED
    BY <1>3, <2>1, <2>2, <2>3
<1>6. CASE WsQueueWorkFails(c)
  <2>1. /\ msg' = [msg EXCEPT ![c].in = Deleted(@), ![c].out = Deleted(@), ![c].unsent = TRUE]
        /\ Put(c) /\ work' = work /\ msg[c].kind = "text"
    BY <1>6 DEF WsQueueWorkFails
  <2>2. /\ msg'[c].in = Deleted(msg[c].in) /\ msg'[c].out = Deleted(msg[c].out)
        /\ msg'[c].begun = msg[c].begun /\ msg'[c].unsent = TRUE
        /\ msg'[c].answers = msg[c].answers /\ \A b \in Buffer \ {c} : msg'[b] = msg[b]
    BY <1>1, <2>1 DEF Msg
  <2>3. Released(msg'[c])
    BY <2>1, <2>2, DeletedIs DEF Released, Ran
  <2> QED
    BY <1>2, <1>3, <2>1, <2>2, <2>3
<1>7. CASE PostSendOut(c)
  <2> DEFINE a == Answered(msg[c], TRUE)
  <2>1. /\ msg' = [msg EXCEPT ![c] = [a EXCEPT !.begun = FALSE, !.closed = msg[c].status # "ok"]]
        /\ Put(c) /\ work' = work
    BY <1>7, Zenon DEF PostSendOut
  <2>2. a \in Msg /\ a.in # "live" /\ a.out # "live" /\ a.answers = 1
    <3>1. a \in Msg
      BY <1>1, AnsweredType
    <3>2. /\ a.in = Deleted(msg[c].in) /\ a.out = Deleted(msg[c].out)
          /\ a.answers = msg[c].answers + 1
      BY <1>1, AnsweredIs
    <3>3. msg[c].answers = 0
      BY DEF Ran
    <3> HIDE DEF a
    <3> QED
      BY <3>1, <3>2, <3>3, DeletedIs
  <2> HIDE DEF a
  <2>3. /\ msg'[c].in = a.in /\ msg'[c].out = a.out /\ msg'[c].begun = FALSE
        /\ msg'[c].answers = a.answers /\ \A b \in Buffer \ {c} : msg'[b] = msg[b]
    BY <1>1, <2>1, <2>2 DEF Msg
  <2>4. Released(msg'[c])
    BY <2>2, <2>3 DEF Released
  <2> QED
    BY <1>2, <1>3, <2>1, <2>3, <2>4
<1> QED
  BY <1>4, <1>5, <1>6, <1>7, Zenon DEF Callback

(* Every step keeps the requests as their places say.                      *)
LEMMA StepRequests ==
  ASSUME IInv, IInv', RequestsInv, [Next]_vars PROVE RequestsInv'
<1>a. /\ pool \in Seq(Buffer) /\ longQ \in Seq(Buffer) /\ sendQ \in Seq(Buffer)
      /\ work \in Seq(Buffer) /\ msg \in [Buffer -> Msg] /\ NoBuf \notin Buffer
      /\ httpd \in [at : HttpdAt, buf : BufferOrNone, kind : {"ws", "post", "ssdp"}]
      /\ long \in [at : TaskAt, buf : BufferOrNone] /\ send \in [at : TaskAt, buf : BufferOrNone]
  BY WebApiAssumption DEF IInv, TypeOK
<1>b. /\ httpd.at \in {"idle", "get"} <=> httpd.buf = NoBuf
      /\ long.at = "idle" <=> long.buf = NoBuf
      /\ send.at = "idle" <=> send.buf = NoBuf
      /\ httpd.at \in {"handle", "push"} => httpd.buf \in Buffer
      /\ long.at # "idle" => long.buf \in Buffer
      /\ send.at # "idle" => send.buf \in Buffer
  BY DEF IInv, TypeOK, HoldInv, BufferOrNone
<1>c. ~fault /\ \A b \in Buffer : RequestInv(b)
  BY DEF RequestsInv
<1>d. OnePlace'
  BY ExclusiveNext
<1> USE DEF InPool, Handled, Waits, HasRun, Leaves
<1>1. ASSUME NEW k \in {"ws", "post", "ssdp"}, Request(k) PROVE RequestsInv'
  <2> SUFFICES ASSUME NEW b \in Buffer PROVE RequestInv(b)'
    BY <1>1, <1>c DEF RequestsInv, Request
  <2> QED
    BY <1>1, <1>a, <1>c, Stays DEF Request
<1>2. CASE PoolGet
  <2> SUFFICES ASSUME NEW b \in Buffer PROVE RequestInv(b)'
    BY <1>2, <1>c DEF RequestsInv, PoolGet
  <2>1. Head(pool) \in Buffer
    BY <1>2, <1>a DEF PoolGet
  <2>2. CASE b = Head(pool)
    <3>1. /\ httpd'.buf = b /\ httpd'.at = "handle" /\ httpd'.kind = httpd.kind
          /\ msg'[b] = Fresh(IF httpd.kind = "post" THEN "post" ELSE "frame")
      BY <1>2, <1>a, <2>2 DEF PoolGet
    <3>2. Handled(b)' /\ Raw(msg[b])'
      BY <3>1 DEF Raw
    <3> QED
      BY <1>d, <3>2, Arrives
  <2>3. CASE b # Head(pool)
    <3>1. /\ httpd'.buf = Head(pool) /\ msg'[b] = msg[b] /\ Copies(pool', b) = Copies(pool, b)
      BY <1>2, <1>a, <2>3, QueueOthers DEF PoolGet
    <3> QED
      BY <1>2, <1>c, <2>3, <3>1, Stays DEF PoolGet
  <2> QED
    BY <2>2, <2>3
<1>3. CASE Ssdp
  <2> SUFFICES ASSUME NEW b \in Buffer PROVE RequestInv(b)'
    BY <1>3, <1>c DEF RequestsInv, Ssdp
  <2>1. Copies(pool', b) <= Copies(pool, b) /\ Copies(pool', b) \in Nat /\ Copies(pool, b) \in Nat
    <3>1. Tail(pool) \in Seq(Buffer) /\ pool # <<>> /\ pool' = Tail(pool)
      BY <1>3, <1>a DEF Ssdp
    <3>2. Copies(pool', b) \in Nat /\ Copies(pool, b) \in Nat
      BY <1>a, <3>1, CopiesType
    <3>3. Copies(pool, b) = Copies(Tail(pool), b) + (IF Head(pool) = b THEN 1 ELSE 0)
      BY <1>a, <3>1, CopiesTail
    <3> QED
      BY <3>1, <3>2, <3>3
  <2>2. httpd'.buf = NoBuf
    BY <1>3, <1>a DEF Ssdp, HttpdIdle
  <2> QED
    BY <1>3, <1>a, <1>c, <2>1, <2>2, Stays, SMTT(30) DEF Ssdp
<1>4. CASE Asynchronous
  <2> SUFFICES ASSUME NEW b \in Buffer PROVE RequestInv(b)'
    BY <1>4, <1>c DEF RequestsInv, Asynchronous
  <2>1. httpd.buf \in Buffer /\ httpd'.buf = httpd.buf /\ httpd'.at = "push"
    BY <1>4, <1>a, <1>b DEF Asynchronous
  <2>2. CASE b = httpd.buf
    <3> DEFINE r == Received(httpd.buf)
    <3>1. r \in Msg
      BY <1>a, <2>1, ReceivedType
    <3>2. Raw(msg[b])
      BY <1>4, <1>c, <2>2 DEF RequestInv, Asynchronous
    <3>3. /\ r.kind = (IF httpd.kind = "ws" THEN "text" ELSE "post")
          /\ r.in = "live" /\ r.out = msg[b].out /\ r.answers = msg[b].answers
      BY <1>a, <2>2 DEF Received, Msg
    <3>4. msg[b].out = "null" /\ msg[b].answers = 0
      BY <3>2 DEF Raw, Fresh
    <3>5. msg'[b] = [r EXCEPT !.begun = httpd.kind = "post"]
      BY <1>4, <1>a, <2>2 DEF Asynchronous
    <3> HIDE DEF r
    <3>6. /\ msg'[b].kind = r.kind /\ msg'[b].in = r.in /\ msg'[b].out = r.out
          /\ msg'[b].answers = r.answers /\ msg'[b].begun = (httpd.kind = "post")
      BY <3>1, <3>5 DEF Msg
    <3>7. Accepted(msg'[b])
      BY <3>3, <3>4, <3>6 DEF Accepted
    <3> QED
      BY <1>d, <2>1, <2>2, <3>7, Arrives
  <2>3. CASE b # httpd.buf
    <3>1. msg'[b] = msg[b]
      BY <1>4, <1>a, <2>3 DEF Asynchronous
    <3> QED
      BY <1>4, <1>c, <2>1, <2>3, <3>1, Stays DEF Asynchronous
  <2> QED
    BY <2>2, <2>3
<1>5. CASE PushLongRun
  <2> SUFFICES ASSUME NEW b \in Buffer PROVE RequestInv(b)'
    BY <1>5, <1>c DEF RequestsInv, PushLongRun
  <2>1. httpd.buf \in Buffer /\ httpd'.buf = NoBuf
    BY <1>5, <1>a, <1>b DEF PushLongRun, HttpdIdle
  <2>2. /\ b # httpd.buf => Copies(longQ', b) = Copies(longQ, b)
        /\ b = httpd.buf => Copies(longQ', b) >= 1
    BY <1>5, <1>a, <2>1, QueueOthers DEF PushLongRun
  <2>3. Waits(b)' => Waits(b)
    BY <1>5, <1>a, <2>1, <2>2 DEF PushLongRun
  <2> QED
    BY <1>5, <1>a, <1>c, <2>1, <2>3, Stays DEF PushLongRun
<1>6. CASE RunWork
  <2> SUFFICES ASSUME NEW b \in Buffer PROVE RequestInv(b)'
    BY <1>6, <1>c DEF RequestsInv, RunWork
  <2>1. /\ Head(work) \in Buffer /\ Copies(work, Head(work)) >= 1
        /\ b # Head(work) => Copies(work', b) = Copies(work, b)
    BY <1>6, <1>a, QueueOthers DEF RunWork
  <2>2. pool' = Append(pool, Head(work))
    BY <1>6, <2>1, NotInPool, PutSucceeds DEF RunWork
  <2>3. /\ b # Head(work) => Copies(pool', b) = Copies(pool, b)
        /\ b = Head(work) => Copies(pool', b) >= 1
    BY <1>a, <2>1, <2>2, QueueOthers
  <2>4. CASE b = Head(work)
    <3>1. Printed(msg[b])
      BY <1>c, <2>1, <2>4 DEF RequestInv
    <3>2. msg'[b] = [msg[b] EXCEPT !.answers = @ + 1]
      BY <1>6, <1>a, <2>4 DEF RunWork
    <3>3. /\ msg'[b].in = msg[b].in /\ msg'[b].out = msg[b].out
          /\ msg'[b].begun = msg[b].begun /\ msg'[b].answers = msg[b].answers + 1
      BY <1>a, <3>2 DEF Msg
    <3>4. Released(msg'[b])
      BY <3>1, <3>3 DEF Released, Printed
    <3> QED
      BY <1>d, <2>3, <2>4, <3>4, Arrives
  <2>5. CASE b # Head(work)
    <3>1. msg'[b] = msg[b]
      BY <1>6, <1>a, <2>5 DEF RunWork
    <3> QED
      BY <1>6, <1>c, <2>1, <2>3, <2>5, <3>1, Stays DEF RunWork
  <2> QED
    BY <2>4, <2>5
<1>7. CASE LongTake
  <2> SUFFICES ASSUME NEW b \in Buffer PROVE RequestInv(b)'
    BY <1>7, <1>c DEF RequestsInv, LongTake
  <2>1. /\ Head(longQ) \in Buffer /\ Copies(longQ, Head(longQ)) >= 1
        /\ b # Head(longQ) => Copies(longQ', b) = Copies(longQ, b)
    BY <1>7, <1>a, QueueOthers DEF LongTake
  <2>2. long'.at = "run" /\ long'.buf = Head(longQ)
    BY <1>7 DEF LongTake
  <2>3. Waits(b)' => Waits(b)
    BY <1>7, <2>1, <2>2 DEF LongTake
  <2> QED
    BY <1>7, <1>c, <2>2, <2>3, Stays DEF LongTake
<1>8. CASE LongRun
  <2>1. long.buf \in Buffer /\ long'.buf = long.buf /\ long'.at = "push"
    BY <1>8, <1>a, <1>b DEF LongRun
  <2>2. Accepted(msg[long.buf])
    BY <1>8, <1>c, <2>1 DEF LongRun, RequestInv
  <2>3. ~fault'
    BY <1>8, <1>c, <2>2 DEF LongRun, Accepted
  <2> SUFFICES ASSUME NEW b \in Buffer PROVE RequestInv(b)'
    BY <2>3 DEF RequestsInv
  <2>4. PICK status \in {"ok", "error"}, out \in {"null", "live"} :
          msg' = [msg EXCEPT ![long.buf].status = status, ![long.buf].out = out]
    BY <1>8 DEF LongRun
  <2>5. CASE b = long.buf
    <3>1. /\ msg'[b].status = status /\ msg'[b].out = out /\ msg'[b].in = msg[b].in
          /\ msg'[b].kind = msg[b].kind /\ msg'[b].begun = msg[b].begun
          /\ msg'[b].answers = msg[b].answers
      BY <1>a, <2>4, <2>5 DEF Msg
    <3>2. Ran(msg'[b])
      BY <2>2, <2>5, <3>1 DEF Ran, Accepted
    <3> QED
      BY <1>d, <2>1, <2>5, <3>2, Arrives
  <2>6. CASE b # long.buf
    <3>1. msg'[b] = msg[b]
      BY <1>a, <2>4, <2>6
    <3> QED
      BY <1>8, <1>c, <2>1, <2>6, <3>1, Stays DEF LongRun
  <2> QED
    BY <2>5, <2>6
<1>9. CASE LongPush
  <2> SUFFICES ASSUME NEW b \in Buffer PROVE RequestInv(b)'
    BY <1>9, <1>c DEF RequestsInv, LongPush
  <2>1. long.buf \in Buffer /\ long'.buf = NoBuf
    BY <1>9, <1>a, <1>b DEF LongPush, Idle
  <2>2. b # long.buf => Copies(sendQ', b) = Copies(sendQ, b)
    BY <1>9, <1>a, <2>1, QueueOthers DEF LongPush
  <2>3. HasRun(b)' => HasRun(b)
    BY <1>9, <1>a, <2>1, <2>2 DEF LongPush
  <2> QED
    BY <1>9, <1>a, <1>c, <2>1, <2>3, Stays DEF LongPush
<1>10. CASE LongPushFails
  <2> SUFFICES ASSUME NEW b \in Buffer PROVE RequestInv(b)'
    BY <1>10, <1>c DEF RequestsInv, LongPushFails
  <2>1. long.buf \in Buffer /\ long'.buf = long.buf /\ long'.at = "cb" /\ long.at = "push"
    BY <1>10, <1>a, <1>b DEF LongPushFails
  <2>2. CASE b = long.buf
    <3>1. Ran(msg[b])
      BY <1>c, <2>1, <2>2 DEF RequestInv
    <3>2. /\ msg'[b].status = "error" /\ msg'[b].out = msg[b].out /\ msg'[b].in = msg[b].in
          /\ msg'[b].kind = msg[b].kind /\ msg'[b].begun = msg[b].begun
          /\ msg'[b].answers = msg[b].answers
      BY <1>10, <1>a, <2>2 DEF LongPushFails, Msg
    <3>3. Ran(msg'[b])
      BY <3>1, <3>2 DEF Ran
    <3> QED
      BY <1>d, <2>1, <2>2, <3>3, Arrives
  <2>3. CASE b # long.buf
    <3>1. msg'[b] = msg[b]
      BY <1>10, <1>a, <2>3 DEF LongPushFails
    <3> QED
      BY <1>10, <1>c, <2>1, <2>3, <3>1, Stays DEF LongPushFails
  <2> QED
    BY <2>2, <2>3
<1>11. CASE SendTake
  <2> SUFFICES ASSUME NEW b \in Buffer PROVE RequestInv(b)'
    BY <1>11, <1>c DEF RequestsInv, SendTake
  <2>1. /\ Head(sendQ) \in Buffer /\ Copies(sendQ, Head(sendQ)) >= 1
        /\ b # Head(sendQ) => Copies(sendQ', b) = Copies(sendQ, b)
    BY <1>11, <1>a, QueueOthers DEF SendTake
  <2>2. send'.buf = Head(sendQ)
    BY <1>11 DEF SendTake
  <2>3. HasRun(b)' => HasRun(b)
    BY <1>11, <2>1, <2>2 DEF SendTake
  <2> QED
    BY <1>11, <1>c, <2>3, Stays DEF SendTake
<1>12. ASSUME NEW c \in Buffer, Callback(c), c = long.buf \/ c = send.buf, Ran(msg[c]),
              UNCHANGED <<httpd, longQ, sendQ>>, long' = long \/ c = long.buf,
              send' = send \/ c = send.buf, long' = long \/ long' = Idle,
              send' = send \/ send' = Idle
       PROVE  RequestsInv'
  <2>1. /\ fault' = fault /\ \A b \in Buffer \ {c} : msg'[b] = msg[b]
        /\ \/ pool' = Append(pool, c) /\ work' = work /\ Released(msg'[c])
           \/ work' = Append(work, c) /\ pool' = pool /\ Printed(msg'[c])
    BY <1>12, CallbackReleases
  <2> SUFFICES ASSUME NEW b \in Buffer PROVE RequestInv(b)'
    BY <1>c, <2>1 DEF RequestsInv
  <2>2. /\ b # c => Copies(pool', b) = Copies(pool, b) /\ Copies(work', b) = Copies(work, b)
        /\ Copies(Append(pool, c), c) >= 1 /\ Copies(Append(work, c), c) >= 1
    <3>1. /\ Copies(Append(pool, c), c) >= 1
          /\ b # c => Copies(Append(pool, c), b) = Copies(pool, b)
      BY <1>a, QueueOthers
    <3>2. /\ Copies(Append(work, c), c) >= 1
          /\ b # c => Copies(Append(work, c), b) = Copies(work, b)
      BY <1>a, QueueOthers
    <3> QED
      BY <2>1, <3>1, <3>2
  <2>3. CASE b = c
    BY <1>d, <2>1, <2>2, <2>3, Arrives
  <2>4. CASE b # c
    <3>1. /\ long'.buf = b => long' = long
          /\ send'.buf = b => send' = send
      BY <1>a, <1>12, <2>4 DEF Idle
    <3>2. HasRun(b)' => HasRun(b)
      BY <1>12, <3>1
    <3>3. Waits(b)' => Waits(b)
      BY <1>12, <3>1
    <3>4. Handled(b)' => Handled(b) /\ httpd'.kind = httpd.kind
      BY <1>12
    <3> QED
      BY <1>c, <2>1, <2>2, <2>4, <3>2, <3>3, <3>4, Stays
  <2> QED
    BY <2>3, <2>4
<1>13. CASE SendOut
  <2>1. send.buf \in Buffer /\ Ran(msg[send.buf])
    BY <1>13, <1>b, <1>c DEF SendOut, RequestInv
  <2> QED
    BY <1>13, <2>1, <1>12 DEF SendOut
<1>14. CASE SendOutInline
  <2>1. long.buf \in Buffer /\ Ran(msg[long.buf])
    BY <1>14, <1>b, <1>c DEF SendOutInline, RequestInv
  <2> QED
    BY <1>14, <2>1, <1>12 DEF SendOutInline
<1>15. CASE PoolEmpty \/ UNCHANGED vars
  <2>1. UNCHANGED <<pool, httpd, longQ, long, sendQ, send, work, msg, fault>>
    BY <1>15 DEF PoolEmpty, vars
  <2> SUFFICES ASSUME NEW b \in Buffer PROVE RequestInv(b)'
    BY <1>c, <2>1 DEF RequestsInv
  <2> QED
    BY <1>c, <2>1, Stays
<1> QED
  BY <1>1, <1>2, <1>3, <1>4, <1>5, <1>6, <1>7, <1>8, <1>9, <1>10, <1>11, <1>13, <1>14,
     <1>15, HttpdReleases DEF Next, Client, Httpd, Ltask, SendOutTask

-----------------------------------------------------------------------------

(* Where a buffer is tells the state of its request, in every reachable    *)
(* state.                                                                  *)
THEOREM RequestsInvariance == Spec => []RequestsInv
<1>1. Init => RequestsInv
  <2> SUFFICES ASSUME Init, NEW b \in Buffer PROVE RequestInv(b)
    BY DEF Init, RequestsInv
  <2>1. OnePlace /\ IInv
    BY InitInv, Exclusive
  <2>2. Released(msg[b])
    BY DEF Init, Released, Fresh
  <2>3. InPool(b)
    <3>1. Copies(longQ, b) = 0 /\ Copies(sendQ, b) = 0 /\ Copies(work, b) = 0
      <4>1. {j \in DOMAIN <<>> : <<>>[j] = b} = {}
        OBVIOUS
      <4> QED
        BY <4>1, FS_EmptySet DEF Copies, Init
    <3>2. Held(httpd, b) = 0 /\ Held(long, b) = 0 /\ Held(send, b) = 0
      BY WebApiAssumption DEF Held, Init, Idle
    <3>3. Places(b) = 1
      BY <2>1 DEF IInv, PoolConserved, Init
    <3>4. Copies(pool, b) \in Nat
      BY <2>1, CountsNat DEF IInv
    <3> QED
      BY <3>1, <3>2, <3>3, <3>4 DEF Places, InPool
  <2> QED
    BY <2>1, <2>2, <2>3 DEF RequestInv, OnePlace, Released
<1>2. IInv /\ IInv' /\ RequestsInv /\ [Next]_vars => RequestsInv'
  BY StepRequests
<1> QED
  BY <1>1, <1>2, Invariance, PTL DEF Spec

(* Whoever puts a buffer back, on whichever error path, has deleted the    *)
(* parsed request, once, and the result too, except for the result of a    *)
(* WebSocket command that failed.                                          *)
THEOREM JsonIsReleased == Spec => []JsonReleased
<1>1. IInv /\ RequestsInv => JsonReleased
  <2> SUFFICES ASSUME IInv, RequestsInv, NEW b \in Range(pool) PROVE Released(msg[b])
    BY DEF JsonReleased, RequestsInv, Released
  <2>1. b \in Buffer /\ Copies(pool, b) >= 1
    BY Counted DEF IInv, TypeOK
  <2> QED
    BY <2>1 DEF RequestsInv, RequestInv, InPool
<1> QED
  BY <1>1, Invariance, RequestsInvariance, PTL

(* No request is answered twice, by httpd, the runner or the send-out      *)
(* task, and one that ends is answered unless its connection is closed or  *)
(* httpd took no work.                                                     *)
THEOREM RequestsAnsweredOnce == Spec => []AnsweredOnce
<1>1. IInv /\ RequestsInv => AnsweredOnce
  <2> SUFFICES ASSUME IInv, RequestsInv PROVE AnsweredOnce
    OBVIOUS
  <2>1. \A b \in Buffer : msg[b].answers <= 1
    BY DEF RequestsInv, RequestInv
  <2>2. ASSUME NEW b \in Range(pool) PROVE Released(msg[b])
    <3>1. b \in Buffer /\ Copies(pool, b) >= 1
      BY Counted DEF IInv, TypeOK
    <3> QED
      BY <3>1 DEF RequestsInv, RequestInv, InPool
  <2> QED
    BY <2>1, <2>2 DEF AnsweredOnce, Released
<1> QED
  BY <1>1, Invariance, RequestsInvariance, PTL
=============================================================================
