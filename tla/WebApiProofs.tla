---------------------------- MODULE WebApiProofs ----------------------------
(***************************************************************************)
(* No buffer of the memory pool is lost or in two places, for every number *)
(* of buffers, every queue length and every number of requests.            *)
(***************************************************************************)
EXTENDS WebApi, FiniteSetTheorems, TLAPS

(* A task holds a buffer exactly while it works on a request.              *)
HoldInv ==
  /\ httpd.at \in {"idle", "get"} <=> httpd.buf = NoBuf
  /\ long.at = "idle" <=> long.buf = NoBuf
  /\ send.at = "idle" <=> send.buf = NoBuf

IInv == TypeOK /\ HoldInv /\ PoolConserved

-----------------------------------------------------------------------------
(* Counting the places of a buffer in a queue.                             *)

(* A queue holds a buffer a natural number of times.                       *)
LEMMA CopiesType ==
  ASSUME NEW s \in Seq(Buffer), NEW b
  PROVE  /\ IsFiniteSet({i \in DOMAIN s : s[i] = b})
         /\ Copies(s, b) \in Nat
<1>1. DOMAIN s = 1..Len(s) /\ Len(s) \in Nat
  OBVIOUS
<1>2. IsFiniteSet(1..Len(s))
  BY <1>1, FS_Interval
<1>3. {i \in DOMAIN s : s[i] = b} \in SUBSET (1..Len(s))
  BY <1>1
<1>4. IsFiniteSet({i \in DOMAIN s : s[i] = b})
  BY <1>2, <1>3, FS_Subset
<1> QED
  BY <1>4, FS_CardinalityType DEF Copies

(* xQueueSend adds one place.                                              *)
LEMMA CopiesAppend ==
  ASSUME NEW s \in Seq(Buffer), NEW b, NEW c \in Buffer
  PROVE  Copies(Append(s, c), b) = Copies(s, b) + (IF c = b THEN 1 ELSE 0)
<1> DEFINE S == {i \in DOMAIN s : s[i] = b}
           T == {i \in DOMAIN Append(s, c) : Append(s, c)[i] = b}
<1>0. Copies(s, b) = Cardinality(S) /\ Copies(Append(s, c), b) = Cardinality(T)
  BY Zenon DEF Copies
<1>1. IsFiniteSet(S) /\ Cardinality(S) \in Nat
  BY CopiesType DEF Copies
<1>2. CASE c = b
  <2>1. T = S \cup {Len(s) + 1}
    BY <1>2
  <2>2. Len(s) + 1 \notin S
    OBVIOUS
  <2>3. Cardinality(T) = Cardinality(S) + 1
    BY <1>1, <2>1, <2>2, FS_AddElement
  <2> HIDE DEF S, T
  <2> QED
    BY <1>0, <1>1, <1>2, <2>3
<1>3. CASE c # b
  <2>1. T = S
    BY <1>3
  <2> HIDE DEF S, T
  <2> QED
    BY <1>0, <1>1, <1>3, <2>1
<1> QED
  BY <1>2, <1>3

(* xQueueReceive removes one place of the buffer at the head.              *)
LEMMA CopiesTail ==
  ASSUME NEW s \in Seq(Buffer), NEW b, s # <<>>
  PROVE  Copies(s, b) = Copies(Tail(s), b) + (IF Head(s) = b THEN 1 ELSE 0)
<1> DEFINE S == {i \in DOMAIN s : s[i] = b}
           T == {i \in DOMAIN Tail(s) : Tail(s)[i] = b}
           R == S \ {1}
           F == [i \in T |-> i + 1]
<1>0. Copies(s, b) = Cardinality(S) /\ Copies(Tail(s), b) = Cardinality(T)
  BY Zenon DEF Copies
<1>1. IsFiniteSet(S) /\ Cardinality(S) \in Nat
  BY CopiesType DEF Copies
<1>2. Tail(s) \in Seq(Buffer) /\ Len(s) \in Nat /\ Len(s) > 0 /\ Len(Tail(s)) = Len(s) - 1
  OBVIOUS
<1>3. IsFiniteSet(T) /\ Cardinality(T) \in Nat
  BY <1>2, CopiesType DEF Copies
<1>4. \A i \in 1..Len(Tail(s)) : Tail(s)[i] = s[i + 1]
  OBVIOUS
<1>5. F \in Bijection(T, R)
  <2>1. F \in [T -> R]
    BY <1>2, <1>4
  <2>2. \A i, j \in T : F[i] = F[j] => i = j
    BY <1>2
  <2>3. \A k \in R : \E i \in T : F[i] = k
    <3> SUFFICES ASSUME NEW k \in R PROVE \E i \in T : F[i] = k
      OBVIOUS
    <3>1. k - 1 \in T
      BY <1>2, <1>4
    <3> QED
      BY <3>1, <1>2
  <2> QED
    BY <2>1, <2>2, <2>3 DEF Bijection, Injection, Surjection, IsInjective
<1>6. Cardinality(R) = Cardinality(T)
  BY <1>3, <1>5, FS_Bijection DEF ExistsBijection
<1>7. 1 \in S <=> Head(s) = b
  BY <1>2
<1>8. Cardinality(R) = IF 1 \in S THEN Cardinality(S) - 1 ELSE Cardinality(S)
  BY <1>1, FS_RemoveElement
<1> HIDE DEF S, T, R
<1> QED
  BY <1>0, <1>1, <1>3, <1>6, <1>7, <1>8

(* A queue that holds no buffer twice and one not at all has room left, so *)
(* memory_pool_put of that buffer cannot fail.                             *)
LEMMA PoolHasRoom ==
  ASSUME NEW s \in Seq(Buffer), NEW b \in Buffer, Copies(s, b) = 0,
         \A c \in Buffer : Copies(s, c) <= 1
  PROVE  Len(s) < Cardinality(Buffer)
<1> DEFINE S(c) == {i \in DOMAIN s : s[i] = c}
<1>1. DOMAIN s = 1..Len(s) /\ Len(s) \in Nat
  OBVIOUS
<1>2. \A i \in DOMAIN s : s[i] \in Buffer \ {b}
  <2> SUFFICES ASSUME NEW i \in DOMAIN s, s[i] = b PROVE FALSE
    BY <1>1
  <2>1. S(b) = {}
    BY CopiesType, FS_EmptySet DEF Copies
  <2> QED
    BY <2>1
<1>3. \A i, j \in DOMAIN s : s[i] = s[j] => i = j
  <2> SUFFICES ASSUME NEW i \in DOMAIN s, NEW j \in DOMAIN s, s[i] = s[j], i # j
               PROVE  FALSE
    OBVIOUS
  <2>1. s[i] \in Buffer
    BY <1>1
  <2>2. IsFiniteSet(S(s[i])) /\ Cardinality(S(s[i])) \in Nat /\ Cardinality(S(s[i])) <= 1
    BY <2>1, CopiesType DEF Copies
  <2>3. IsFiniteSet(S(s[i]) \ {i}) /\ Cardinality(S(s[i]) \ {i}) = 0
    <3>1. Cardinality(S(s[i]) \ {i}) = Cardinality(S(s[i])) - 1 /\ IsFiniteSet(S(s[i]) \ {i})
      BY <2>2, FS_RemoveElement
    <3>2. Cardinality(S(s[i]) \ {i}) \in Nat
      BY <3>1, FS_CardinalityType
    <3> QED
      BY <2>2, <3>1, <3>2
  <2>4. S(s[i]) \ {i} = {}
    BY <2>3, FS_EmptySet
  <2> QED
    BY <2>4
<1>4. s \in Injection(1..Len(s), Buffer \ {b})
  BY <1>1, <1>2, <1>3 DEF Injection, IsInjective
<1>5. /\ IsFiniteSet(Buffer \ {b}) /\ Cardinality(Buffer \ {b}) = Cardinality(Buffer) - 1
      /\ Cardinality(Buffer) \in Nat
  BY WebApiAssumption, FS_RemoveElement, FS_CardinalityType
<1>6. Cardinality(1..Len(s)) <= Cardinality(Buffer \ {b})
  BY <1>4, <1>5, FS_Injection
<1>7. Cardinality(1..Len(s)) = Len(s)
  BY <1>1, FS_Interval
<1> QED
  BY <1>1, <1>5, <1>6, <1>7

-----------------------------------------------------------------------------
(* Requests.                                                               *)

(* cJSON_Delete leaves a pointer to a tree that is gone, or NULL.          *)
LEMMA DeletedType ==
  ASSUME NEW j \in Json
  PROVE  Deleted(j) \in Json
BY DEF Json, Deleted

(* A freshly received request is one.                                      *)
LEMMA FreshType ==
  ASSUME NEW k \in {"frame", "text", "post"}
  PROVE  Fresh(k) \in Msg
BY DEF Fresh, Msg, Json

(* Answering a request leaves a request.                                   *)
LEMMA AnsweredType ==
  ASSUME NEW m \in Msg, NEW p \in BOOLEAN
  PROVE  Answered(m, p) \in Msg
<1>1. m.in \in Json /\ m.out \in Json /\ m.answers \in Nat
  BY DEF Msg
<1>2. PICK i \in Json, o \in Json : i = Deleted(m.in) /\ o = IF p THEN Deleted(m.out) ELSE m.out
  BY <1>1, DeletedType
<1>3. Answered(m, p) = [m EXCEPT !.answers = m.answers + 1, !.in = i, !.out = o]
  BY <1>2 DEF Answered
<1>4. \A ii, oo \in Json, n \in Nat :
        [m EXCEPT !.answers = n, !.in = ii, !.out = oo] \in Msg
  BY DEF Msg
<1>5. m.answers + 1 \in Nat
  BY <1>1
<1>6. [m EXCEPT !.answers = m.answers + 1, !.in = i, !.out = o] \in Msg
  BY <1>4, <1>5, Zenon
<1> QED
  BY <1>3, <1>6

-----------------------------------------------------------------------------
(* Moving buffers.                                                         *)

(* Putting back a buffer that is not in the pool succeeds.                 *)
LEMMA PutSucceeds ==
  ASSUME IInv, NEW b \in Buffer, Copies(pool, b) = 0, Put(b)
  PROVE  pool' = Append(pool, b) /\ crashed' = crashed /\ pool' \in Seq(Buffer)
<1>1. pool \in Seq(Buffer) /\ longQ \in Seq(Buffer) /\ sendQ \in Seq(Buffer)
      /\ work \in Seq(Buffer)
  BY DEF IInv, TypeOK
<1>2. \A c \in Buffer : Copies(pool, c) <= 1
  <2> SUFFICES ASSUME NEW c \in Buffer PROVE Copies(pool, c) <= 1
    OBVIOUS
  <2>1. /\ Copies(pool, c) \in Nat /\ Copies(longQ, c) \in Nat
        /\ Copies(sendQ, c) \in Nat /\ Copies(work, c) \in Nat
    BY <1>1, CopiesType
  <2>2. Places(c) <= 1
    BY DEF IInv, PoolConserved
  <2> QED
    BY <2>1, <2>2 DEF Places, Held
<1>3. Len(pool) < Cardinality(Buffer)
  BY <1>1, <1>2, PoolHasRoom
<1>4. pool' = Append(pool, b) /\ crashed' = crashed
  BY <1>3, Zenon DEF Put
<1> QED
  BY <1>1, <1>4

(* httpd ends a request and puts its buffer back.                          *)
LEMMA HttpdPuts ==
  ASSUME IInv, httpd.at \in {"handle", "push"}, Put(httpd.buf), HttpdIdle,
         UNCHANGED <<longQ, long, sendQ, send, work, requests, ssdp, fault>>,
         msg' \in [Buffer -> Msg]
  PROVE  IInv'
<1>1. /\ pool \in Seq(Buffer) /\ longQ \in Seq(Buffer) /\ sendQ \in Seq(Buffer)
      /\ work \in Seq(Buffer)
      /\ httpd \in [at : HttpdAt, buf : BufferOrNone, kind : {"ws", "post", "ssdp"}]
      /\ httpd.buf \in Buffer
  BY DEF IInv, TypeOK, HoldInv, BufferOrNone
<1>2. httpd.buf # NoBuf /\ NoBuf \notin Buffer
  BY <1>1, WebApiAssumption
<1>3. Copies(pool, httpd.buf) = 0
  <2>1. /\ Copies(pool, httpd.buf) \in Nat /\ Copies(longQ, httpd.buf) \in Nat
        /\ Copies(sendQ, httpd.buf) \in Nat /\ Copies(work, httpd.buf) \in Nat
    BY <1>1, CopiesType
  <2>2. Places(httpd.buf) <= 1
    BY <1>1 DEF IInv, PoolConserved
  <2>3. /\ Held(httpd, httpd.buf) = 1 /\ Held(long, httpd.buf) \in Nat
        /\ Held(send, httpd.buf) \in Nat
    BY DEF Held
  <2> QED
    BY <2>1, <2>2, <2>3 DEF Places
<1>4. pool' = Append(pool, httpd.buf) /\ crashed' = crashed /\ pool' \in Seq(Buffer)
  BY <1>1, <1>3, PutSucceeds
<1>5. httpd' = [httpd EXCEPT !.at = "idle", !.buf = NoBuf]
  BY DEF HttpdIdle
<1>6. TypeOK'
  BY <1>1, <1>4, <1>5 DEF IInv, TypeOK, HttpdAt, BufferOrNone
<1>7. HoldInv'
  BY <1>1, <1>5 DEF IInv, HoldInv
<1>8. PoolConserved'
  <2> SUFFICES ASSUME NEW b \in Buffer
               PROVE  Places(b)' = IF b \in ssdp' THEN 0 ELSE 1
    BY DEF PoolConserved
  <2>1. Copies(pool', b) = Copies(pool, b) + (IF httpd.buf = b THEN 1 ELSE 0)
    BY <1>1, <1>4, CopiesAppend
  <2>2. Held(httpd', b) = 0 /\ Held(httpd, b) = IF httpd.buf = b THEN 1 ELSE 0
    BY <1>1, <1>2, <1>5 DEF Held
  <2>3. Places(b) = IF b \in ssdp THEN 0 ELSE 1
    BY DEF IInv, PoolConserved
  <2>4. Copies(pool, b) \in Nat
    BY <1>1, CopiesType
  <2>5. /\ Held(long, b) \in Nat /\ Held(send, b) \in Nat /\ Copies(longQ, b) \in Nat
        /\ Copies(sendQ, b) \in Nat /\ Copies(work, b) \in Nat
    BY <1>1, CopiesType DEF Held
  <2> QED
    BY <2>1, <2>2, <2>3, <2>4, <2>5 DEF Places
<1> QED
  BY <1>6, <1>7, <1>8 DEF IInv

(* Every summand of Places is a natural number.                            *)
LEMMA CountsNat ==
  ASSUME TypeOK, NEW b
  PROVE  /\ Copies(pool, b) \in Nat /\ Copies(longQ, b) \in Nat
         /\ Copies(sendQ, b) \in Nat /\ Copies(work, b) \in Nat
         /\ Held(httpd, b) \in Nat /\ Held(long, b) \in Nat /\ Held(send, b) \in Nat
<1>1. /\ pool \in Seq(Buffer) /\ longQ \in Seq(Buffer) /\ sendQ \in Seq(Buffer)
      /\ work \in Seq(Buffer)
  BY DEF TypeOK
<1> QED
  BY <1>1, CopiesType DEF Held

(* A buffer outside the pool, at the head of work or in a task's hands, is *)
(* not in the pool.                                                        *)
LEMMA NotInPool ==
  ASSUME IInv, NEW b \in Buffer,
         Copies(work, b) >= 1 \/ httpd.buf = b \/ long.buf = b \/ send.buf = b
  PROVE  Copies(pool, b) = 0
<1>1. /\ Copies(pool, b) \in Nat /\ Copies(longQ, b) \in Nat
      /\ Copies(sendQ, b) \in Nat /\ Copies(work, b) \in Nat
      /\ Held(httpd, b) \in Nat /\ Held(long, b) \in Nat /\ Held(send, b) \in Nat
  BY CountsNat DEF IInv
<1>2. Places(b) <= 1
  BY DEF IInv, PoolConserved
<1>3. \/ Copies(work, b) >= 1 \/ Held(httpd, b) = 1
      \/ Held(long, b) = 1 \/ Held(send, b) = 1
  BY DEF Held
<1> QED
  BY <1>1, <1>2, <1>3 DEF Places

(* Wherever a buffer goes, PoolConserved only needs the counts.            *)
LEMMA SameCounts ==
  ASSUME IInv, ssdp' = ssdp, \A b \in Buffer : Places(b)' = Places(b)
  PROVE  PoolConserved'
BY DEF IInv, PoolConserved

(* A step that leaves every queue and every task's buffer alone.           *)
LEMMA NothingMoves ==
  ASSUME IInv, UNCHANGED <<pool, longQ, sendQ, work, ssdp>>,
         httpd'.buf = httpd.buf, long'.buf = long.buf, send'.buf = send.buf
  PROVE  PoolConserved'
<1>1. \A b \in Buffer : Places(b)' = Places(b)
  BY DEF Places, Held
<1> QED
  BY <1>1, SameCounts

(* A task of the runner takes the head of its queue.                       *)
LEMMA TakeCounts ==
  ASSUME NEW q \in Seq(Buffer), q # <<>>, NEW t, t.buf = NoBuf, NEW b \in Buffer
  PROVE  Copies(Tail(q), b) + (IF Head(q) = b THEN 1 ELSE 0) = Copies(q, b) + Held(t, b)
<1>1. Copies(q, b) = Copies(Tail(q), b) + (IF Head(q) = b THEN 1 ELSE 0)
  BY CopiesTail
<1>2. Held(t, b) = 0
  BY WebApiAssumption DEF Held
<1>3. Copies(q, b) \in Nat
  BY CopiesType
<1> QED
  BY <1>1, <1>2, <1>3

(* What ws_on_text_data and api_post_handler make of a buffer is a request.*)
LEMMA ReceivedType ==
  ASSUME NEW b \in Buffer, msg[b] \in Msg
  PROVE  Received(b) \in Msg
<1>1. PICK k \in {"text", "post"} : k = IF httpd.kind = "ws" THEN "text" ELSE "post"
  OBVIOUS
<1>2. Received(b) = [msg[b] EXCEPT !.kind = k, !.in = "live"]
  BY <1>1, Zenon DEF Received
<1>3. [msg[b] EXCEPT !.kind = k, !.in = "live"] \in Msg
  BY DEF Msg, Json
<1> QED
  BY <1>2, <1>3

(* send_out.cb answers: the buffer goes back to the pool, or with the      *)
(* answer to httpd.                                                        *)
LEMMA CallbackMoves ==
  ASSUME IInv, NEW b \in Buffer, long.buf = b \/ send.buf = b, Callback(b)
  PROVE  /\ msg' \in [Buffer -> Msg]
         /\ crashed' = crashed
         /\ \/ pool' = Append(pool, b) /\ work' = work
            \/ work' = Append(work, b) /\ pool' = pool
<1>1. msg \in [Buffer -> Msg] /\ msg[b] \in Msg
  BY DEF IInv, TypeOK
<1>2. Put(b) => pool' = Append(pool, b) /\ crashed' = crashed
  BY NotInPool, PutSucceeds
<1>3. Answered(msg[b], TRUE) \in Msg /\ Answered(msg[b], FALSE) \in Msg
  BY <1>1, AnsweredType
<1>4. PICK i \in Json, o \in Json : i = Deleted(msg[b].in) /\ o = Deleted(msg[b].out)
  BY <1>1, DeletedType DEF Msg
<1>5. CASE WsSendError(b)
  <2>1. msg' = [msg EXCEPT ![b] = Answered(msg[b], FALSE)]
    BY <1>5, Zenon DEF WsSendError
  <2> QED
    BY <1>1, <1>2, <1>3, <1>5, <2>1 DEF WsSendError
<1>6. CASE WsQueueWork(b)
  <2>1. msg' = [msg EXCEPT ![b] = [msg[b] EXCEPT !.in = i, !.out = o]]
    BY <1>1, <1>4, <1>6 DEF WsQueueWork
  <2>2. [msg[b] EXCEPT !.in = i, !.out = o] \in Msg
    BY <1>1 DEF Msg
  <2> QED
    BY <1>1, <1>6, <2>1, <2>2, ZenonT(40) DEF WsQueueWork
<1>7. CASE WsQueueWorkFails(b)
  <2>1. msg' = [msg EXCEPT ![b] = [msg[b] EXCEPT !.in = i, !.out = o, !.unsent = TRUE]]
    BY <1>1, <1>4, <1>7 DEF WsQueueWorkFails
  <2>2. [msg[b] EXCEPT !.in = i, !.out = o, !.unsent = TRUE] \in Msg
    BY <1>1 DEF Msg
  <2>3. pool' = Append(pool, b) /\ crashed' = crashed /\ work' = work
    BY <1>2, <1>7, Zenon DEF WsQueueWorkFails
  <2>4. msg' \in [Buffer -> Msg]
    BY <1>1, <2>1, <2>2
  <2> QED
    BY <2>3, <2>4
<1>8. CASE PostSendOut(b)
  <2>1. msg' = [msg EXCEPT ![b] = [Answered(msg[b], TRUE) EXCEPT
                                     !.begun = FALSE, !.closed = msg[b].status # "ok"]]
    BY <1>8, Zenon DEF PostSendOut
  <2>2. [Answered(msg[b], TRUE) EXCEPT !.begun = FALSE, !.closed = msg[b].status # "ok"] \in Msg
    BY <1>3 DEF Msg
  <2> QED
    BY <1>1, <1>2, <1>8, <2>1, <2>2 DEF PostSendOut
<1> QED
  BY <1>5, <1>6, <1>7, <1>8, Zenon DEF Callback

-----------------------------------------------------------------------------
(* The steps.                                                              *)

(* Every step keeps the inductive invariant.                               *)
LEMMA StepInv == IInv /\ [Next]_vars => IInv'
<1> SUFFICES ASSUME IInv, [Next]_vars PROVE IInv'
  OBVIOUS
<1>a. /\ pool \in Seq(Buffer) /\ longQ \in Seq(Buffer) /\ sendQ \in Seq(Buffer)
      /\ work \in Seq(Buffer) /\ msg \in [Buffer -> Msg]
      /\ httpd \in [at : HttpdAt, buf : BufferOrNone, kind : {"ws", "post", "ssdp"}]
      /\ long \in [at : TaskAt, buf : BufferOrNone] /\ send \in [at : TaskAt, buf : BufferOrNone]
      /\ Len(longQ) <= LongRunMax /\ Len(sendQ) <= SendOutMax
      /\ requests \in Nat /\ ssdp \subseteq Buffer /\ crashed \in BOOLEAN /\ fault \in BOOLEAN
  BY DEF IInv, TypeOK
<1>b. /\ httpd.at \in {"idle", "get"} <=> httpd.buf = NoBuf
      /\ long.at = "idle" <=> long.buf = NoBuf
      /\ send.at = "idle" <=> send.buf = NoBuf
  BY DEF IInv, HoldInv
<1>c. /\ NoBuf \notin Buffer /\ LongRunMax \in Nat /\ SendOutMax \in Nat
  BY WebApiAssumption
<1>d. /\ httpd.at \in {"handle", "push"} => httpd.buf \in Buffer
      /\ long.at # "idle" => long.buf \in Buffer
      /\ send.at # "idle" => send.buf \in Buffer
  BY <1>a, <1>b DEF BufferOrNone
<1>e. \A b \in Buffer :
        /\ Copies(pool, b) \in Nat /\ Copies(longQ, b) \in Nat
        /\ Copies(sendQ, b) \in Nat /\ Copies(work, b) \in Nat
        /\ Held(httpd, b) \in Nat /\ Held(long, b) \in Nat /\ Held(send, b) \in Nat
  BY CountsNat DEF IInv
<1>f. \A b \in Buffer : msg[b] \in Msg
  BY <1>a
<1>1. ASSUME NEW k \in {"ws", "post", "ssdp"}, Request(k) PROVE IInv'
  <2>1. TypeOK'
    BY <1>1, <1>a DEF TypeOK, Request, HttpdAt, BufferOrNone
  <2>2. HoldInv'
    BY <1>1, <1>b DEF HoldInv, Request
  <2>3. PoolConserved'
    BY <1>1, <1>a, <1>b, NothingMoves DEF Request
  <2> QED
    BY <2>1, <2>2, <2>3 DEF IInv
<1>2. CASE PoolEmpty
  <2>1. TypeOK'
    BY <1>2, <1>a DEF TypeOK, PoolEmpty
  <2>2. HoldInv'
    BY <1>2, <1>a, <1>b DEF HoldInv, PoolEmpty
  <2>3. PoolConserved'
    BY <1>2, <1>a, <1>b, NothingMoves DEF PoolEmpty
  <2> QED
    BY <2>1, <2>2, <2>3 DEF IInv
<1>3. CASE ControlFrame
  <2>9. msg' \in [Buffer -> Msg]
    BY <1>3, <1>a DEF ControlFrame
  <2> QED
    BY <1>3, <2>9, HttpdPuts DEF ControlFrame
<1>4. CASE CloseConnection
  <2>1. [msg[httpd.buf] EXCEPT !.closed = TRUE] \in Msg
    BY <1>4, <1>d, <1>f DEF CloseConnection, Msg
  <2>9. msg' \in [Buffer -> Msg]
    BY <1>4, <2>1, <1>a, <1>d DEF CloseConnection
  <2> QED
    BY <1>4, <2>9, HttpdPuts DEF CloseConnection
<1>5. CASE ParseError
  <2>1. [Received(httpd.buf) EXCEPT !.in = "null"] \in Msg
    BY <1>5, <1>d, <1>f, ZenonT(40) DEF ParseError, Received, Msg, Json
  <2>2. Answered([Received(httpd.buf) EXCEPT !.in = "null"], FALSE) \in Msg
    BY <2>1, AnsweredType
  <2>9. msg' \in [Buffer -> Msg]
    BY <1>5, <2>2, <1>a, <1>d DEF ParseError
  <2> QED
    BY <1>5, <2>9, HttpdPuts DEF ParseError
<1>6. CASE Synchronous
  <2>1. PICK out \in {"null", "live"} :
          msg' = [msg EXCEPT ![httpd.buf] = Answered([Received(httpd.buf) EXCEPT !.out = out], TRUE)]
    BY <1>6 DEF Synchronous
  <2>4. Received(httpd.buf) \in Msg
    BY <1>6, <1>d, <1>f, ReceivedType DEF Synchronous
  <2>2. [Received(httpd.buf) EXCEPT !.out = out] \in Msg
    BY <2>4 DEF Msg, Json
  <2>3. Answered([Received(httpd.buf) EXCEPT !.out = out], TRUE) \in Msg
    BY <2>2, AnsweredType
  <2>9. msg' \in [Buffer -> Msg]
    BY <2>1, <2>3, <1>a
  <2> QED
    BY <1>6, <2>9, HttpdPuts DEF Synchronous
<1>7. CASE PushLongRunFails
  <2>1. Answered(msg[httpd.buf], FALSE) \in Msg
    BY <1>7, <1>d, <1>f, AnsweredType DEF PushLongRunFails
  <2>2. [Answered(msg[httpd.buf], FALSE) EXCEPT !.begun = FALSE] \in Msg
    BY <2>1 DEF Msg
  <2>9. msg' \in [Buffer -> Msg]
    BY <1>7, <2>2, <1>a DEF PushLongRunFails
  <2> QED
    BY <1>7, <2>9, HttpdPuts DEF PushLongRunFails
<1>8. CASE Asynchronous
  <2>1. [Received(httpd.buf) EXCEPT !.begun = httpd.kind = "post"] \in Msg
    BY <1>8, <1>d, <1>f, ZenonT(40) DEF Asynchronous, Received, Msg, Json
  <2>2. msg' \in [Buffer -> Msg]
    BY <1>8, <2>1, <1>a DEF Asynchronous
  <2>3. TypeOK'
    BY <1>8, <2>2, <1>a DEF TypeOK, Asynchronous, HttpdAt
  <2>4. HoldInv'
    BY <1>8, <1>a, <1>b DEF HoldInv, Asynchronous
  <2>5. PoolConserved'
    BY <1>8, <1>a, <1>b, NothingMoves DEF Asynchronous
  <2> QED
    BY <2>3, <2>4, <2>5 DEF IInv
<1>9. CASE LongRun
  <2>1. PICK status \in {"ok", "error"}, out \in {"null", "live"} :
          msg' = [msg EXCEPT ![long.buf].status = status, ![long.buf].out = out]
    BY <1>9 DEF LongRun
  <2>2. long.buf \in Buffer
    BY <1>9, <1>d DEF LongRun
  <2>3. [msg[long.buf] EXCEPT !.status = status, !.out = out] \in Msg
    BY <2>2, <1>f DEF Msg, Json
  <2>4. msg' = [msg EXCEPT ![long.buf] = [msg[long.buf] EXCEPT !.status = status, !.out = out]]
    BY <2>1, <2>2, <1>a
  <2>5. msg' \in [Buffer -> Msg]
    BY <2>2, <2>3, <2>4, <1>a
  <2>6. TypeOK'
    BY <1>9, <2>5, <1>a DEF TypeOK, LongRun, TaskAt
  <2>7. HoldInv'
    BY <1>9, <1>a, <1>b DEF HoldInv, LongRun
  <2>8. PoolConserved'
    BY <1>9, <1>a, <1>b, NothingMoves DEF LongRun
  <2> QED
    BY <2>6, <2>7, <2>8 DEF IInv
<1>10. CASE LongPushFails
  <2>1. [msg[long.buf] EXCEPT !.status = "error"] \in Msg
    BY <1>10, <1>d, <1>f DEF LongPushFails, Msg
  <2>2. msg' \in [Buffer -> Msg]
    BY <1>10, <2>1, <1>a DEF LongPushFails
  <2>3. TypeOK'
    BY <1>10, <2>2, <1>a DEF TypeOK, LongPushFails, TaskAt
  <2>4. HoldInv'
    BY <1>10, <1>a, <1>b DEF HoldInv, LongPushFails
  <2>5. PoolConserved'
    BY <1>10, <1>a, <1>b, NothingMoves DEF LongPushFails
  <2> QED
    BY <2>3, <2>4, <2>5 DEF IInv
<1>11. CASE PoolGet
  <2>1. Head(pool) \in Buffer /\ Tail(pool) \in Seq(Buffer)
    BY <1>11, <1>a DEF PoolGet
  <2>2. msg' \in [Buffer -> Msg]
    BY <1>11, <2>1, <1>a, FreshType DEF PoolGet
  <2>3. TypeOK'
    BY <1>11, <2>1, <2>2, <1>a DEF TypeOK, PoolGet, HttpdAt, BufferOrNone
  <2>4. HoldInv'
    BY <1>11, <2>1, <1>a, <1>b, <1>c DEF HoldInv, PoolGet
  <2>5. \A b \in Buffer : Places(b)' = Places(b)
    <3> SUFFICES ASSUME NEW b \in Buffer PROVE Places(b)' = Places(b)
      OBVIOUS
    <3>1. Copies(pool', b) + Held(httpd', b) = Copies(pool, b) + Held(httpd, b)
      <4>1. httpd.buf = NoBuf /\ pool' = Tail(pool) /\ httpd'.buf = Head(pool)
        BY <1>11, <1>a, <1>b DEF PoolGet
      <4> QED
        BY <1>11, <1>a, <4>1, TakeCounts, ZenonT(40) DEF PoolGet, Held
    <3>2. /\ Copies(longQ', b) = Copies(longQ, b) /\ Copies(sendQ', b) = Copies(sendQ, b)
          /\ Copies(work', b) = Copies(work, b) /\ Held(long', b) = Held(long, b)
          /\ Held(send', b) = Held(send, b)
      BY <1>11 DEF PoolGet
    <3>3. Copies(pool', b) \in Nat /\ Held(httpd', b) \in Nat
      BY <2>3, CopiesType DEF TypeOK, Held
    <3> QED
      BY <3>1, <3>2, <3>3, <1>e DEF Places
  <2>6. PoolConserved'
    BY <1>11, <2>5, SameCounts DEF PoolGet
  <2> QED
    BY <2>3, <2>4, <2>6 DEF IInv
<1>12. CASE Ssdp
  <2>1. Head(pool) \in Buffer /\ Tail(pool) \in Seq(Buffer)
    BY <1>12, <1>a DEF Ssdp
  <2>2. httpd' = [httpd EXCEPT !.at = "idle", !.buf = NoBuf] /\ httpd.buf = NoBuf
    BY <1>12, <1>b DEF Ssdp, HttpdIdle
  <2>3. TypeOK'
    BY <1>12, <2>1, <2>2, <1>a DEF TypeOK, Ssdp, HttpdAt, BufferOrNone
  <2>4. HoldInv'
    BY <1>12, <2>2, <1>a, <1>b DEF HoldInv, Ssdp
  <2>5. PoolConserved'
    <3> SUFFICES ASSUME NEW b \in Buffer PROVE Places(b)' = IF b \in ssdp' THEN 0 ELSE 1
      BY DEF PoolConserved
    <3>1. Copies(pool, b) = Copies(pool', b) + (IF Head(pool) = b THEN 1 ELSE 0)
      BY <1>12, <1>a, CopiesTail DEF Ssdp
    <3>2. /\ Copies(longQ', b) = Copies(longQ, b) /\ Copies(sendQ', b) = Copies(sendQ, b)
          /\ Copies(work', b) = Copies(work, b) /\ Held(long', b) = Held(long, b)
          /\ Held(send', b) = Held(send, b)
      BY <1>12 DEF Ssdp
    <3>3. Held(httpd', b) = Held(httpd, b)
      BY <2>2, <1>a DEF Held
    <3>4. Copies(pool', b) \in Nat
      BY <2>3, CopiesType DEF TypeOK
    <3>5. Places(b) = IF b \in ssdp THEN 0 ELSE 1
      BY DEF IInv, PoolConserved
    <3>6. b \in ssdp' <=> b \in ssdp \/ b = Head(pool)
      BY <1>12 DEF Ssdp
    <3> QED
      BY <3>1, <3>2, <3>3, <3>4, <3>5, <3>6, <1>e DEF Places
  <2> QED
    BY <2>3, <2>4, <2>5 DEF IInv
<1>13. CASE PushLongRun
  <2>1. httpd.buf \in Buffer
    BY <1>13, <1>d DEF PushLongRun
  <2>2. longQ' = Append(longQ, httpd.buf) /\ longQ' \in Seq(Buffer) /\ Len(longQ') = Len(longQ) + 1
    BY <1>13, <2>1, <1>a DEF PushLongRun
  <2>7. Len(longQ') <= LongRunMax
    BY <1>13, <2>2, <1>a, <1>c DEF PushLongRun
  <2>8. httpd' \in [at : HttpdAt, buf : BufferOrNone, kind : {"ws", "post", "ssdp"}]
    BY <1>13, <1>a DEF PushLongRun, HttpdIdle, HttpdAt, BufferOrNone
  <2>3. TypeOK'
    BY <1>13, <2>2, <2>7, <2>8, <1>a DEF TypeOK, PushLongRun
  <2>4. HoldInv'
    BY <1>13, <1>a, <1>b DEF HoldInv, PushLongRun, HttpdIdle, HttpdAt
  <2>5. \A b \in Buffer : Places(b)' = Places(b)
    <3> SUFFICES ASSUME NEW b \in Buffer PROVE Places(b)' = Places(b)
      OBVIOUS
    <3>1. Held(httpd', b) + Copies(longQ', b) = Held(httpd, b) + Copies(longQ, b)
      <4>1. Copies(longQ', b) = Copies(longQ, b) + (IF httpd.buf = b THEN 1 ELSE 0)
        BY <2>1, <2>2, <1>a, CopiesAppend
      <4>2. httpd'.buf = NoBuf
        BY <1>13, <1>a DEF PushLongRun, HttpdIdle, HttpdAt
      <4> QED
        BY <4>1, <4>2, <1>c, <1>e DEF Held
    <3>2. /\ Copies(pool', b) = Copies(pool, b) /\ Copies(sendQ', b) = Copies(sendQ, b)
          /\ Copies(work', b) = Copies(work, b) /\ Held(long', b) = Held(long, b)
          /\ Held(send', b) = Held(send, b)
      BY <1>13 DEF PushLongRun
    <3>3. Held(httpd', b) \in Nat /\ Copies(longQ', b) \in Nat
      BY <2>3, CopiesType DEF TypeOK, Held
    <3> QED
      BY <3>1, <3>2, <3>3, <1>e DEF Places
  <2>6. PoolConserved'
    BY <1>13, <2>5, SameCounts DEF PushLongRun
  <2> QED
    BY <2>3, <2>4, <2>6 DEF IInv
<1>14. CASE LongPush
  <2>1. long.buf \in Buffer
    BY <1>14, <1>d DEF LongPush
  <2>2. sendQ' = Append(sendQ, long.buf) /\ sendQ' \in Seq(Buffer) /\ Len(sendQ') = Len(sendQ) + 1
    BY <1>14, <2>1, <1>a DEF LongPush
  <2>7. Len(sendQ') <= SendOutMax
    BY <1>14, <2>2, <1>a, <1>c DEF LongPush
  <2>8. long' \in [at : TaskAt, buf : BufferOrNone]
    BY <1>14, <1>a DEF LongPush, Idle, TaskAt, BufferOrNone
  <2>3. TypeOK'
    BY <1>14, <2>2, <2>7, <2>8, <1>a DEF TypeOK, LongPush
  <2>4. HoldInv'
    BY <1>14, <1>a, <1>b DEF HoldInv, LongPush, Idle, TaskAt
  <2>5. \A b \in Buffer : Places(b)' = Places(b)
    <3> SUFFICES ASSUME NEW b \in Buffer PROVE Places(b)' = Places(b)
      OBVIOUS
    <3>1. Held(long', b) + Copies(sendQ', b) = Held(long, b) + Copies(sendQ, b)
      <4>1. Copies(sendQ', b) = Copies(sendQ, b) + (IF long.buf = b THEN 1 ELSE 0)
        BY <2>1, <2>2, <1>a, CopiesAppend
      <4>2. long'.buf = NoBuf
        BY <1>14, <1>a DEF LongPush, Idle, TaskAt
      <4> QED
        BY <4>1, <4>2, <1>c, <1>e DEF Held
    <3>2. /\ Copies(pool', b) = Copies(pool, b) /\ Copies(longQ', b) = Copies(longQ, b)
          /\ Copies(work', b) = Copies(work, b) /\ Held(httpd', b) = Held(httpd, b)
          /\ Held(send', b) = Held(send, b)
      BY <1>14 DEF LongPush
    <3>3. Held(long', b) \in Nat /\ Copies(sendQ', b) \in Nat
      BY <2>3, CopiesType DEF TypeOK, Held
    <3> QED
      BY <3>1, <3>2, <3>3, <1>e DEF Places
  <2>6. PoolConserved'
    BY <1>14, <2>5, SameCounts DEF LongPush
  <2> QED
    BY <2>3, <2>4, <2>6 DEF IInv
<1>15. CASE LongTake
  <2>1. Head(longQ) \in Buffer /\ Tail(longQ) \in Seq(Buffer) /\ Len(Tail(longQ)) = Len(longQ) - 1
    BY <1>15, <1>a DEF LongTake
  <2>3. TypeOK'
    BY <1>15, <2>1, <1>a, <1>c DEF TypeOK, LongTake, TaskAt, BufferOrNone
  <2>4. HoldInv'
    BY <1>15, <2>1, <1>a, <1>b, <1>c DEF HoldInv, LongTake
  <2>5. \A b \in Buffer : Places(b)' = Places(b)
    <3> SUFFICES ASSUME NEW b \in Buffer PROVE Places(b)' = Places(b)
      OBVIOUS
    <3>1. Copies(longQ', b) + Held(long', b) = Copies(longQ, b) + Held(long, b)
      <4>1. long.buf = NoBuf /\ longQ' = Tail(longQ) /\ long'.buf = Head(longQ)
        BY <1>15, <1>a, <1>b DEF LongTake
      <4> QED
        BY <1>15, <1>a, <4>1, TakeCounts DEF LongTake, Held
    <3>2. /\ Copies(pool', b) = Copies(pool, b) /\ Copies(sendQ', b) = Copies(sendQ, b)
          /\ Copies(work', b) = Copies(work, b) /\ Held(httpd', b) = Held(httpd, b)
          /\ Held(send', b) = Held(send, b)
      BY <1>15 DEF LongTake
    <3>3. Copies(longQ', b) \in Nat /\ Held(long', b) \in Nat
      BY <2>3, CopiesType DEF TypeOK, Held
    <3> QED
      BY <3>1, <3>2, <3>3, <1>e DEF Places
  <2>6. PoolConserved'
    BY <1>15, <2>5, SameCounts DEF LongTake
  <2> QED
    BY <2>3, <2>4, <2>6 DEF IInv
<1>16. CASE SendTake
  <2>1. Head(sendQ) \in Buffer /\ Tail(sendQ) \in Seq(Buffer) /\ Len(Tail(sendQ)) = Len(sendQ) - 1
    BY <1>16, <1>a DEF SendTake
  <2>3. TypeOK'
    BY <1>16, <2>1, <1>a, <1>c DEF TypeOK, SendTake, TaskAt, BufferOrNone
  <2>4. HoldInv'
    BY <1>16, <2>1, <1>a, <1>b, <1>c DEF HoldInv, SendTake
  <2>5. \A b \in Buffer : Places(b)' = Places(b)
    <3> SUFFICES ASSUME NEW b \in Buffer PROVE Places(b)' = Places(b)
      OBVIOUS
    <3>1. Copies(sendQ', b) + Held(send', b) = Copies(sendQ, b) + Held(send, b)
      <4>1. send.buf = NoBuf /\ sendQ' = Tail(sendQ) /\ send'.buf = Head(sendQ)
        BY <1>16, <1>a, <1>b DEF SendTake
      <4> QED
        BY <1>16, <1>a, <4>1, TakeCounts DEF SendTake, Held
    <3>2. /\ Copies(pool', b) = Copies(pool, b) /\ Copies(longQ', b) = Copies(longQ, b)
          /\ Copies(work', b) = Copies(work, b) /\ Held(httpd', b) = Held(httpd, b)
          /\ Held(long', b) = Held(long, b)
      BY <1>16 DEF SendTake
    <3>3. Copies(sendQ', b) \in Nat /\ Held(send', b) \in Nat
      BY <2>3, CopiesType DEF TypeOK, Held
    <3> QED
      BY <3>1, <3>2, <3>3, <1>e DEF Places
  <2>6. PoolConserved'
    BY <1>16, <2>5, SameCounts DEF SendTake
  <2> QED
    BY <2>3, <2>4, <2>6 DEF IInv
<1>17. CASE RunWork
  <2>1. Head(work) \in Buffer /\ Tail(work) \in Seq(Buffer)
    BY <1>17, <1>a DEF RunWork
  <2>2. msg' \in [Buffer -> Msg]
    <3>1. [msg[Head(work)] EXCEPT !.answers = @ + 1] \in Msg
      BY <2>1, <1>f DEF Msg
    <3> QED
      BY <1>17, <3>1, <1>a DEF RunWork
  <2>7. Copies(work, Head(work)) >= 1
    <3>1. Copies(work, Head(work)) = Copies(Tail(work), Head(work)) + 1
      BY <1>17, <1>a, CopiesTail DEF RunWork
    <3>2. Copies(Tail(work), Head(work)) \in Nat
      BY <2>1, CopiesType
    <3> QED
      BY <3>1, <3>2
  <2>8. pool' = Append(pool, Head(work)) /\ crashed' = crashed /\ pool' \in Seq(Buffer)
    BY <1>17, <2>1, <2>7, NotInPool, PutSucceeds DEF RunWork
  <2>3. TypeOK'
    BY <1>17, <2>1, <2>2, <2>8, <1>a DEF TypeOK, RunWork
  <2>4. HoldInv'
    BY <1>17, <1>b DEF HoldInv, RunWork
  <2>5. \A b \in Buffer : Places(b)' = Places(b)
    <3> SUFFICES ASSUME NEW b \in Buffer PROVE Places(b)' = Places(b)
      OBVIOUS
    <3>1. Copies(work', b) + Copies(pool', b) = Copies(work, b) + Copies(pool, b)
      <4>1. Copies(work, b) = Copies(work', b) + (IF Head(work) = b THEN 1 ELSE 0)
        BY <1>17, <1>a, CopiesTail DEF RunWork
      <4>2. Copies(pool', b) = Copies(pool, b) + (IF Head(work) = b THEN 1 ELSE 0)
        BY <2>1, <2>8, <1>a, CopiesAppend
      <4>3. Copies(work', b) \in Nat
        BY <2>3, CopiesType DEF TypeOK
      <4> QED
        BY <4>1, <4>2, <4>3, <1>e
    <3>2. /\ Copies(longQ', b) = Copies(longQ, b) /\ Copies(sendQ', b) = Copies(sendQ, b)
          /\ Held(httpd', b) = Held(httpd, b) /\ Held(long', b) = Held(long, b)
          /\ Held(send', b) = Held(send, b)
      BY <1>17 DEF RunWork
    <3>3. Copies(work', b) \in Nat /\ Copies(pool', b) \in Nat
      BY <2>3, CopiesType DEF TypeOK, Held
    <3> QED
      BY <3>1, <3>2, <3>3, <1>e DEF Places
  <2>6. PoolConserved'
    BY <1>17, <2>5, SameCounts DEF RunWork
  <2> QED
    BY <2>3, <2>4, <2>6 DEF IInv
<1>18. CASE SendOut
  <2>1. send.buf \in Buffer
    BY <1>18, <1>d DEF SendOut
  <2>2. /\ msg' \in [Buffer -> Msg]
        /\ crashed' = crashed
        /\ \/ pool' = Append(pool, send.buf) /\ work' = work
           \/ work' = Append(work, send.buf) /\ pool' = pool
    BY <1>18, <2>1, CallbackMoves DEF SendOut
  <2>3. fault' \in BOOLEAN
    BY <1>18, <1>a DEF SendOut, Callback
  <2>4. HoldInv'
    BY <1>18, <1>b DEF HoldInv, SendOut, Idle
  <2>5. CASE pool' = Append(pool, send.buf) /\ work' = work
    <3>1. TypeOK'
      BY <1>18, <2>1, <2>2, <2>5, <2>3, <1>a DEF TypeOK, SendOut, Idle, TaskAt, BufferOrNone
    <3>5. \A b \in Buffer : Places(b)' = Places(b)
      <4> SUFFICES ASSUME NEW b \in Buffer PROVE Places(b)' = Places(b)
        OBVIOUS
      <4>1. Held(send', b) + Copies(pool', b) = Held(send, b) + Copies(pool, b)
        <5>1. Copies(pool', b) = Copies(pool, b) + (IF send.buf = b THEN 1 ELSE 0)
          BY <2>1, <2>5, <1>a, CopiesAppend
        <5>2. send'.buf = NoBuf
          BY <1>18 DEF SendOut, Idle
        <5> QED
          BY <5>1, <5>2, <1>c, <1>e DEF Held
      <4>2. /\ Copies(longQ', b) = Copies(longQ, b) /\ Copies(sendQ', b) = Copies(sendQ, b)
            /\ Copies(work', b) = Copies(work, b) /\ Held(httpd', b) = Held(httpd, b)
            /\ Held(long', b) = Held(long, b)
        BY <1>18, <2>5 DEF SendOut
      <4>3. Held(send', b) \in Nat /\ Copies(pool', b) \in Nat
        BY <3>1, CopiesType DEF TypeOK, Held
      <4> QED
        BY <4>1, <4>2, <4>3, <1>e DEF Places
    <3>6. PoolConserved'
      BY <1>18, <3>5, SameCounts DEF SendOut
    <3> QED
      BY <3>1, <3>6, <2>4 DEF IInv
  <2>6. CASE work' = Append(work, send.buf) /\ pool' = pool
    <3>1. TypeOK'
      BY <1>18, <2>1, <2>2, <2>6, <2>3, <1>a DEF TypeOK, SendOut, Idle, TaskAt, BufferOrNone
    <3>5. \A b \in Buffer : Places(b)' = Places(b)
      <4> SUFFICES ASSUME NEW b \in Buffer PROVE Places(b)' = Places(b)
        OBVIOUS
      <4>1. Held(send', b) + Copies(work', b) = Held(send, b) + Copies(work, b)
        <5>1. Copies(work', b) = Copies(work, b) + (IF send.buf = b THEN 1 ELSE 0)
          BY <2>1, <2>6, <1>a, CopiesAppend
        <5>2. send'.buf = NoBuf
          BY <1>18 DEF SendOut, Idle
        <5> QED
          BY <5>1, <5>2, <1>c, <1>e DEF Held
      <4>2. /\ Copies(pool', b) = Copies(pool, b) /\ Copies(longQ', b) = Copies(longQ, b)
            /\ Copies(sendQ', b) = Copies(sendQ, b) /\ Held(httpd', b) = Held(httpd, b)
            /\ Held(long', b) = Held(long, b)
        BY <1>18, <2>6 DEF SendOut
      <4>3. Held(send', b) \in Nat /\ Copies(work', b) \in Nat
        BY <3>1, CopiesType DEF TypeOK, Held
      <4> QED
        BY <4>1, <4>2, <4>3, <1>e DEF Places
    <3>6. PoolConserved'
      BY <1>18, <3>5, SameCounts DEF SendOut
    <3> QED
      BY <3>1, <3>6, <2>4 DEF IInv
  <2> QED
    BY <2>2, <2>5, <2>6
<1>19. CASE SendOutInline
  <2>1. long.buf \in Buffer
    BY <1>19, <1>d DEF SendOutInline
  <2>2. /\ msg' \in [Buffer -> Msg]
        /\ crashed' = crashed
        /\ \/ pool' = Append(pool, long.buf) /\ work' = work
           \/ work' = Append(work, long.buf) /\ pool' = pool
    BY <1>19, <2>1, CallbackMoves DEF SendOutInline
  <2>3. fault' \in BOOLEAN
    BY <1>19, <1>a DEF SendOutInline, Callback
  <2>4. HoldInv'
    BY <1>19, <1>b DEF HoldInv, SendOutInline, Idle
  <2>5. CASE pool' = Append(pool, long.buf) /\ work' = work
    <3>1. TypeOK'
      BY <1>19, <2>1, <2>2, <2>5, <2>3, <1>a DEF TypeOK, SendOutInline, Idle, TaskAt, BufferOrNone
    <3>5. \A b \in Buffer : Places(b)' = Places(b)
      <4> SUFFICES ASSUME NEW b \in Buffer PROVE Places(b)' = Places(b)
        OBVIOUS
      <4>1. Held(long', b) + Copies(pool', b) = Held(long, b) + Copies(pool, b)
        <5>1. Copies(pool', b) = Copies(pool, b) + (IF long.buf = b THEN 1 ELSE 0)
          BY <2>1, <2>5, <1>a, CopiesAppend
        <5>2. long'.buf = NoBuf
          BY <1>19 DEF SendOutInline, Idle
        <5> QED
          BY <5>1, <5>2, <1>c, <1>e DEF Held
      <4>2. /\ Copies(longQ', b) = Copies(longQ, b) /\ Copies(sendQ', b) = Copies(sendQ, b)
            /\ Copies(work', b) = Copies(work, b) /\ Held(httpd', b) = Held(httpd, b)
            /\ Held(send', b) = Held(send, b)
        BY <1>19, <2>5 DEF SendOutInline
      <4>3. Held(long', b) \in Nat /\ Copies(pool', b) \in Nat
        BY <3>1, CopiesType DEF TypeOK, Held
      <4> QED
        BY <4>1, <4>2, <4>3, <1>e DEF Places
    <3>6. PoolConserved'
      BY <1>19, <3>5, SameCounts DEF SendOutInline
    <3> QED
      BY <3>1, <3>6, <2>4 DEF IInv
  <2>6. CASE work' = Append(work, long.buf) /\ pool' = pool
    <3>1. TypeOK'
      BY <1>19, <2>1, <2>2, <2>6, <2>3, <1>a DEF TypeOK, SendOutInline, Idle, TaskAt, BufferOrNone
    <3>5. \A b \in Buffer : Places(b)' = Places(b)
      <4> SUFFICES ASSUME NEW b \in Buffer PROVE Places(b)' = Places(b)
        OBVIOUS
      <4>1. Held(long', b) + Copies(work', b) = Held(long, b) + Copies(work, b)
        <5>1. Copies(work', b) = Copies(work, b) + (IF long.buf = b THEN 1 ELSE 0)
          BY <2>1, <2>6, <1>a, CopiesAppend
        <5>2. long'.buf = NoBuf
          BY <1>19 DEF SendOutInline, Idle
        <5> QED
          BY <5>1, <5>2, <1>c, <1>e DEF Held
      <4>2. /\ Copies(pool', b) = Copies(pool, b) /\ Copies(longQ', b) = Copies(longQ, b)
            /\ Copies(sendQ', b) = Copies(sendQ, b) /\ Held(httpd', b) = Held(httpd, b)
            /\ Held(send', b) = Held(send, b)
        BY <1>19, <2>6 DEF SendOutInline
      <4>3. Held(long', b) \in Nat /\ Copies(work', b) \in Nat
        BY <3>1, CopiesType DEF TypeOK, Held
      <4> QED
        BY <4>1, <4>2, <4>3, <1>e DEF Places
    <3>6. PoolConserved'
      BY <1>19, <3>5, SameCounts DEF SendOutInline
    <3> QED
      BY <3>1, <3>6, <2>4 DEF IInv
  <2> QED
    BY <2>2, <2>5, <2>6
<1>20. CASE UNCHANGED vars
  <2>1. TypeOK' /\ HoldInv'
    BY <1>20, <1>a, <1>b DEF vars, TypeOK, HoldInv
  <2>2. PoolConserved'
    BY <1>20, NothingMoves DEF vars
  <2> QED
    BY <2>1, <2>2 DEF IInv
<1> QED
  BY <1>1, <1>2, <1>3, <1>4, <1>5, <1>6, <1>7, <1>8, <1>9, <1>10, <1>11, <1>12, <1>13, <1>14, <1>15, <1>16, <1>17, <1>18, <1>19, <1>20, Zenon
     DEF Next, Client, Httpd, Ltask, SendOutTask

(* memory_pool_init: a queue that holds every buffer once.                 *)
LEMMA InitInv == Init => IInv
<1> SUFFICES ASSUME Init PROVE IInv
  OBVIOUS
<1> DEFINE n == Cardinality(Buffer)
<1>1. n \in Nat /\ ExistsBijection(1..n, Buffer)
  BY WebApiAssumption, FS_CardinalityType
<1>2. PICK f : f \in Bijection(1..n, Buffer)
  BY <1>1 DEF ExistsBijection
<1>3. f \in [1..n -> Buffer] /\ \A i, j \in DOMAIN f : f[i] = f[j] => i = j
  BY <1>2 DEF Bijection, Injection, IsInjective
<1>4. pool \in [1..n -> Buffer] /\ \A i, j \in DOMAIN pool : pool[i] = pool[j] => i = j
  BY <1>3, ZenonT(40) DEF Init
<1>5. pool \in Injection(1..n, Buffer)
  BY <1>4 DEF Injection, IsInjective
<1>6. pool \in Seq(Buffer) /\ DOMAIN pool = 1..n
  BY <1>1, <1>4
<1>7. \A b \in Buffer : \E i \in 1..n : pool[i] = b
  <2>1. IsFiniteSet(1..n) /\ Cardinality(1..n) = n
    BY <1>1, FS_Interval
  <2>2. pool \in Surjection(1..n, Buffer)
    BY <1>5, <2>1, WebApiAssumption, FS_Injection
  <2> QED
    BY <2>2 DEF Surjection
<1>8. TypeOK
  <2>1. msg \in [Buffer -> Msg]
    BY FreshType DEF Init
  <2>2. /\ httpd \in [at : HttpdAt, buf : BufferOrNone, kind : {"ws", "post", "ssdp"}]
        /\ long \in [at : TaskAt, buf : BufferOrNone] /\ send \in [at : TaskAt, buf : BufferOrNone]
    BY DEF Init, HttpdAt, TaskAt, BufferOrNone, Idle
  <2>3. /\ longQ \in Seq(Buffer) /\ Len(longQ) <= LongRunMax
        /\ sendQ \in Seq(Buffer) /\ Len(sendQ) <= SendOutMax /\ work \in Seq(Buffer)
    BY WebApiAssumption DEF Init
  <2>4. requests \in Nat /\ ssdp \subseteq Buffer /\ crashed \in BOOLEAN /\ fault \in BOOLEAN
    BY DEF Init
  <2> QED
    BY <1>6, <2>1, <2>2, <2>3, <2>4 DEF TypeOK
<1>9. HoldInv
  BY DEF Init, HoldInv, Idle
<1>10. PoolConserved
  <2> SUFFICES ASSUME NEW b \in Buffer PROVE Places(b) = 1
    BY DEF PoolConserved, Init
  <2>1. Copies(pool, b) = 1
    <3>1. PICK i \in 1..n : pool[i] = b
      BY <1>7
    <3>2. {j \in DOMAIN pool : pool[j] = b} = {i}
      BY <1>4, <1>6, <3>1
    <3> QED
      BY <3>2, FS_Singleton DEF Copies
  <2>2. Copies(<<>>, b) = 0
    <3>1. {j \in DOMAIN <<>> : <<>>[j] = b} = {}
      OBVIOUS
    <3> QED
      BY <3>1, FS_EmptySet DEF Copies
  <2>3. Held(httpd, b) = 0 /\ Held(long, b) = 0 /\ Held(send, b) = 0
    BY WebApiAssumption DEF Held, Init, Idle
  <2> QED
    BY <2>1, <2>2, <2>3 DEF Places, Init
<1> QED
  BY <1>8, <1>9, <1>10 DEF IInv

(* The inductive invariant holds in every reachable state.                 *)
THEOREM Invariance == Spec => []IInv
BY InitInv, StepInv, PTL DEF Spec

(* The queues of the request runner are never overfilled, and every        *)
(* variable keeps its type.                                                *)
THEOREM TypeCorrect == Spec => []TypeOK
<1>1. IInv => TypeOK
  BY DEF IInv
<1> QED
  BY <1>1, Invariance, PTL

(* Whatever the interleaving of httpd, Ltask and the send-out task and     *)
(* whichever pushes fail, no path puts a buffer back twice or forgets it,  *)
(* except /SSDP.                                                           *)
THEOREM BuffersConserved == Spec => []PoolConserved
<1>1. IInv => PoolConserved
  BY DEF IInv
<1> QED
  BY <1>1, Invariance, PTL

(* memory_pool_put always finds room: only memory_pool_get can stop the    *)
(* firmware.                                                               *)
THEOREM PutNeverFails == Spec => PutHasRoom
<1> DEFINE A == crashed' # crashed => httpd.at = "get" /\ pool = <<>>
<1>1. IInv /\ [Next]_vars => [A]_vars
  <2> SUFFICES ASSUME IInv, Next PROVE A
    OBVIOUS
  <2>1. /\ httpd.at \in {"handle", "push"} => httpd.buf \in Buffer
        /\ long.at # "idle" => long.buf \in Buffer
        /\ send.at # "idle" => send.buf \in Buffer
        /\ work \in Seq(Buffer)
    BY DEF IInv, TypeOK, HoldInv, BufferOrNone
  <2>2. CASE ControlFrame \/ CloseConnection \/ ParseError \/ Synchronous \/ PushLongRunFails
    <3>1. httpd.buf \in Buffer /\ Put(httpd.buf)
      BY <2>1, <2>2 DEF ControlFrame, CloseConnection, ParseError, Synchronous, PushLongRunFails
    <3> QED
      BY <3>1, NotInPool, PutSucceeds
  <2>3. CASE RunWork
    <3>1. Head(work) \in Buffer /\ Tail(work) \in Seq(Buffer) /\ work # <<>>
      BY <2>1, <2>3 DEF RunWork
    <3>2. Copies(work, Head(work)) = Copies(Tail(work), Head(work)) + 1
      BY <2>1, <3>1, CopiesTail
    <3>3. Copies(Tail(work), Head(work)) \in Nat
      BY <3>1, CopiesType
    <3>4. Copies(work, Head(work)) >= 1
      BY <3>2, <3>3
    <3> QED
      BY <2>3, <3>1, <3>4, NotInPool, PutSucceeds DEF RunWork
  <2>4. CASE SendOut
    BY <2>1, <2>4, CallbackMoves DEF SendOut
  <2>5. CASE SendOutInline
    BY <2>1, <2>5, CallbackMoves DEF SendOutInline
  <2>6. CASE PoolEmpty
    BY <2>6 DEF PoolEmpty
  <2>7. CASE \/ Client \/ PoolGet \/ Ssdp \/ Asynchronous \/ PushLongRun \/ LongTake
             \/ LongRun \/ LongPush \/ LongPushFails \/ SendTake
    BY <2>7 DEF Client, Request, PoolGet, Ssdp, Asynchronous, PushLongRun, LongTake,
                LongRun, LongPush, LongPushFails, SendTake
  <2> QED
    BY <2>2, <2>3, <2>4, <2>5, <2>6, <2>7 DEF Next, Httpd, Ltask, SendOutTask
<1> QED
  BY <1>1, Invariance, PTL DEF Spec, PutHasRoom
=============================================================================
