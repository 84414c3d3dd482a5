-------------------------- MODULE UartBridgeProofs --------------------------
(***************************************************************************)
(* Proofs about UartBridge.  The one task of the bridge never waits in     *)
(* netconn_recv, because a connection never has more events in the queue   *)
(* than messages to read.  As long as no event is dropped and none of a    *)
(* deleted connection is handled, a connection is accepted or refused      *)
(* before its first data is looked at; so the bridge has one client at a   *)
(* time, and what that client sends reaches the UART in order.             *)
(***************************************************************************)
EXTENDS UartBridge, FiniteSetTheorems, TLAPS

Messages == Items \cup {Fin}
Sources == Conns \cup {Listen}

\* The types that sequence reasoning needs.
Typed ==
    /\ uart_server_events \in Seq(Sources)
    /\ inbox \in [Conns -> Seq(Messages)]

Positions(s, c) == {i \in DOMAIN s : s[i] = c}
Count(s, c) == Cardinality(Positions(s, c))

----------------------------------------------------------------------------
(* Occurrences in a sequence *)

\* They are finitely many.
LEMMA CountFinite ==
    ASSUME NEW S, NEW s \in Seq(S), NEW c
    PROVE  IsFiniteSet(Positions(s, c)) /\ Count(s, c) \in Nat
<1>1. IsFiniteSet(1..Len(s))
  BY FS_Interval, Len(s) \in Nat
<1>2. Positions(s, c) \in SUBSET (1..Len(s))
  BY DEF Positions
<1>3. IsFiniteSet(Positions(s, c))
  BY <1>1, <1>2, FS_Subset
<1> QED
  BY <1>3, FS_CardinalityType DEF Count

\* An element at the end adds itself.
LEMMA CountAppend ==
    ASSUME NEW S, NEW s \in Seq(S), NEW x \in S, NEW c
    PROVE  Count(Append(s, x), c) = Count(s, c) + IF x = c THEN 1 ELSE 0
<1> DEFINE n == Len(s) + 1
<1>1. IsFiniteSet(Positions(s, c)) /\ Count(s, c) \in Nat
  BY CountFinite
<1>2. n \notin Positions(s, c)
  BY DEF Positions
<1>3. CASE x = c
  <2>1. Positions(Append(s, x), c) = Positions(s, c) \cup {n}
    BY <1>3 DEF Positions
  <2> QED
    BY <1>1, <1>2, <1>3, <2>1, FS_AddElement DEF Count
<1>4. CASE x # c
  <2>1. Positions(Append(s, x), c) = Positions(s, c)
    BY <1>4 DEF Positions
  <2> QED
    BY <1>1, <1>4, <2>1 DEF Count
<1> QED
  BY <1>3, <1>4

\* The rest of a sequence is one shorter.
LEMMA LenTail ==
    ASSUME NEW S, NEW s \in Seq(S), s # <<>>
    PROVE  Tail(s) \in Seq(S) /\ Len(Tail(s)) = Len(s) - 1
OBVIOUS

\* Taking the first element away takes it alone.
LEMMA CountTail ==
    ASSUME NEW S, NEW s \in Seq(S), s # <<>>, NEW c
    PROVE  Count(Tail(s), c) = Count(s, c) - IF Head(s) = c THEN 1 ELSE 0
<1> DEFINE A == Positions(Tail(s), c)
           B == Positions(s, c) \ {1}
           f == [i \in A |-> i + 1]
<1>0. Tail(s) \in Seq(S) /\ Len(s) \in Nat /\ Len(s) > 0 /\ Len(Tail(s)) = Len(s) - 1
      /\ DOMAIN s = 1..Len(s) /\ DOMAIN Tail(s) = 1..(Len(s) - 1)
      /\ \A i \in 1..(Len(s) - 1) : Tail(s)[i] = s[i + 1]
  OBVIOUS
<1>1. IsFiniteSet(A) /\ Count(Tail(s), c) = Cardinality(A)
  BY <1>0, CountFinite DEF Count
<1>2. IsFiniteSet(Positions(s, c)) /\ Count(s, c) \in Nat
  BY CountFinite
<1>3. f \in Bijection(A, B)
  <2>1. \A i \in A : i \in Nat /\ i + 1 \in B
    BY <1>0 DEF Positions
  <2>2. f \in [A -> B]
    BY <2>1
  <2>3. \A i, j \in A : f[i] = f[j] => i = j
    BY <2>1
  <2>4. \A j \in B : \E i \in A : f[i] = j
    <3> SUFFICES ASSUME NEW j \in B PROVE \E i \in A : f[i] = j
      OBVIOUS
    <3>1. j \in 2..Len(s) /\ s[j] = c
      BY <1>0 DEF Positions
    <3>2. j - 1 \in 1..(Len(s) - 1) /\ Tail(s)[j - 1] = c /\ (j - 1) + 1 = j
      BY <1>0, <3>1
    <3>3. j - 1 \in A
      BY <1>0, <3>2 DEF Positions
    <3> QED
      BY <3>2, <3>3
  <2> HIDE DEF f, A, B
  <2>5. f \in Injection(A, B)
    BY <2>2, <2>3 DEF Injection, IsInjective
  <2>6. f \in Surjection(A, B)
    BY <2>2, <2>4 DEF Surjection
  <2> QED
    BY <2>5, <2>6 DEF Bijection
<1>4. Cardinality(B) = Cardinality(A)
  BY <1>1, <1>3, FS_Bijection DEF ExistsBijection
<1>5. 1 \in Positions(s, c) <=> Head(s) = c
  BY <1>0 DEF Positions
<1>6. Cardinality(B) = IF Head(s) = c THEN Count(s, c) - 1 ELSE Count(s, c)
  BY <1>2, <1>5, FS_RemoveElement DEF Count
<1> QED
  BY <1>1, <1>2, <1>4, <1>6

\* Lengths after Append and Tail.
LEMMA Lengths ==
    ASSUME NEW S, NEW s \in Seq(S), NEW x \in S
    PROVE  /\ Len(s) \in Nat
           /\ Append(s, x) \in Seq(S) /\ Len(Append(s, x)) = Len(s) + 1
           /\ s # <<>> => Tail(s) \in Seq(S) /\ Len(Tail(s)) = Len(s) - 1
  OBVIOUS

----------------------------------------------------------------------------
(* The inductive invariant *)

\* Events never outnumber messages, of deleted connections neither.
Bounded == \A c \in Conns : Count(uart_server_events, c) <= Len(inbox[c])

Inductive == Typed /\ Bounded

\* A step that changes the events and messages of at most one connection c
\* and leaves it with no more events than messages keeps the invariant.
LEMMA OneChanges ==
    ASSUME Inductive, Typed', NEW c,
           \A d \in Conns : d # c => /\ Count(uart_server_events', d) = Count(uart_server_events, d)
                                     /\ inbox'[d] = inbox[d],
           c \in Conns => Count(uart_server_events', c) <= Len(inbox'[c])
    PROVE  Inductive'
<1>1. \A d \in Conns : Count(uart_server_events', d) <= Len(inbox'[d])
  BY DEF Inductive, Bounded
<1> QED
  BY <1>1 DEF Inductive, Bounded, Count, Positions

\* Events and messages are counted by natural numbers.
LEMMA Counted ==
    ASSUME Inductive, NEW c \in Conns
    PROVE  /\ Count(uart_server_events, c) \in Nat /\ Len(inbox[c]) \in Nat
           /\ Count(uart_server_events, c) <= Len(inbox[c])
           /\ inbox[c] \in Seq(Messages)
<1>1. uart_server_events \in Seq(Sources) /\ inbox[c] \in Seq(Messages)
  BY DEF Inductive, Typed
<1> QED
  BY <1>1, CountFinite DEF Inductive, Bounded

\* The callback queues at most one event, of the connection it is called for.
LEMMA CallbackQueues ==
    ASSUME Inductive, NEW nc \in Sources, netCallback(nc)
    PROVE  /\ uart_server_events' \in Seq(Sources)
           /\ \A c \in Conns : c # nc => Count(uart_server_events', c) = Count(uart_server_events, c)
           /\ nc \in Conns => Count(uart_server_events', nc) <= Count(uart_server_events, nc) + 1
<1>0. uart_server_events \in Seq(Sources)
  BY DEF Inductive, Typed
<1>1. CASE uart_server_events' = uart_server_events
  BY <1>0, <1>1, Counted
<1>2. CASE uart_server_events' = Append(uart_server_events, nc)
  <2>1. uart_server_events' \in Seq(Sources)
    BY <1>0, <1>2
  <2>2. \A c : Count(uart_server_events', c)
                  = Count(uart_server_events, c) + IF nc = c THEN 1 ELSE 0
    BY <1>0, <1>2, CountAppend
  <2> QED
    BY <2>1, <2>2, Counted
<1> QED
  BY <1>1, <1>2 DEF netCallback

\* A message arrives with its event, or without.
LEMMA ArrivalKeeps ==
    ASSUME Inductive, NEW c \in Conns, NEW msg \in Messages,
           inbox' = [inbox EXCEPT ![c] = Append(@, msg)], netCallback(c)
    PROVE  Inductive'
<1>1. c \in Sources /\ inbox \in [Conns -> Seq(Messages)]
  BY DEF Sources, Inductive, Typed
<1>2. /\ uart_server_events' \in Seq(Sources)
      /\ \A d \in Conns : d # c => Count(uart_server_events', d) = Count(uart_server_events, d)
      /\ Count(uart_server_events', c) <= Count(uart_server_events, c) + 1
  BY <1>1, CallbackQueues
<1>3. Append(inbox[c], msg) \in Seq(Messages) /\ Len(Append(inbox[c], msg)) = Len(inbox[c]) + 1
  BY Counted, Lengths
<1>4. /\ inbox' \in [Conns -> Seq(Messages)] /\ inbox'[c] = Append(inbox[c], msg)
      /\ \A d \in Conns : d # c => inbox'[d] = inbox[d]
  BY <1>1, <1>3
<1>5. Count(uart_server_events', c) \in Nat
  BY <1>2, CountFinite
<1>6. Count(uart_server_events', c) <= Len(inbox'[c])
  BY <1>2, <1>3, <1>4, <1>5, Counted
<1> QED
  BY <1>2, <1>4, <1>6, OneChanges DEF Typed

\* The task takes an event of nc and reads at most one message of it.
LEMMA EventKeeps ==
    ASSUME Inductive, NEW nc \in Sources, Event(nc),
           \/ UNCHANGED inbox
           \/ nc \in Conns /\ inbox[nc] # <<>> /\ inbox' = [inbox EXCEPT ![nc] = Tail(@)]
    PROVE  Inductive'
<1>1. /\ uart_server_events \in Seq(Sources) /\ uart_server_events # <<>>
      /\ uart_server_events' = Tail(uart_server_events) /\ Head(uart_server_events) = nc
      /\ inbox \in [Conns -> Seq(Messages)]
  BY DEF Inductive, Typed, Event
<1>2. uart_server_events' \in Seq(Sources)
  BY <1>1
<1>3. \A d : Count(uart_server_events', d)
                = Count(uart_server_events, d) - IF nc = d THEN 1 ELSE 0
  BY <1>1, CountTail
<1>4. \A d \in Conns : d # nc => Count(uart_server_events', d) = Count(uart_server_events, d)
  BY <1>3, Counted
<1>5. CASE UNCHANGED inbox
  <2>1. nc \in Conns => Count(uart_server_events', nc) <= Len(inbox'[nc])
    BY <1>3, <1>5, Counted
  <2> QED
    BY <1>1, <1>2, <1>4, <1>5, <2>1, OneChanges DEF Typed
<1>6. CASE nc \in Conns /\ inbox[nc] # <<>> /\ inbox' = [inbox EXCEPT ![nc] = Tail(@)]
  <2>0. inbox[nc] \in Seq(Messages) /\ inbox[nc] # <<>>
    BY <1>1, <1>6
  <2>1. Tail(inbox[nc]) \in Seq(Messages) /\ Len(Tail(inbox[nc])) = Len(inbox[nc]) - 1
    BY <2>0, LenTail
  <2>2. /\ inbox' \in [Conns -> Seq(Messages)] /\ inbox'[nc] = Tail(inbox[nc])
        /\ \A d \in Conns : d # nc => inbox'[d] = inbox[d]
    BY <1>1, <1>6, <2>1
  <2>3. /\ Count(uart_server_events, nc) \in Nat /\ Len(inbox[nc]) \in Nat
        /\ Count(uart_server_events, nc) <= Len(inbox[nc])
    BY <1>6, Counted
  <2>4. Count(uart_server_events', nc) = Count(uart_server_events, nc) - 1
    BY <1>3
  <2>5. Len(inbox'[nc]) = Len(inbox[nc]) - 1
    BY <2>1, <2>2
  <2>6. Count(uart_server_events', nc) <= Len(inbox'[nc])
    BY <2>3, <2>4, <2>5
  <2> QED
    BY <1>2, <1>4, <2>2, <2>6, OneChanges DEF Typed
<1> QED
  BY <1>5, <1>6

\* Steps of the clients.
LEMMA ClientKeeps ==
    ASSUME Inductive, Client
    PROVE  Inductive'
<1>1. ASSUME NEW c \in Conns, NEW item \in Items, ClientSends(c, item) PROVE Inductive'
  BY <1>1, ArrivalKeeps DEF ClientSends, Messages
<1>2. ASSUME NEW c \in Conns, ClientCloses(c) PROVE Inductive'
  BY <1>2, ArrivalKeeps DEF ClientCloses, Messages
<1>3. ASSUME NEW c \in Conns, ClientConnects(c) PROVE Inductive'
  <2>1. netCallback(Listen) /\ Listen \in Sources /\ Listen \notin Conns /\ UNCHANGED inbox
    BY <1>3, UartBridgeAssumption DEF ClientConnects, Sources
  <2>2. /\ uart_server_events' \in Seq(Sources)
        /\ \A d \in Conns : d # Listen =>
              Count(uart_server_events', d) = Count(uart_server_events, d)
    BY <2>1, CallbackQueues
  <2> QED
    BY <2>1, <2>2, OneChanges DEF Typed, Inductive
<1>4. CASE UartReceives \/ \E c \in Conns : ClientResets(c)
  BY <1>4 DEF UartReceives, ClientResets, Inductive, Typed, Bounded, Count, Positions
<1> QED
  BY <1>1, <1>2, <1>3, <1>4 DEF Client

\* Steps of the task.
LEMMA TaskKeeps ==
    ASSUME Inductive, Task
    PROVE  Inductive'
<1>1. Listen \in Sources /\ Conns \subseteq Sources
  BY DEF Sources
<1>2. CASE Timeout
  BY <1>2 DEF Timeout, Inductive, Typed, Bounded, Count, Positions
<1>3. CASE Refuse \/ Accept
  <2>1. Event(Listen) /\ UNCHANGED inbox
    BY <1>3 DEF Refuse, Accept
  <2> QED
    BY <1>1, <2>1, EventKeeps
<1>4. ASSUME NEW c \in Conns, Data(c) PROVE Inductive'
  <2>1. Event(c) /\ inbox[c] # <<>> /\ inbox' = [inbox EXCEPT ![c] = Tail(@)]
    BY <1>4 DEF Data, Received
  <2> QED
    BY <1>1, <2>1, EventKeeps
<1>5. ASSUME NEW c \in Conns, CloseClient(c) \/ Freed(c) PROVE Inductive'
  <2>1. Event(c) /\ UNCHANGED inbox
    BY <1>5 DEF CloseClient, Freed
  <2> QED
    BY <1>1, <2>1, EventKeeps
<1>6. ASSUME NEW c \in Conns, Restart(c) PROVE Inductive'
  <2>1. uart_server_events' = <<>> /\ inbox' = None
    BY <1>6 DEF Restart
  <2>2. Typed'
    BY <2>1 DEF None, Typed
  <2>3. \A d \in Conns : Positions(uart_server_events', d) = {} /\ Len(inbox'[d]) = 0
    BY <2>1 DEF None, Positions
  <2>4. \A d \in Conns : Count(uart_server_events', d) <= Len(inbox'[d])
    BY <2>3, FS_EmptySet DEF Count
  <2> QED
    BY <2>2, <2>4 DEF Inductive, Bounded, Count, Positions
<1> QED
  BY <1>2, <1>3, <1>4, <1>5, <1>6 DEF Task

\* An event of a connection always finds a message to read, for any number of
\* clients, any length of the queue and events that are dropped: netconn_recv,
\* which has no timeout, never stops the bridge (uart_tcp_bridge.c:141-165, 293).
THEOREM BridgeNeverBlocks == Spec => []RecvNeverBlocks
<1>1. Init => Inductive
  <2> SUFFICES ASSUME Init PROVE Inductive
    OBVIOUS
  <2>1. Typed
    BY DEF Init, None, Typed
  <2>2. \A c \in Conns : Positions(uart_server_events, c) = {} /\ Len(inbox[c]) = 0
    BY DEF Init, None, Positions
  <2>3. \A c \in Conns : Count(uart_server_events, c) = 0
    BY <2>2, FS_EmptySet DEF Count
  <2> QED
    BY <2>1, <2>2, <2>3 DEF Inductive, Bounded
<1>2. Inductive /\ [Next]_vars => Inductive'
  <2>1. ASSUME Inductive, UNCHANGED vars PROVE Inductive'
    BY <2>1 DEF vars, Inductive, Typed, Bounded, Count, Positions
  <2> QED
    BY <2>1, ClientKeeps, TaskKeeps DEF Next
<1>3. Inductive => RecvNeverBlocks
  BY DEF Inductive, Bounded, RecvNeverBlocks, Queued, Count, Positions
<1> QED
  BY <1>1, <1>2, <1>3, PTL DEF Spec

----------------------------------------------------------------------------
(* The queue of events and the connections that wait to be accepted *)

\* Each connection of a, in turn, has a Listen event of its own in q, at
\* turn[i], ahead of all its other events.
Turns(q, a, turn) ==
    /\ \A i \in 1..Len(a) : q[turn[i]] = Listen
    /\ \A i, j \in 1..Len(a) : i < j => turn[i] < turn[j]
    /\ \A k \in 1..Len(q) : q[k] = Listen => \E i \in 1..Len(a) : turn[i] = k
    /\ \A k \in 1..Len(q), i \in 1..Len(a) : q[k] = a[i] => turn[i] < k

InTurn(q, a) == \E turn \in [1..Len(a) -> 1..Len(q)] : Turns(q, a, turn)

\* netCallback for the listening connection, with a new client in acceptmbox.
LEMMA TurnJoins ==
    ASSUME NEW q \in Seq(Sources), NEW a \in Seq(Conns), NEW c \in Conns,
           InTurn(q, a), \A k \in 1..Len(q) : q[k] # c
    PROVE  InTurn(Append(q, Listen), Append(a, c))
<1>0. Listen # c /\ Listen \in Sources
  BY UartBridgeAssumption DEF Sources
<1>1. PICK turn \in [1..Len(a) -> 1..Len(q)] : Turns(q, a, turn)
  BY DEF InTurn
<1> DEFINE q2 == Append(q, Listen)
           a2 == Append(a, c)
           t2 == [i \in 1..Len(a2) |-> IF i = Len(a2) THEN Len(q2) ELSE turn[i]]
<1>2. /\ Len(q) \in Nat /\ Len(a) \in Nat /\ Len(q2) = Len(q) + 1 /\ Len(a2) = Len(a) + 1
      /\ \A k \in 1..Len(q) : q2[k] = q[k]
      /\ \A i \in 1..Len(a) : a2[i] = a[i]
      /\ q2[Len(q) + 1] = Listen /\ a2[Len(a) + 1] = c
  BY <1>0
<1> HIDE DEF q2, a2
<1>3. t2 \in [1..Len(a2) -> 1..Len(q2)]
  BY <1>1, <1>2 DEF Turns
<1>4. /\ \A i \in 1..Len(a2) : q2[t2[i]] = Listen
      /\ \A i, j \in 1..Len(a2) : i < j => t2[i] < t2[j]
  <2>1. ASSUME NEW i \in 1..Len(a2)
        PROVE  \/ i = Len(a2) /\ t2[i] = Len(q2)
               \/ i \in 1..Len(a) /\ t2[i] = turn[i] /\ turn[i] \in 1..Len(q)
    <3>1. t2[i] = IF i = Len(a2) THEN Len(q2) ELSE turn[i]
      OBVIOUS
    <3>2. i # Len(a2) => i \in 1..Len(a)
      BY <1>2
    <3>3. i \in 1..Len(a) => turn[i] \in 1..Len(q)
      BY <1>1 DEF Turns
    <3> QED
      BY <3>1, <3>2, <3>3
  <2>2. ASSUME NEW i \in 1..Len(a2) PROVE q2[t2[i]] = Listen
    BY <1>1, <1>2, <2>1 DEF Turns
  <2>3. ASSUME NEW i \in 1..Len(a2), NEW j \in 1..Len(a2), i < j PROVE t2[i] < t2[j]
    <3>1. i \in 1..Len(a) /\ t2[i] = turn[i] /\ turn[i] \in 1..Len(q)
      BY <1>2, <2>1, <2>3, SMTT(30)
    <3>2. CASE j = Len(a2)
      BY <1>2, <3>1, <3>2
    <3>3. CASE j \in 1..Len(a) /\ t2[j] = turn[j]
      BY <1>1, <2>3, <3>1, <3>3 DEF Turns
    <3> QED
      BY <2>1, <3>2, <3>3
  <2> QED
    BY <2>2, <2>3
<1>5. ASSUME NEW k \in 1..Len(q2), q2[k] = Listen PROVE \E i \in 1..Len(a2) : t2[i] = k
  <2>1. CASE k = Len(q2)
    <3>1. Len(a2) \in 1..Len(a2) /\ t2[Len(a2)] = k
      BY <1>2, <2>1
    <3> QED
      BY <3>1
  <2>2. CASE k # Len(q2)
    <3>1. k \in 1..Len(q) /\ q[k] = Listen
      BY <1>2, <1>5, <2>2
    <3>2. PICK i \in 1..Len(a) : turn[i] = k
      BY <1>1, <3>1 DEF Turns
    <3>3. i \in 1..Len(a2) /\ t2[i] = k
      BY <1>2, <3>2
    <3> QED
      BY <3>3
  <2> QED
    BY <2>1, <2>2
<1>6. ASSUME NEW k \in 1..Len(q2), NEW i \in 1..Len(a2), q2[k] = a2[i] PROVE t2[i] < k
  <2>0. a2[i] \in Conns /\ Listen \notin Conns
    BY <1>2, UartBridgeAssumption
  <2>1. k \in 1..Len(q) /\ q[k] = a2[i]
    BY <1>2, <1>6, <2>0
  <2>2. i \in 1..Len(a) /\ q[k] = a[i]
    BY <1>2, <2>1
  <2> QED
    BY <1>1, <1>2, <2>1, <2>2 DEF Turns
<1> HIDE DEF t2
<1>7. Turns(q2, a2, t2)
  BY <1>4, <1>5, <1>6 DEF Turns
<1> QED
  BY <1>3, <1>7 DEF InTurn, q2, a2

\* netCallback for a client.
LEMMA TurnData ==
    ASSUME NEW q \in Seq(Sources), NEW a \in Seq(Conns), NEW c \in Conns, InTurn(q, a)
    PROVE  InTurn(Append(q, c), a)
<1>0. Listen # c /\ c \in Sources
  BY UartBridgeAssumption DEF Sources
<1>1. PICK turn \in [1..Len(a) -> 1..Len(q)] : Turns(q, a, turn)
  BY DEF InTurn
<1> DEFINE q2 == Append(q, c)
<1>2. /\ Len(q) \in Nat /\ Len(a) \in Nat /\ Len(q2) = Len(q) + 1
      /\ \A k \in 1..Len(q) : q2[k] = q[k]
      /\ q2[Len(q) + 1] = c
  BY <1>0
<1> HIDE DEF q2
<1>3. turn \in [1..Len(a) -> 1..Len(q2)] /\ \A i \in 1..Len(a) : turn[i] \in 1..Len(q)
  BY <1>1, <1>2, SMTT(30) DEF Turns
<1>4. /\ \A i \in 1..Len(a) : q2[turn[i]] = Listen
      /\ \A i, j \in 1..Len(a) : i < j => turn[i] < turn[j]
  BY <1>1, <1>2, <1>3 DEF Turns
<1>5. ASSUME NEW k \in 1..Len(q2), q2[k] = Listen PROVE \E i \in 1..Len(a) : turn[i] = k
  <2>1. k \in 1..Len(q) /\ q[k] = Listen
    BY <1>0, <1>2, <1>5
  <2> QED
    BY <1>1, <2>1 DEF Turns
<1>6. ASSUME NEW k \in 1..Len(q2), NEW i \in 1..Len(a), q2[k] = a[i] PROVE turn[i] < k
  <2>1. CASE k = Len(q2)
    BY <1>2, <1>3, <2>1
  <2>2. CASE k \in 1..Len(q)
    BY <1>1, <1>2, <1>6, <2>2 DEF Turns
  <2> QED
    BY <1>2, <2>1, <2>2
<1>7. Turns(q2, a, turn)
  BY <1>4, <1>5, <1>6 DEF Turns
<1> QED
  BY <1>3, <1>7 DEF InTurn, q2

\* The task handles an event of the listening connection: somebody waits.
LEMMA TurnListen ==
    ASSUME NEW q \in Seq(Sources), NEW a \in Seq(Conns), InTurn(q, a),
           q # <<>>, Head(q) = Listen
    PROVE  a # <<>> /\ InTurn(Tail(q), Tail(a))
<1>1. PICK turn \in [1..Len(a) -> 1..Len(q)] : Turns(q, a, turn)
  BY DEF InTurn
<1>2. /\ Len(q) \in Nat /\ Len(q) >= 1 /\ q[1] = Listen /\ Len(Tail(q)) = Len(q) - 1
      /\ \A k \in 1..(Len(q) - 1) : Tail(q)[k] = q[k + 1]
      /\ Len(a) \in Nat
  OBVIOUS
<1>3. PICK i \in 1..Len(a) : turn[i] = 1
  BY <1>1, <1>2 DEF Turns
<1>4. a # <<>> /\ Len(a) >= 1
  BY <1>2, <1>3
<1>5. turn \in [1..Len(a) -> 1..Len(q)] /\ turn[1] = 1
  BY <1>1, <1>2, <1>3, <1>4 DEF Turns
<1>6. /\ Len(Tail(a)) = Len(a) - 1
      /\ \A j \in 1..(Len(a) - 1) : Tail(a)[j] = a[j + 1]
  BY <1>4
<1> DEFINE q2 == Tail(q)
           a2 == Tail(a)
           t2 == [j \in 1..Len(a2) |-> turn[j + 1] - 1]
<1> HIDE DEF q2, a2
<1>7. /\ Len(q2) = Len(q) - 1 /\ Len(a2) = Len(a) - 1
      /\ \A k \in 1..(Len(q) - 1) : q2[k] = q[k + 1]
      /\ \A j \in 1..(Len(a) - 1) : a2[j] = a[j + 1]
  BY <1>2, <1>6 DEF q2, a2
<1>8. ASSUME NEW j \in 1..Len(a2)
      PROVE  j + 1 \in 1..Len(a) /\ turn[j + 1] \in 2..Len(q) /\ t2[j] \in 1..Len(q2)
  <2>1. j + 1 \in 1..Len(a) /\ 1 \in 1..Len(a) /\ 1 < j + 1
    BY <1>2, <1>4, <1>7
  <2>2. turn[1] < turn[j + 1] /\ turn[j + 1] \in 1..Len(q)
    BY <1>1, <1>5, <2>1 DEF Turns
  <2> QED
    BY <1>2, <1>5, <1>7, <2>1, <2>2
<1>9. t2 \in [1..Len(a2) -> 1..Len(q2)]
  BY <1>8
<1>10. ASSUME NEW j \in 1..Len(a2) PROVE q2[t2[j]] = Listen
  <2>1. q2[t2[j]] = q[turn[j + 1]]
    BY <1>2, <1>7, <1>8
  <2> QED
    BY <1>1, <1>8, <2>1 DEF Turns
<1>11. ASSUME NEW j \in 1..Len(a2), NEW k \in 1..Len(a2), j < k PROVE t2[j] < t2[k]
  <2>1. turn[j + 1] < turn[k + 1]
    BY <1>1, <1>2, <1>7, <1>8, <1>11 DEF Turns
  <2> QED
    BY <1>2, <1>8, <2>1, SMTT(30)
<1>12. ASSUME NEW k \in 1..Len(q2), q2[k] = Listen PROVE \E j \in 1..Len(a2) : t2[j] = k
  <2>1. k + 1 \in 1..Len(q) /\ q[k + 1] = Listen
    BY <1>2, <1>7, <1>12
  <2>2. PICK j \in 1..Len(a) : turn[j] = k + 1
    BY <1>1, <2>1 DEF Turns
  <2>3. j # 1 /\ j - 1 \in 1..Len(a2) /\ (j - 1) + 1 = j
    BY <1>2, <1>5, <1>7, <2>2
  <2>4. t2[j - 1] = k
    BY <1>2, <1>7, <2>2, <2>3
  <2> QED
    BY <2>3, <2>4
<1>13. ASSUME NEW k \in 1..Len(q2), NEW j \in 1..Len(a2), q2[k] = a2[j] PROVE t2[j] < k
  <2>1. k + 1 \in 1..Len(q) /\ q[k + 1] = a[j + 1]
    BY <1>2, <1>7, <1>8, <1>13
  <2>2. turn[j + 1] < k + 1
    BY <1>1, <1>8, <2>1 DEF Turns
  <2> QED
    BY <1>2, <1>7, <1>8, <2>2
<1> HIDE DEF t2
<1>14. Turns(q2, a2, t2)
  BY <1>10, <1>11, <1>12, <1>13 DEF Turns
<1> QED
  BY <1>4, <1>9, <1>14 DEF InTurn, q2, a2

\* The task handles an event of a client: it does not wait to be accepted.
LEMMA TurnEvent ==
    ASSUME NEW q \in Seq(Sources), NEW a \in Seq(Conns), InTurn(q, a),
           q # <<>>, Head(q) # Listen
    PROVE  InTurn(Tail(q), a) /\ \A i \in 1..Len(a) : a[i] # Head(q)
<1>1. PICK turn \in [1..Len(a) -> 1..Len(q)] : Turns(q, a, turn)
  BY DEF InTurn
<1>2. /\ Len(q) \in Nat /\ Len(q) >= 1 /\ q[1] = Head(q) /\ Len(Tail(q)) = Len(q) - 1
      /\ \A k \in 1..(Len(q) - 1) : Tail(q)[k] = q[k + 1]
      /\ Len(a) \in Nat
  OBVIOUS
<1>3. ASSUME NEW i \in 1..Len(a) PROVE a[i] # Head(q) /\ turn[i] \in 2..Len(q)
  <2>1. turn[i] \in 1..Len(q) /\ turn[i] # 1
    BY <1>1, <1>2 DEF Turns
  <2>2. q[1] = a[i] => turn[i] < 1
    BY <1>1, <1>2 DEF Turns
  <2> QED
    BY <1>2, <2>1, <2>2
<1> DEFINE q2 == Tail(q)
           t2 == [i \in 1..Len(a) |-> turn[i] - 1]
<1> HIDE DEF q2
<1>4. Len(q2) = Len(q) - 1 /\ \A k \in 1..(Len(q) - 1) : q2[k] = q[k + 1]
  BY <1>2 DEF q2
<1>5. t2 \in [1..Len(a) -> 1..Len(q2)]
  BY <1>2, <1>3, <1>4
<1>6. ASSUME NEW i \in 1..Len(a) PROVE q2[t2[i]] = Listen
  <2>1. q2[t2[i]] = q[turn[i]]
    BY <1>2, <1>3, <1>4
  <2> QED
    BY <1>1, <2>1 DEF Turns
<1>7. ASSUME NEW i \in 1..Len(a), NEW j \in 1..Len(a), i < j PROVE t2[i] < t2[j]
  <2>1. turn[i] < turn[j]
    BY <1>1, <1>7 DEF Turns
  <2> QED
    BY <1>2, <1>3, <2>1
<1>8. ASSUME NEW k \in 1..Len(q2), q2[k] = Listen PROVE \E i \in 1..Len(a) : t2[i] = k
  <2>1. k + 1 \in 1..Len(q) /\ q[k + 1] = Listen
    BY <1>2, <1>4, <1>8
  <2>2. PICK i \in 1..Len(a) : turn[i] = k + 1
    BY <1>1, <2>1 DEF Turns
  <2>3. t2[i] = k
    BY <1>2, <1>4, <2>2
  <2> QED
    BY <2>3
<1>9. ASSUME NEW k \in 1..Len(q2), NEW i \in 1..Len(a), q2[k] = a[i] PROVE t2[i] < k
  <2>1. k + 1 \in 1..Len(q) /\ q[k + 1] = a[i]
    BY <1>2, <1>4, <1>9
  <2>2. turn[i] < k + 1
    BY <1>1, <2>1 DEF Turns
  <2> QED
    BY <1>2, <1>3, <1>4, <2>2
<1> HIDE DEF t2
<1>10. Turns(q2, a, t2)
  BY <1>6, <1>7, <1>8, <1>9 DEF Turns
<1> QED
  BY <1>3, <1>5, <1>10 DEF InTurn, q2

----------------------------------------------------------------------------
(* What is left to read, and what was read *)

\* What netconn_recv may return, and what of it is written.
Texts == Items \cup {Tail(item) : item \in Items}

\* Nothing follows the end of a connection.
FinLast(s) == \A i \in 1..Len(s) : s[i] = Fin => i = Len(s)
Rest(s) == IF Fin \in ToSet(s) THEN Front(s) ELSE s

\* The elements of a sequence may be of a larger set.
LEMMA Wider ==
    ASSUME NEW S, NEW T, S \subseteq T, NEW s \in Seq(S)
    PROVE  s \in Seq(T)
  OBVIOUS

\* Sequences of the same length with the same elements are the same.
LEMMA SameSeq ==
    ASSUME NEW S, NEW s \in Seq(S), NEW t \in Seq(S), Len(s) = Len(t),
           \A i \in 1..Len(s) : s[i] = t[i]
    PROVE  s = t
  OBVIOUS

\* The end, where there is one, is the last message.
LEMMA Shape ==
    ASSUME NEW s \in Seq(Messages), FinLast(s)
    PROVE  /\ Rest(s) \in Seq(Items)
           /\ \/ /\ \A i \in 1..Len(s) : s[i] # Fin
                 /\ Rest(s) = s
              \/ /\ Len(s) >= 1 /\ s[Len(s)] = Fin /\ Len(Rest(s)) = Len(s) - 1
                 /\ \A i \in 1..(Len(s) - 1) : Rest(s)[i] = s[i] /\ s[i] # Fin
<1>1. Len(s) \in Nat /\ DOMAIN s = 1..Len(s) /\ \A i \in 1..Len(s) : s[i] \in Messages
  OBVIOUS
<1>2. ToSet(s) = {s[i] : i \in 1..Len(s)}
  BY <1>1 DEF ToSet
<1>3. CASE Fin \notin ToSet(s)
  <2>1. Rest(s) = s /\ \A i \in 1..Len(s) : s[i] # Fin
    BY <1>2, <1>3 DEF Rest
  <2>2. s \in Seq(Items)
    BY <1>1, <2>1 DEF Messages
  <2> QED
    BY <2>1, <2>2
<1>4. CASE Fin \in ToSet(s)
  <2>1. PICK i \in 1..Len(s) : s[i] = Fin
    BY <1>2, <1>4
  <2>2. Len(s) >= 1 /\ s[Len(s)] = Fin /\ \A j \in 1..(Len(s) - 1) : s[j] # Fin
    <3> DEFINE n == Len(s)
    <3>0. n \in Nat /\ i \in 1..n /\ (\A j \in 1..n : s[j] = Fin => j = n)
      BY <1>1 DEF FinLast
    <3> HIDE DEF n
    <3>1. i = n /\ n >= 1
      BY <2>1, <3>0
    <3>2. \A j \in 1..(n - 1) : j \in 1..n /\ j # n
      BY <3>0
    <3>3. n >= 1 /\ s[n] = Fin /\ \A j \in 1..(n - 1) : s[j] # Fin
      BY <2>1, <3>0, <3>1, <3>2
    <3> QED
      BY <3>3 DEF n
  <2>3. Rest(s) = SubSeq(s, 1, Len(s) - 1)
    BY <1>4 DEF Rest, Front
  <2>4. Len(Rest(s)) = Len(s) - 1 /\ \A j \in 1..(Len(s) - 1) : Rest(s)[j] = s[j]
    BY <1>1, <2>2, <2>3
  <2>5. Rest(s) \in Seq(Messages)
    BY <1>1, <2>2, <2>3
  <2>6. \A j \in 1..Len(Rest(s)) : Rest(s)[j] \in Items
    BY <1>1, <2>2, <2>4 DEF Messages
  <2>7. Rest(s) \in Seq(Items)
    BY <2>5, <2>6
  <2> QED
    BY <2>2, <2>4, <2>7
<1> QED
  BY <1>3, <1>4

\* Whether the end has come.
LEMMA Ended ==
    ASSUME NEW s \in Seq(Messages)
    PROVE  Fin \in ToSet(s) <=> \E i \in 1..Len(s) : s[i] = Fin
  BY DOMAIN s = 1..Len(s) DEF ToSet

\* Data, or the end, arrives before the end has.
LEMMA RestArrives ==
    ASSUME NEW s \in Seq(Messages), Fin \notin ToSet(s), NEW msg \in Messages
    PROVE  /\ FinLast(Append(s, msg)) /\ Rest(s) = s
           /\ Rest(Append(s, msg)) = IF msg = Fin THEN s ELSE Append(s, msg)
<1> DEFINE s2 == Append(s, msg)
<1>1. /\ s2 \in Seq(Messages) /\ Len(s) \in Nat /\ Len(s2) = Len(s) + 1
      /\ \A i \in 1..Len(s) : s2[i] = s[i]
      /\ s2[Len(s) + 1] = msg
  OBVIOUS
<1>2. \A i \in 1..Len(s) : s[i] # Fin
  BY Ended
<1> HIDE DEF s2
<1>3. FinLast(s2)
  BY <1>1, <1>2 DEF FinLast
<1>4. CASE msg = Fin
  <2>1. Fin \in ToSet(s2)
    BY <1>1, <1>4, Ended
  <2>2. Rest(s2) = SubSeq(s2, 1, Len(s2) - 1)
    BY <2>1 DEF Rest, Front
  <2>3. SubSeq(s2, 1, Len(s2) - 1) = s
    BY <1>1
  <2> QED
    BY <1>3, <1>4, <2>2, <2>3 DEF s2, Rest
<1>5. CASE msg # Fin
  <2>1. Fin \notin ToSet(s2)
    BY <1>1, <1>2, <1>5, Ended
  <2> QED
    BY <1>3, <1>5, <2>1 DEF s2, Rest
<1> QED
  BY <1>4, <1>5

\* The first message is read.
LEMMA RestRead ==
    ASSUME NEW s \in Seq(Messages), FinLast(s), s # <<>>, Head(s) # Fin
    PROVE  /\ FinLast(Tail(s)) /\ Rest(Tail(s)) = Tail(Rest(s))
           /\ Rest(s) # <<>> /\ Head(Rest(s)) = Head(s) /\ Head(s) \in Items
<1> DEFINE s2 == Tail(s)
<1>1. /\ s2 \in Seq(Messages) /\ Len(s) \in Nat /\ Len(s) >= 1 /\ Len(s2) = Len(s) - 1
      /\ \A i \in 1..(Len(s) - 1) : s2[i] = s[i + 1]
      /\ Head(s) = s[1] /\ s[1] \in Messages
  OBVIOUS
<1> HIDE DEF s2
<1>2. FinLast(s2)
  BY <1>1 DEF FinLast
<1>3. Head(s) \in Items
  BY <1>1 DEF Messages
<1>4. CASE Fin \notin ToSet(s)
  <2>1. \A i \in 1..Len(s) : s[i] # Fin
    BY <1>4, Ended
  <2>2. Fin \notin ToSet(s2)
    BY <1>1, <2>1, Ended
  <2> QED
    BY <1>2, <1>3, <1>4, <2>2 DEF Rest, s2
<1>5. CASE Fin \in ToSet(s)
  <2>1. Len(s) >= 2 /\ s[Len(s)] = Fin
    BY <1>1, <1>5, Ended DEF FinLast
  <2>2. Fin \in ToSet(s2)
    <3>1. Len(s) - 1 \in 1..Len(s2) /\ s2[Len(s) - 1] = Fin
      BY <1>1, <2>1
    <3> QED
      BY <1>1, <3>1, Ended
  <2>3. Rest(s) = SubSeq(s, 1, Len(s) - 1) /\ Rest(s2) = SubSeq(s2, 1, Len(s2) - 1)
    BY <1>5, <2>2 DEF Rest, Front
  <2>4. /\ Rest(s) \in Seq(Messages) /\ Len(Rest(s)) = Len(s) - 1
        /\ \A i \in 1..(Len(s) - 1) : Rest(s)[i] = s[i]
    BY <1>1, <2>1, <2>3
  <2>5. /\ Rest(s2) \in Seq(Messages) /\ Len(Rest(s2)) = Len(s) - 2
        /\ \A i \in 1..(Len(s) - 2) : Rest(s2)[i] = s[i + 1]
    BY <1>1, <2>1, <2>3
  <2>6. Rest(s) # <<>> /\ Head(Rest(s)) = Head(s)
    BY <1>1, <2>1, <2>4
  <2>7. /\ Tail(Rest(s)) \in Seq(Messages) /\ Len(Tail(Rest(s))) = Len(s) - 2
        /\ \A i \in 1..(Len(s) - 2) : Tail(Rest(s))[i] = s[i + 1]
    BY <1>1, <2>1, <2>4, <2>6
  <2>8. Rest(s2) = Tail(Rest(s))
    <3> DEFINE l == Rest(s2)
               r == Tail(Rest(s))
    <3>1. l \in Seq(Messages) /\ r \in Seq(Messages) /\ Len(l) = Len(r)
          /\ \A i \in 1..Len(l) : l[i] = r[i]
      BY <2>5, <2>7
    <3> HIDE DEF l, r
    <3>2. l = r
      BY <3>1, SameSeq
    <3> QED
      BY <3>2 DEF l, r
  <2> QED
    BY <1>2, <1>3, <2>6, <2>8 DEF s2
<1> QED
  BY <1>4, <1>5

\* The order of what was written and what is left to read.
LEMMA Joined ==
    ASSUME NEW S, NEW t \in Seq(S), NEW u \in Seq(S), NEW x \in S
    PROVE  /\ t \o Append(u, x) = Append(t \o u, x)
           /\ u # <<>> => Append(t, Head(u)) \o Tail(u) = t \o u
<1>1. t \o Append(u, x) = Append(t \o u, x)
  OBVIOUS
<1>2. ASSUME u # <<>> PROVE Append(t, Head(u)) \o Tail(u) = t \o u
  <2>1. Head(u) \in S /\ Tail(u) \in Seq(S) /\ Len(Tail(u)) = Len(u) - 1 /\ Len(u) \in Nat
        /\ Len(u) >= 1 /\ Len(t) \in Nat /\ Head(u) = u[1]
        /\ \A i \in 1..(Len(u) - 1) : Tail(u)[i] = u[i + 1]
    BY <1>2
  <2> DEFINE h == Append(t, Head(u))
             l == h \o Tail(u)
             r == t \o u
  <2>2. h \in Seq(S) /\ Len(h) = Len(t) + 1 /\ h[Len(t) + 1] = u[1]
        /\ \A i \in 1..Len(t) : h[i] = t[i]
    BY <2>1
  <2> HIDE DEF h
  <2>3. l \in Seq(S) /\ Len(l) = Len(t) + Len(u)
        /\ \A i \in 1..Len(l) : l[i] = IF i <= Len(t) + 1 THEN h[i] ELSE Tail(u)[i - (Len(t) + 1)]
    BY <2>1, <2>2
  <2>4. r \in Seq(S) /\ Len(r) = Len(t) + Len(u)
        /\ \A i \in 1..Len(r) : r[i] = IF i <= Len(t) THEN t[i] ELSE u[i - Len(t)]
    BY <2>1
  <2> HIDE DEF l, r
  <2>5. ASSUME NEW i \in 1..Len(l) PROVE l[i] = r[i]
    <3>1. CASE i <= Len(t)
      BY <2>1, <2>2, <2>3, <2>4, <3>1
    <3>2. CASE i = Len(t) + 1
      <4>1. l[i] = u[1]
        BY <2>1, <2>2, <2>3, <3>2, SMTT(30)
      <4>2. r[i] = u[i - Len(t)] /\ i - Len(t) = 1
        BY <2>1, <2>3, <2>4, <3>2
      <4> QED
        BY <4>1, <4>2
    <3>3. CASE i > Len(t) + 1
      <4>1. i - (Len(t) + 1) \in 1..(Len(u) - 1) /\ (i - (Len(t) + 1)) + 1 = i - Len(t)
        BY <2>1, <2>3, <3>3
      <4>2. l[i] = u[i - Len(t)]
        BY <2>1, <2>3, <3>3, <4>1
      <4>3. r[i] = u[i - Len(t)]
        BY <2>1, <2>3, <2>4, <3>3
      <4> QED
        BY <4>2, <4>3
    <3> QED
      BY <2>1, <2>3, <3>1, <3>2, <3>3
  <2>6. l = r
    BY <2>3, <2>4, <2>5
  <2> QED
    BY <2>6 DEF l, r, h
<1> QED
  BY <1>1, <1>2

\* The first one written is the first one sent, but for the number it may be.
LEMMA First ==
    ASSUME NEW S, NEW u \in Seq(S), u # <<>>, NEW y \in S
    PROVE  <<y>> \o Tail(u) = [u EXCEPT ![1] = y]
<1> DEFINE l == <<y>> \o Tail(u)
           r == [u EXCEPT ![1] = y]
<1>1. Tail(u) \in Seq(S) /\ Len(Tail(u)) = Len(u) - 1 /\ Len(u) \in Nat /\ Len(u) >= 1
      /\ \A i \in 1..(Len(u) - 1) : Tail(u)[i] = u[i + 1]
  OBVIOUS
<1>2. l \in Seq(S) /\ Len(l) = Len(u) /\ l[1] = y
      /\ \A i \in 2..Len(u) : l[i] = Tail(u)[i - 1]
  BY <1>1
<1>3. r \in Seq(S) /\ Len(r) = Len(u) /\ r[1] = y /\ \A i \in 2..Len(u) : r[i] = u[i]
  BY <1>1
<1> HIDE DEF l, r
<1>4. ASSUME NEW i \in 1..Len(u) PROVE l[i] = r[i]
  <2>1. i = 1 \/ (i \in 2..Len(u) /\ i - 1 \in 1..(Len(u) - 1) /\ (i - 1) + 1 = i)
    BY <1>1
  <2> QED
    BY <1>1, <1>2, <1>3, <2>1
<1>5. l = r
  BY <1>2, <1>3, <1>4
<1> QED
  BY <1>5 DEF l, r

\* More is sent after the first one.
LEMMA FirstStays ==
    ASSUME NEW S, NEW s \in Seq(S), s # <<>>, NEW x \in S, NEW y \in S
    PROVE  [Append(s, x) EXCEPT ![1] = y] = Append([s EXCEPT ![1] = y], x)
<1> DEFINE l == [Append(s, x) EXCEPT ![1] = y]
           m == [s EXCEPT ![1] = y]
           r == Append(m, x)
<1>1. Len(s) \in Nat /\ Len(s) >= 1 /\ Append(s, x) \in Seq(S)
  OBVIOUS
<1>2. l \in Seq(S) /\ Len(l) = Len(s) + 1 /\ l[1] = y /\ l[Len(s) + 1] = x
      /\ \A i \in 2..Len(s) : l[i] = s[i]
  <2> DEFINE s2 == Append(s, x)
  <2>1. s2 \in Seq(S) /\ Len(s2) = Len(s) + 1 /\ s2[Len(s) + 1] = x
        /\ \A i \in 1..Len(s) : s2[i] = s[i]
    BY <1>1
  <2> HIDE DEF s2
  <2>2. LET e == [s2 EXCEPT ![1] = y]
        IN  e \in Seq(S) /\ Len(e) = Len(s2) /\ e[1] = y /\ \A i \in 2..Len(s2) : e[i] = s2[i]
    BY <1>1, <2>1
  <2> QED
    BY <1>1, <2>1, <2>2 DEF s2
<1>3. m \in Seq(S) /\ Len(m) = Len(s) /\ m[1] = y /\ \A i \in 2..Len(s) : m[i] = s[i]
  BY <1>1
<1> HIDE DEF m
<1>4. r \in Seq(S) /\ Len(r) = Len(s) + 1 /\ r[Len(s) + 1] = x /\ \A i \in 1..Len(s) : r[i] = m[i]
  BY <1>1, <1>3
<1> HIDE DEF l, r
<1>5. ASSUME NEW i \in 1..(Len(s) + 1) PROVE l[i] = r[i]
  <2>1. i = 1 \/ i = Len(s) + 1 \/ i \in 2..Len(s)
    BY <1>1
  <2> QED
    BY <1>1, <1>2, <1>3, <1>4, <2>1
<1>6. l = r
  BY <1>2, <1>4, <1>5
<1> QED
  BY <1>6 DEF l, r, m

----------------------------------------------------------------------------
(* The inductive invariant *)

Types ==
    /\ Typed
    /\ state \in [Conns -> {"new", "backlog", "open", "deleted"}]
    /\ acceptmbox \in Seq(Conns)
    /\ sent \in [Conns -> Seq(Items)] /\ uart_tx \in [Conns -> Seq(Texts)]
    /\ is_conn_valid \in BOOLEAN /\ is_first_time_recv \in BOOLEAN /\ disturbed \in BOOLEAN

\* Who waits, who is served, and whose events are queued.
Orderly ==
    /\ InTurn(uart_server_events, acceptmbox)
    /\ \A i, j \in 1..Len(acceptmbox) : acceptmbox[i] = acceptmbox[j] => i = j
    /\ \A c \in Conns : state[c] = "backlog" <=> \E i \in 1..Len(acceptmbox) : acceptmbox[i] = c
    /\ \A k \in 1..Len(uart_server_events), c \in Conns :
          uart_server_events[k] = c => state[c] # "new"
    /\ \A c \in Conns : state[c] = "open" <=> is_conn_valid /\ uart_netconn = c
    /\ is_conn_valid => uart_netconn \in Conns

\* What has become of the data of one client.
Copied(c) ==
    /\ FinLast(inbox[c])
    /\ state[c] \in {"new", "backlog"} => uart_tx[c] = <<>>
    /\ state[c] = "open" => (is_first_time_recv <=> uart_tx[c] = <<>>)
    /\ IF uart_tx[c] = <<>>
       THEN Unread(c) = sent[c]
       ELSE uart_tx[c] \o Unread(c) = [sent[c] EXCEPT ![1] = NotBaud(@)]

OrderInv == Types /\ (~disturbed => Orderly /\ \A c \in Conns : Copied(c))

----------------------------------------------------------------------------
(* Types, and the history of what disturbs the bridge *)

\* Something of a text is a text.
LEMMA WrittenText ==
    ASSUME NEW item \in Items, NEW first \in BOOLEAN
    PROVE  Written(item, first) \in Texts /\ NotBaud(item) \in Texts /\ item \in Texts
  BY DEF Written, NotBaud, Texts

\* What was disturbed stays so.
LEMMA DisturbedStays ==
    ASSUME Types, [Next]_vars, disturbed
    PROVE  disturbed'
<1>1. CASE UNCHANGED vars
  BY <1>1 DEF vars
<1>2. CASE Client
  BY <1>2 DEF Client, ClientConnects, ClientCloses, ClientResets, ClientSends, UartReceives,
              netCallback
<1>3. CASE Task
  BY <1>3 DEF Task, Timeout, Refuse, Accept, Data, CloseClient, Freed, Restart
<1> QED
  BY <1>1, <1>2, <1>3 DEF Next

\* Every step keeps the types.
LEMMA TypesStep ==
    ASSUME Types, Typed', [Next]_vars
    PROVE  Types'
<1> USE DEF Types
<1>1. CASE UNCHANGED vars
  BY <1>1 DEF vars, bridge
<1>2. ASSUME NEW c \in Conns, ClientConnects(c) PROVE Types'
  <2>1. acceptmbox' \in Seq(Conns)
    BY <1>2 DEF ClientConnects
  <2>2. state' \in [Conns -> {"new", "backlog", "open", "deleted"}]
    BY <1>2 DEF ClientConnects
  <2>3. disturbed' \in BOOLEAN
    BY <1>2 DEF ClientConnects, netCallback
  <2>4. UNCHANGED <<sent, uart_tx, is_conn_valid, is_first_time_recv>>
    BY <1>2 DEF ClientConnects, bridge
  <2> QED
    BY <2>1, <2>2, <2>3, <2>4
<1>3. ASSUME NEW c \in Conns, NEW item \in Items, ClientSends(c, item) PROVE Types'
  <2>1. sent' \in [Conns -> Seq(Items)]
    <3>1. Append(sent[c], item) \in Seq(Items)
      OBVIOUS
    <3> QED
      BY <1>3, <3>1 DEF ClientSends
  <2> QED
    BY <1>3, <2>1 DEF ClientSends, netCallback, bridge
<1>4. ASSUME NEW c \in Conns, ClientCloses(c) \/ ClientResets(c) PROVE Types'
  BY <1>4 DEF ClientCloses, ClientResets, netCallback, bridge
<1>5. CASE UartReceives \/ Timeout
  BY <1>5 DEF UartReceives, Timeout, bridge
<1>6. CASE Refuse \/ Accept
  <2>1. acceptmbox' \in Seq(Conns)
    <3>1. acceptmbox # <<>> => Tail(acceptmbox) \in Seq(Conns)
      OBVIOUS
    <3> QED
      BY <1>6, <3>1 DEF Refuse, Accept
  <2>2. acceptmbox # <<>> => Head(acceptmbox) \in Conns
    OBVIOUS
  <2>3. state' \in [Conns -> {"new", "backlog", "open", "deleted"}]
    BY <1>6, <2>2 DEF Refuse, Accept, close_tcp_netconn
  <2> QED
    BY <1>6, <2>1, <2>3 DEF Refuse, Accept, bridge
<1>7. ASSUME NEW c \in Conns, Data(c) PROVE Types'
  <2>1. Head(inbox[c]) \in Items
    BY <1>7 DEF Data, Typed, Messages
  <2>2. Written(Head(inbox[c]), is_first_time_recv) \in Texts
    BY <2>1, WrittenText
  <2>3. uart_tx' \in [Conns -> Seq(Texts)]
    <3>1. Append(uart_tx[c], Written(Head(inbox[c]), is_first_time_recv)) \in Seq(Texts)
      BY <2>2
    <3> QED
      BY <1>7, <3>1 DEF Data
  <2> QED
    BY <1>7, <2>3 DEF Data
<1>8. ASSUME NEW c \in Conns, CloseClient(c) \/ Freed(c) PROVE Types'
  BY <1>8 DEF CloseClient, Freed, close_tcp_netconn
<1>9. ASSUME NEW c \in Conns, Restart(c) PROVE Types'
  <2>1. state' \in [Conns -> {"new", "backlog", "open", "deleted"}] /\ acceptmbox' \in Seq(Conns)
    BY <1>9 DEF Restart
  <2>2. /\ UNCHANGED <<sent, uart_tx>>
        /\ is_conn_valid' \in BOOLEAN /\ is_first_time_recv' \in BOOLEAN /\ disturbed' \in BOOLEAN
    BY <1>9 DEF Restart
  <2> QED
    BY <2>1, <2>2
<1> QED
  BY <1>1, <1>2, <1>3, <1>4, <1>5, <1>6, <1>7, <1>8, <1>9 DEF Next, Client, Task

----------------------------------------------------------------------------
(* The order of accepting and receiving *)

\* The rest of those who wait: all but the first.
LEMMA OthersWait ==
    ASSUME NEW a \in Seq(Conns), a # <<>>,
           \A i, j \in 1..Len(a) : a[i] = a[j] => i = j
    PROVE  /\ \A i, j \in 1..Len(Tail(a)) : Tail(a)[i] = Tail(a)[j] => i = j
           /\ \A c : (\E i \in 1..Len(Tail(a)) : Tail(a)[i] = c)
                        <=> c # Head(a) /\ \E i \in 1..Len(a) : a[i] = c
           /\ Head(a) \in Conns /\ \E i \in 1..Len(a) : a[i] = Head(a)
<1>1. /\ Len(a) \in Nat /\ Len(a) >= 1 /\ Len(Tail(a)) = Len(a) - 1 /\ Head(a) = a[1]
      /\ \A i \in 1..(Len(a) - 1) : Tail(a)[i] = a[i + 1]
      /\ Head(a) \in Conns
  OBVIOUS
<1> DEFINE b == Tail(a)
           n == Len(a)
<1>2. /\ n \in Nat /\ n >= 1 /\ Len(b) = n - 1 /\ Head(a) = a[1] /\ Head(a) \in Conns
      /\ \A i \in 1..(n - 1) : b[i] = a[i + 1]
      /\ \A i, j \in 1..n : a[i] = a[j] => i = j
  BY <1>1
<1> HIDE DEF b, n
<1>3. \A i \in 1..(n - 1) : i + 1 \in 1..n /\ i + 1 # 1
  BY <1>2
<1>4. ASSUME NEW i \in 1..Len(b), NEW j \in 1..Len(b), b[i] = b[j] PROVE i = j
  <2>1. i + 1 = j + 1
    BY <1>2, <1>3, <1>4
  <2> QED
    BY <1>2, <2>1
<1>5. ASSUME NEW c, NEW i \in 1..Len(b), b[i] = c PROVE c # a[1] /\ \E j \in 1..n : a[j] = c
  <2>1. i + 1 \in 1..n /\ 1 \in 1..n /\ i + 1 # 1 /\ a[i + 1] = c
    BY <1>2, <1>3, <1>5
  <2> QED
    BY <1>2, <2>1
<1>6. ASSUME NEW c, c # a[1], NEW j \in 1..n, a[j] = c PROVE \E i \in 1..Len(b) : b[i] = c
  <2>1. j # 1 /\ j - 1 \in 1..(n - 1) /\ (j - 1) + 1 = j
    BY <1>2, <1>6
  <2>2. b[j - 1] = c
    BY <1>2, <1>6, <2>1
  <2> QED
    BY <1>2, <2>1, <2>2
<1>7. \E i \in 1..n : a[i] = Head(a)
  BY <1>2
<1> QED
  BY <1>2, <1>4, <1>5, <1>6, <1>7 DEF b, n

\* An event of a connection that is not deleted is one of the served client.
LEMMA EventOfServed ==
    ASSUME Types, Orderly, NEW c \in Conns, Event(c), state[c] # "deleted"
    PROVE  state[c] = "open" /\ is_conn_valid /\ uart_netconn = c
<1>1. /\ uart_server_events \in Seq(Sources) /\ acceptmbox \in Seq(Conns)
      /\ InTurn(uart_server_events, acceptmbox) /\ uart_server_events # <<>>
      /\ Head(uart_server_events) = c /\ c # Listen
  BY UartBridgeAssumption DEF Types, Typed, Orderly, Event
<1>2. \A i \in 1..Len(acceptmbox) : acceptmbox[i] # c
  BY <1>1, TurnEvent
<1>3. state[c] # "backlog"
  BY <1>2 DEF Orderly
<1>4. 1 \in 1..Len(uart_server_events) /\ uart_server_events[1] = c
  BY <1>1
<1>5. state[c] # "new"
  BY <1>4 DEF Orderly
<1>6. state[c] \in {"new", "backlog", "open", "deleted"}
  BY DEF Types
<1>7. state[c] = "open"
  BY <1>3, <1>5, <1>6
<1> QED
  BY <1>7 DEF Orderly

\* The queue without its first event has no event that it did not have.
LEMMA Dequeued ==
    ASSUME NEW q \in Seq(Sources), q # <<>>, NEW k \in 1..Len(Tail(q))
    PROVE  k + 1 \in 1..Len(q) /\ Tail(q)[k] = q[k + 1]
  OBVIOUS

\* Connections are accepted in turn, one of them is served.
LEMMA OrderlyStep ==
    ASSUME Types, Orderly, [Next]_vars, ~disturbed'
    PROVE  Orderly'
<1> DEFINE q == uart_server_events
           a == acceptmbox
<1>0. /\ q \in Seq(Sources) /\ a \in Seq(Conns) /\ InTurn(q, a) /\ Listen \notin Conns
      /\ state \in [Conns -> {"new", "backlog", "open", "deleted"}]
  BY UartBridgeAssumption DEF Types, Typed, Orderly
<1>1. CASE UNCHANGED <<q, a, state, uart_netconn, is_conn_valid>>
  <2>1. InTurn(q', a')
    BY <1>0, <1>1
  <2>2. (\A i, j \in 1..Len(a) : a[i] = a[j] => i = j)'
    BY <1>1 DEF Orderly
  <2>3. (\A c \in Conns : state[c] = "backlog" <=> \E i \in 1..Len(a) : a[i] = c)'
    BY <1>1 DEF Orderly
  <2> QED
    BY <1>1, <2>1, <2>2, <2>3 DEF Orderly
<1>2. ASSUME NEW c \in Conns, ClientConnects(c) PROVE Orderly'
  <2>1. /\ state[c] = "new" /\ state' = [state EXCEPT ![c] = "backlog"]
        /\ a' = Append(a, c) /\ q' = Append(q, Listen)
        /\ UNCHANGED <<uart_netconn, is_conn_valid>>
    BY <1>2 DEF ClientConnects, netCallback, bridge
  <2>2. /\ \A k \in 1..Len(q) : q[k] # c
        /\ \A i \in 1..Len(a) : a[i] # c
    BY <2>1 DEF Orderly
  <2>3. InTurn(q', a')
    BY <1>0, <2>1, <2>2, TurnJoins
  <2>4. /\ Len(a) \in Nat /\ Len(a') = Len(a) + 1 /\ a'[Len(a) + 1] = c
        /\ \A i \in 1..Len(a) : a'[i] = a[i]
    BY <1>0, <2>1
  <2>5. ASSUME NEW i \in 1..Len(a'), NEW j \in 1..Len(a'), a'[i] = a'[j] PROVE i = j
    <3>1. i = Len(a) + 1 \/ i \in 1..Len(a)
      BY <2>4
    <3>2. j = Len(a) + 1 \/ j \in 1..Len(a)
      BY <2>4
    <3> QED
      BY <2>2, <2>4, <2>5, <3>1, <3>2 DEF Orderly
  <2>6. ASSUME NEW d \in Conns PROVE state'[d] = "backlog" <=> \E i \in 1..Len(a') : a'[i] = d
    <3>1. (\E i \in 1..Len(a') : a'[i] = d) <=> d = c \/ \E i \in 1..Len(a) : a[i] = d
      <4>1. Len(a) + 1 \in 1..Len(a') /\ \A i \in 1..Len(a) : i \in 1..Len(a')
        BY <2>4
      <4>2. \A i \in 1..Len(a') : i = Len(a) + 1 \/ i \in 1..Len(a)
        BY <2>4
      <4> QED
        BY <2>4, <4>1, <4>2
    <3>2. state'[d] = "backlog" <=> d = c \/ state[d] = "backlog"
      BY <1>0, <2>1
    <3> QED
      BY <3>1, <3>2 DEF Orderly
  <2>7. ASSUME NEW k \in 1..Len(q'), NEW d \in Conns, q'[k] = d PROVE state'[d] # "new"
    <3>1. k \in 1..Len(q) /\ q[k] = d
      BY <1>0, <2>1, <2>7
    <3>2. state[d] # "new"
      BY <3>1 DEF Orderly
    <3> QED
      BY <1>0, <2>1, <3>2
  <2>8. ASSUME NEW d \in Conns PROVE state'[d] = "open" <=> is_conn_valid' /\ uart_netconn' = d
    <3>1. state'[d] = "open" <=> state[d] = "open"
      BY <1>0, <2>1
    <3> QED
      BY <2>1, <3>1 DEF Orderly
  <2> QED
    BY <2>1, <2>3, <2>5, <2>6, <2>7, <2>8 DEF Orderly
<1>3. ASSUME NEW c \in Conns,
             ClientCloses(c) \/ \E item \in Items : ClientSends(c, item)
      PROVE  Orderly'
  <2>1. /\ state[c] # "new" /\ UNCHANGED <<a, state, uart_netconn, is_conn_valid>>
        /\ \/ q' = q
           \/ q' = Append(q, c)
    BY <1>3 DEF ClientCloses, ClientSends, netCallback, Connected, bridge
  <2>2. CASE q' = q
    BY <1>1, <2>1, <2>2
  <2>3. CASE q' = Append(q, c)
    <3>1. InTurn(q', a')
      BY <1>0, <2>1, <2>3, TurnData
    <3>2. ASSUME NEW k \in 1..Len(q'), NEW d \in Conns, q'[k] = d PROVE state'[d] # "new"
      <4>1. d = c \/ (k \in 1..Len(q) /\ q[k] = d)
        BY <1>0, <2>3, <3>2
      <4> QED
        BY <2>1, <4>1 DEF Orderly
    <3> QED
      BY <2>1, <3>1, <3>2 DEF Orderly
  <2> QED
    BY <2>1, <2>2, <2>3
<1>4. CASE Refuse \/ Accept
  <2>1. q # <<>> /\ Head(q) = Listen /\ q' = Tail(q)
    BY <1>4 DEF Refuse, Accept, Event
  <2>2. a # <<>> /\ InTurn(Tail(q), Tail(a))
    BY <1>0, <2>1, TurnListen
  <2> DEFINE h == Head(a)
  <2>3. /\ \A i, j \in 1..Len(Tail(a)) : Tail(a)[i] = Tail(a)[j] => i = j
        /\ \A c : (\E i \in 1..Len(Tail(a)) : Tail(a)[i] = c)
                     <=> c # h /\ \E i \in 1..Len(a) : a[i] = c
        /\ h \in Conns /\ \E i \in 1..Len(a) : a[i] = h
    BY <1>0, <2>2, OthersWait DEF Orderly
  <2> HIDE DEF h
  <2>4. state[h] = "backlog"
    BY <2>3 DEF Orderly
  <2>5. /\ a' = Tail(a)
        /\ \/ /\ state' = [state EXCEPT ![h] = "deleted"]
              /\ UNCHANGED <<uart_netconn, is_conn_valid>>
           \/ /\ state' = [state EXCEPT ![h] = "open"] /\ ~is_conn_valid
              /\ uart_netconn' = h /\ is_conn_valid' = TRUE
    <3>1. CASE Refuse
      BY <2>2, <3>1 DEF Refuse, close_tcp_netconn, h, bridge
    <3>2. CASE Accept
      BY <2>2, <2>4, <3>2 DEF Accept, h
    <3> QED
      BY <1>4, <3>1, <3>2
  <2>6. /\ InTurn(q', a') /\ \A i, j \in 1..Len(a') : a'[i] = a'[j] => i = j
    BY <2>1, <2>2, <2>3, <2>5
  <2>7. ASSUME NEW c \in Conns PROVE state'[c] = "backlog" <=> \E i \in 1..Len(a') : a'[i] = c
    <3>1. state'[c] = "backlog" <=> c # h /\ state[c] = "backlog"
      BY <1>0, <2>3, <2>5
    <3>2. state[c] = "backlog" <=> \E i \in 1..Len(a) : a[i] = c
      BY DEF Orderly
    <3> QED
      BY <2>3, <2>5, <3>1, <3>2
  <2>8. ASSUME NEW k \in 1..Len(q'), NEW c \in Conns, q'[k] = c PROVE state'[c] # "new"
    <3>1. k + 1 \in 1..Len(q) /\ q[k + 1] = c
      BY <1>0, <2>1, <2>8, Dequeued
    <3>2. state[c] # "new"
      BY <3>1 DEF Orderly
    <3> QED
      BY <1>0, <2>5, <3>2
  <2>9. ASSUME NEW c \in Conns PROVE state'[c] = "open" <=> is_conn_valid' /\ uart_netconn' = c
    BY <1>0, <2>3, <2>4, <2>5 DEF Orderly
  <2>10. is_conn_valid' => uart_netconn' \in Conns
    BY <2>3, <2>5 DEF Orderly
  <2> QED
    BY <2>6, <2>7, <2>8, <2>9, <2>10 DEF Orderly
<1>5. ASSUME NEW c \in Conns, Data(c) \/ CloseClient(c) PROVE Orderly'
  <2>1. Event(c) /\ state[c] # "deleted"
    BY <1>5 DEF Data, CloseClient
  <2>2. state[c] = "open" /\ is_conn_valid /\ uart_netconn = c
    BY <2>1, EventOfServed
  <2>3. q # <<>> /\ Head(q) = c /\ Head(q) # Listen /\ q' = Tail(q)
    BY <1>0, <2>1 DEF Event
  <2>4. InTurn(Tail(q), a)
    BY <1>0, <2>3, TurnEvent
  <2>5. /\ a' = a
        /\ \/ UNCHANGED <<state, uart_netconn, is_conn_valid>>
           \/ /\ state' = [state EXCEPT ![c] = "deleted"]
              /\ is_conn_valid' = FALSE
    BY <1>5, <2>2 DEF Data, CloseClient, close_tcp_netconn
  <2>6. InTurn(q', a')
    BY <2>3, <2>4, <2>5
  <2>7. ASSUME NEW k \in 1..Len(q'), NEW d \in Conns, q'[k] = d PROVE state'[d] # "new"
    <3>1. k + 1 \in 1..Len(q) /\ q[k + 1] = d
      BY <1>0, <2>3, <2>7, Dequeued
    <3>2. state[d] # "new"
      BY <3>1 DEF Orderly
    <3> QED
      BY <1>0, <2>5, <3>2
  <2>8. ASSUME NEW d \in Conns
        PROVE  /\ state'[d] = "open" <=> is_conn_valid' /\ uart_netconn' = d
               /\ state'[d] = "backlog" <=> state[d] = "backlog"
    BY <1>0, <2>2, <2>5 DEF Orderly
  <2>9. is_conn_valid' => uart_netconn' \in Conns
    BY <2>5 DEF Orderly
  <2> QED
    BY <2>5, <2>6, <2>7, <2>8, <2>9 DEF Orderly
<1>6. ASSUME UNCHANGED vars \/ UartReceives \/ Timeout \/ \E c \in Conns : ClientResets(c)
      PROVE  Orderly'
  BY <1>1, <1>6 DEF vars, bridge, UartReceives, Timeout, ClientResets
<1>7. ASSUME NEW c \in Conns PROVE ~(Freed(c) \/ Restart(c))
  BY DEF Freed, Restart
<1> QED
  BY <1>2, <1>3, <1>4, <1>5, <1>6, <1>7 DEF Next, Client, Task

----------------------------------------------------------------------------
(* What becomes of the data *)

\* What Copied says of the items sent, written and left to read.
Whole(tx, rest, all) ==
    IF tx = <<>> THEN rest = all ELSE tx \o rest = [all EXCEPT ![1] = NotBaud(@)]

\* Another item is sent.
LEMMA WholeSent ==
    ASSUME NEW tx \in Seq(Texts), NEW rest \in Seq(Items), NEW all \in Seq(Items),
           NEW item \in Items, Whole(tx, rest, all)
    PROVE  Whole(tx, Append(rest, item), Append(all, item))
<1>0. /\ rest \in Seq(Texts) /\ all \in Seq(Texts) /\ item \in Texts
      /\ \A x \in Items : NotBaud(x) \in Texts
  BY Wider, WrittenText, Items \subseteq Texts DEF Texts
<1>1. CASE tx = <<>>
  BY <1>1 DEF Whole
<1>2. CASE tx # <<>>
  <2>1. tx \o rest = [all EXCEPT ![1] = NotBaud(all[1])]
    BY <1>2 DEF Whole
  <2>2. all # <<>>
    <3>1. SUFFICES ASSUME all = <<>> PROVE FALSE
      OBVIOUS
    <3>2. DOMAIN (tx \o rest) = {}
      BY <2>1, <3>1
    <3>3. tx \o rest \in Seq(Texts) /\ Len(tx \o rest) = Len(tx) + Len(rest)
      BY <1>0
    <3>4. Len(tx) \in Nat /\ Len(tx) > 0 /\ Len(rest) \in Nat
      BY <1>0, <1>2
    <3>5. 1 \in DOMAIN (tx \o rest)
      BY <3>3, <3>4
    <3> QED
      BY <3>2, <3>5
  <2> DEFINE y == NotBaud(all[1])
  <2>3. all[1] \in Items /\ y \in Texts
    BY <1>0, <2>2
  <2>4. Append(all, item)[1] = all[1]
    BY <2>2
  <2> HIDE DEF y
  <2>5. tx \o Append(rest, item) = Append([all EXCEPT ![1] = y], item)
    <3>1. tx \o Append(rest, item) = Append(tx \o rest, item)
      BY <1>0, Joined
    <3> QED
      BY <2>1, <3>1 DEF y
  <2>6. tx \o Append(rest, item) = [Append(all, item) EXCEPT ![1] = y]
    BY <1>0, <2>2, <2>3, <2>5, FirstStays
  <2>7. tx \o Append(rest, item) = [Append(all, item) EXCEPT ![1] = NotBaud(@)]
    BY <2>4, <2>6 DEF y
  <2> QED
    BY <1>2, <2>7 DEF Whole
<1> QED
  BY <1>1, <1>2

\* An item is read and written, as the first one or a later one.
LEMMA WholeRead ==
    ASSUME NEW tx \in Seq(Texts), NEW rest \in Seq(Items), NEW all \in Seq(Items),
           rest # <<>>, NEW first \in BOOLEAN, first <=> tx = <<>>, Whole(tx, rest, all)
    PROVE  LET tx2 == Append(tx, Written(Head(rest), first))
           IN  tx2 # <<>> /\ Whole(tx2, Tail(rest), all)
<1>0. /\ rest \in Seq(Texts) /\ all \in Seq(Texts) /\ Head(rest) \in Items
      /\ Written(Head(rest), first) \in Texts /\ NotBaud(Head(rest)) \in Texts
  <2>1. Head(rest) \in Items
    OBVIOUS
  <2> QED
    BY <2>1, Wider, WrittenText, Items \subseteq Texts DEF Texts
<1> DEFINE tx2 == Append(tx, Written(Head(rest), first))
<1>1. tx2 # <<>> /\ tx2 \in Seq(Texts)
  BY <1>0
<1>2. CASE first
  <2>1. tx = <<>> /\ rest = all
    BY <1>2 DEF Whole
  <2>2. Written(Head(rest), first) = NotBaud(Head(rest))
    BY <1>2 DEF Written, NotBaud
  <2>3. tx2 = <<NotBaud(Head(rest))>>
    <3>1. tx2 = Append(<<>>, NotBaud(Head(rest)))
      BY <2>1, <2>2
    <3> HIDE DEF tx2
    <3> QED
      BY <3>1
  <2> HIDE DEF tx2
  <2>4. tx2 \o Tail(rest) = [rest EXCEPT ![1] = NotBaud(Head(rest))]
    BY <1>0, <2>3, First
  <2>5. Head(rest) = rest[1]
    OBVIOUS
  <2>6. tx2 \o Tail(rest) = [all EXCEPT ![1] = NotBaud(@)]
    BY <2>1, <2>4, <2>5
  <2>7. tx2 # <<>>
    BY <1>1
  <2> QED
    BY <2>6, <2>7 DEF Whole, tx2
<1>3. CASE ~first
  <2>1. tx # <<>> /\ tx \o rest = [all EXCEPT ![1] = NotBaud(@)]
    BY <1>3 DEF Whole
  <2>2. tx2 = Append(tx, Head(rest))
    BY <1>3 DEF Written
  <2> HIDE DEF tx2
  <2>3. tx2 \o Tail(rest) = tx \o rest
    BY <1>0, <2>2, Joined
  <2>4. tx2 # <<>>
    BY <1>1
  <2> QED
    BY <2>1, <2>3, <2>4 DEF Whole, tx2
<1> QED
  BY <1>2, <1>3

\* The data of connection b, whoever takes a step.
LEMMA CopiedStep ==
    ASSUME Types, Orderly, NEW b \in Conns, Copied(b), [Next]_vars, ~disturbed'
    PROVE  Copied(b)'
<1>0. /\ inbox \in [Conns -> Seq(Messages)] /\ inbox[b] \in Seq(Messages)
      /\ sent \in [Conns -> Seq(Items)] /\ sent[b] \in Seq(Items)
      /\ uart_tx \in [Conns -> Seq(Texts)] /\ uart_tx[b] \in Seq(Texts)
      /\ state \in [Conns -> {"new", "backlog", "open", "deleted"}]
      /\ is_first_time_recv \in BOOLEAN
  BY DEF Types, Typed
<1>1. /\ FinLast(inbox[b]) /\ Whole(uart_tx[b], Rest(inbox[b]), sent[b])
      /\ state[b] \in {"new", "backlog"} => uart_tx[b] = <<>>
      /\ state[b] = "open" => (is_first_time_recv <=> uart_tx[b] = <<>>)
  BY DEF Copied, Whole, Unread, Finished, Rest
<1> DEFINE Kept == /\ FinLast(inbox'[b]) /\ Whole(uart_tx'[b], Rest(inbox'[b]), sent'[b])
                   /\ state'[b] \in {"new", "backlog"} => uart_tx'[b] = <<>>
                   /\ state'[b] = "open" => (is_first_time_recv' <=> uart_tx'[b] = <<>>)
<1>2. Kept => Copied(b)'
  BY DEF Copied, Whole, Unread, Finished, Rest, FinLast
<1>3. Rest(inbox[b]) \in Seq(Items)
  BY <1>0, <1>1, Shape
<1>4. ASSUME
           /\ inbox'[b] = inbox[b] /\ sent'[b] = sent[b] /\ uart_tx'[b] = uart_tx[b]
           /\ state'[b] \in {"new", "backlog"} => state[b] \in {"new", "backlog"}
           /\ state'[b] = "open" =>
                 \/ state[b] = "open" /\ is_first_time_recv' = is_first_time_recv
                 \/ state[b] = "backlog" /\ is_first_time_recv'
      PROVE  Kept
  BY <1>1, <1>4
<1>5. ASSUME NEW c \in Conns, NEW item \in Items, ClientSends(c, item) PROVE Kept
  <2>1. CASE c # b
    <3>1. /\ inbox'[b] = inbox[b] /\ sent'[b] = sent[b]
          /\ UNCHANGED <<state, uart_tx, is_first_time_recv>>
      BY <1>0, <1>5, <2>1 DEF ClientSends, bridge
    <3> QED
      BY <1>4, <3>1
  <2>2. CASE c = b
    <3>1. /\ Fin \notin ToSet(inbox[b]) /\ item \in Messages /\ item # Fin
          /\ inbox'[b] = Append(inbox[b], item) /\ sent'[b] = Append(sent[b], item)
          /\ UNCHANGED <<state, uart_tx, is_first_time_recv>>
      BY <1>0, <1>5, <2>2, UartBridgeAssumption DEF ClientSends, Finished, Messages, bridge
    <3>2. /\ FinLast(inbox'[b]) /\ Rest(inbox[b]) = inbox[b]
          /\ Rest(inbox'[b]) = Append(Rest(inbox[b]), item)
      BY <1>0, <3>1, RestArrives
    <3>3. Whole(uart_tx'[b], Rest(inbox'[b]), sent'[b])
      BY <1>0, <1>1, <1>3, <3>1, <3>2, WholeSent
    <3> QED
      BY <1>1, <3>1, <3>2, <3>3
  <2> QED
    BY <2>1, <2>2
<1>6. ASSUME NEW c \in Conns, ClientCloses(c) PROVE Kept
  <2>1. CASE c # b
    <3>1. /\ inbox'[b] = inbox[b] /\ sent'[b] = sent[b]
          /\ UNCHANGED <<state, uart_tx, is_first_time_recv>>
      BY <1>0, <1>6, <2>1 DEF ClientCloses, bridge
    <3> QED
      BY <1>4, <3>1
  <2>2. CASE c = b
    <3>1. /\ Fin \notin ToSet(inbox[b]) /\ Fin \in Messages
          /\ inbox'[b] = Append(inbox[b], Fin)
          /\ UNCHANGED <<state, sent, uart_tx, is_first_time_recv>>
      BY <1>0, <1>6, <2>2 DEF ClientCloses, Finished, Messages, bridge
    <3>2. FinLast(inbox'[b]) /\ Rest(inbox'[b]) = Rest(inbox[b])
      BY <1>0, <3>1, RestArrives
    <3> QED
      BY <1>1, <3>1, <3>2
  <2> QED
    BY <2>1, <2>2
<1>7. ASSUME NEW c \in Conns, ClientConnects(c) PROVE Kept
  <2>1. /\ UNCHANGED <<inbox, sent, uart_tx, is_first_time_recv>>
        /\ state[c] = "new" /\ state' = [state EXCEPT ![c] = "backlog"]
    BY <1>7 DEF ClientConnects, bridge
  <2>2. state'[b] = state[b] \/ (state[b] = "new" /\ state'[b] = "backlog")
    BY <1>0, <2>1
  <2> QED
    BY <1>4, <2>1, <2>2
<1>8. ASSUME Refuse PROVE Kept
  <2>1. /\ UNCHANGED <<inbox, sent, uart_tx, is_first_time_recv>>
        /\ state'[b] = state[b] \/ state'[b] = "deleted"
    BY <1>0, <1>8 DEF Refuse, close_tcp_netconn, bridge
  <2> QED
    BY <1>4, <2>1
<1>9. ASSUME Accept PROVE Kept
  <2>1. state[b] # "open" /\ UNCHANGED <<inbox, sent, uart_tx>>
    BY <1>9 DEF Accept, Orderly
  <2>2. CASE acceptmbox = <<>>
    BY <1>4, <1>9, <2>1, <2>2 DEF Accept
  <2>3. CASE acceptmbox # <<>>
    <3>1. \E i \in 1..Len(acceptmbox) : acceptmbox[i] = Head(acceptmbox)
      <4>1. acceptmbox \in Seq(Conns)
        BY DEF Types
      <4>2. 1 \in 1..Len(acceptmbox) /\ acceptmbox[1] = Head(acceptmbox)
        BY <2>3, <4>1
      <4> QED
        BY <4>2
    <3>2. b = Head(acceptmbox) => state[b] = "backlog"
      BY <3>1 DEF Orderly
    <3>3. /\ is_first_time_recv' = TRUE
          /\ b # Head(acceptmbox) => state'[b] = state[b]
          /\ b = Head(acceptmbox) => state'[b] = "open"
      BY <1>0, <1>9, <2>3, <3>2 DEF Accept
    <3> QED
      BY <1>4, <2>1, <3>2, <3>3
  <2> QED
    BY <2>2, <2>3
<1>10. ASSUME NEW c \in Conns, Data(c) PROVE Kept
  <2>1. Event(c) /\ state[c] # "deleted"
    BY <1>10 DEF Data
  <2>2. state[c] = "open" /\ is_conn_valid /\ uart_netconn = c
    BY <2>1, EventOfServed
  <2>3. CASE c # b
    <3>1. state[b] # "open"
      BY <2>2, <2>3 DEF Orderly
    <3>2. inbox'[b] = inbox[b] /\ sent'[b] = sent[b] /\ uart_tx'[b] = uart_tx[b] /\ state' = state
      BY <1>0, <1>10, <2>3 DEF Data, Received
    <3> QED
      BY <1>4, <3>1, <3>2
  <2>4. CASE c = b
    <3>1. /\ inbox[b] # <<>> /\ Head(inbox[b]) # Fin /\ inbox'[b] = Tail(inbox[b])
          /\ uart_tx'[b] = Append(uart_tx[b], Written(Head(inbox[b]), is_first_time_recv))
          /\ UNCHANGED <<state, sent>> /\ is_first_time_recv' = FALSE
      BY <1>0, <1>10, <2>4 DEF Data, Received
    <3>2. /\ FinLast(inbox'[b]) /\ Rest(inbox'[b]) = Tail(Rest(inbox[b]))
          /\ Rest(inbox[b]) # <<>> /\ Head(Rest(inbox[b])) = Head(inbox[b])
      BY <1>0, <1>1, <3>1, RestRead
    <3>3. is_first_time_recv <=> uart_tx[b] = <<>>
      BY <1>1, <2>2, <2>4
    <3>4. uart_tx'[b] # <<>> /\ Whole(uart_tx'[b], Rest(inbox'[b]), sent'[b])
      <4> DEFINE tx == uart_tx[b]
                 rest == Rest(inbox[b])
                 all == sent[b]
                 first == is_first_time_recv
                 tx2 == Append(tx, Written(Head(rest), first))
      <4>1. /\ tx \in Seq(Texts) /\ rest \in Seq(Items) /\ all \in Seq(Items) /\ rest # <<>>
            /\ first \in BOOLEAN /\ (first <=> tx = <<>>) /\ Whole(tx, rest, all)
        BY <1>0, <1>1, <1>3, <3>2, <3>3
      <4>2. tx2 = uart_tx'[b] /\ Tail(rest) = Rest(inbox'[b]) /\ all = sent'[b]
        BY <3>1, <3>2
      <4> HIDE DEF tx, rest, all, first
      <4>3. tx2 # <<>> /\ Whole(tx2, Tail(rest), all)
        BY <4>1, WholeRead
      <4> HIDE DEF tx2
      <4> QED
        BY <4>2, <4>3
    <3> QED
      BY <2>2, <2>4, <3>1, <3>2, <3>4
  <2> QED
    BY <2>3, <2>4
<1>11. ASSUME NEW c \in Conns, CloseClient(c) PROVE Kept
  <2>1. /\ UNCHANGED <<inbox, sent, uart_tx, is_first_time_recv>>
        /\ state'[b] = state[b] \/ state'[b] = "deleted"
    BY <1>0, <1>11 DEF CloseClient, close_tcp_netconn
  <2> QED
    BY <1>4, <2>1
<1>12. ASSUME UNCHANGED vars \/ UartReceives \/ Timeout \/ \E c \in Conns : ClientResets(c)
       PROVE  Kept
  <2>1. UNCHANGED <<inbox, sent, uart_tx, state, is_first_time_recv>>
    BY <1>12 DEF vars, bridge, UartReceives, Timeout, ClientResets
  <2> QED
    BY <1>4, <2>1
<1>13. ASSUME NEW c \in Conns PROVE ~(Freed(c) \/ Restart(c))
  BY DEF Freed, Restart
<1>14. Kept
  BY <1>5, <1>6, <1>7, <1>8, <1>9, <1>10, <1>11, <1>12, <1>13 DEF Next, Client, Task
<1> QED
  BY <1>2, <1>14

----------------------------------------------------------------------------
(* Theorems *)

\* The invariant holds at the start and is kept.
THEOREM OrderInvariance == Spec => [](Inductive /\ OrderInv)
<1>1. ASSUME Init PROVE Inductive /\ OrderInv
  <2>1. Types
    <3>1. <<>> \in Seq(Messages) /\ <<>> \in Seq(Items) /\ <<>> \in Seq(Texts)
          /\ <<>> \in Seq(Sources) /\ <<>> \in Seq(Conns)
      OBVIOUS
    <3>2. Typed /\ sent \in [Conns -> Seq(Items)] /\ uart_tx \in [Conns -> Seq(Texts)]
      BY <1>1, <3>1 DEF Init, None, Typed
    <3> QED
      BY <1>1, <3>1, <3>2 DEF Init, Types
  <2>2. \A c \in Conns : Positions(uart_server_events, c) = {} /\ Len(inbox[c]) = 0
    BY <1>1 DEF Init, None, Positions
  <2>3. \A c \in Conns : Count(uart_server_events, c) = 0
    BY <2>2, FS_EmptySet DEF Count
  <2>4. Inductive
    BY <2>1, <2>2, <2>3 DEF Inductive, Bounded, Types
  <2>5. InTurn(uart_server_events, acceptmbox)
    <3>1. Len(uart_server_events) = 0 /\ Len(acceptmbox) = 0
      BY <1>1 DEF Init
    <3> DEFINE turn == [i \in 1..Len(acceptmbox) |-> i]
    <3>2. turn \in [1..Len(acceptmbox) -> 1..Len(uart_server_events)]
      BY <3>1
    <3> HIDE DEF turn
    <3>3. Turns(uart_server_events, acceptmbox, turn)
      BY <3>1 DEF Turns
    <3> QED
      BY <3>2, <3>3 DEF InTurn
  <2>6. Orderly
    <3>1. Len(uart_server_events) = 0 /\ Len(acceptmbox) = 0
      BY <1>1 DEF Init
    <3> QED
      BY <1>1, <2>5, <3>1 DEF Init, Orderly
  <2>7. ASSUME NEW c \in Conns PROVE Copied(c)
    <3>1. inbox[c] = <<>> /\ sent[c] = <<>> /\ uart_tx[c] = <<>> /\ state[c] = "new"
      BY <1>1 DEF Init, None
    <3>2. FinLast(inbox[c]) /\ Fin \notin ToSet(inbox[c])
      BY <3>1 DEF FinLast, ToSet
    <3> QED
      BY <3>1, <3>2 DEF Copied, Unread, Finished
  <2> QED
    BY <2>1, <2>4, <2>6, <2>7 DEF OrderInv
<1>2. ASSUME Inductive, OrderInv, [Next]_vars PROVE (Inductive /\ OrderInv)'
  <2>1. Inductive'
    <3>1. CASE UNCHANGED vars
      BY <1>2, <3>1 DEF vars, Inductive, Typed, Bounded, Count, Positions
    <3> QED
      BY <1>2, <3>1, ClientKeeps, TaskKeeps DEF Next
  <2>2. Types'
    BY <1>2, <2>1, TypesStep DEF OrderInv, Inductive
  <2>3. ASSUME ~disturbed' PROVE Orderly' /\ \A c \in Conns : Copied(c)'
    <3>1. Types /\ Orderly /\ \A c \in Conns : Copied(c)
      BY <1>2, <2>3, DisturbedStays DEF OrderInv
    <3> QED
      BY <1>2, <2>3, <3>1, OrderlyStep, CopiedStep
  <2> QED
    BY <2>1, <2>2, <2>3 DEF OrderInv
<1> QED
  BY <1>1, <1>2, PTL DEF Spec

\* The bridge has one client at a time and knows which, for any number of
\* clients that come, send and go, until an event is dropped or one of a
\* deleted connection is handled (uart_tcp_bridge.c:254-284, 321-322).
THEOREM OneClient == Spec => []ServesItsClient
<1>1. ASSUME OrderInv PROVE ServesItsClient
  <2>1. SUFFICES ASSUME ~disturbed
                 PROVE  /\ Cardinality(Served) = IF is_conn_valid THEN 1 ELSE 0
                        /\ is_conn_valid => uart_netconn \in Served
    BY DEF ServesItsClient
  <2>2. Orderly
    BY <1>1, <2>1 DEF OrderInv
  <2>3. CASE is_conn_valid
    <3>1. Served = {uart_netconn}
      BY <2>2, <2>3 DEF Served, Orderly
    <3> QED
      BY <2>3, <3>1, FS_Singleton
  <2>4. CASE ~is_conn_valid
    <3>1. Served = {}
      BY <2>2, <2>4 DEF Served, Orderly
    <3> QED
      BY <2>4, <3>1, FS_EmptySet
  <2> QED
    BY <2>3, <2>4
<1> QED
  BY <1>1, OrderInvariance, PTL

\* What a client sends is written to the UART once, complete and in order, but
\* for a baud rate at its very beginning: for any number of clients, any
\* amount of data and any length of the queue, whatever the order of sending,
\* accepting, refusing and closing (uart_tcp_bridge.c:279, 293-316).
THEOREM UartKeepsOrder == Spec => []UartInOrder
<1>1. ASSUME OrderInv PROVE UartInOrder
  <2>1. SUFFICES ASSUME NEW c \in Conns, ~disturbed
                 PROVE  \/ uart_tx[c] = <<>> /\ Unread(c) = sent[c]
                        \/ uart_tx[c] \o Unread(c) = [sent[c] EXCEPT ![1] = NotBaud(@)]
    BY DEF UartInOrder
  <2>2. Copied(c)
    BY <1>1, <2>1 DEF OrderInv
  <2> QED
    BY <2>2 DEF Copied
<1> QED
  BY <1>1, OrderInvariance, PTL

=============================================================================
