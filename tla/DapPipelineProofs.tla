------------------------- MODULE DapPipelineProofs -------------------------
(***************************************************************************)
(* Safety of DapPipeline for every ring size, every number of connections  *)
(* and commands, and with or without allocation failures.                  *)
(***************************************************************************)
EXTENDS DapPipeline, TLAPS

(* Who is in a critical section of data_response_mux.                      *)
MuxInv ==
  /\ mux = "dap" <=> dap = "free_null"
  /\ mux = "tcp" <=> tcp = "free_null"

(* What the handles say about the rings, and where a task that waits or    *)
(* works on a ring without looking at the handle again may be.             *)
HandleInv ==
  /\ dap_dataIN # "live" => ringIN = <<>>
  /\ dap_dataOUT # "live" => ringOUT = <<>>
  /\ dap \in {"signal", "malloc"} => dap_dataIN = "null" /\ dap_dataOUT = "null"
  /\ mux # "none" => dap_dataIN # "live" /\ dap_dataOUT # "live"
  /\ tcp = "in_blocked" => dap_dataIN = "live"
  /\ dap = "out_blocked" => dap_dataOUT = "live"

(* fast_reply is entered only with a command outstanding.                  *)
ReqInv ==
  tcp \in {"fr_call", "fr_blocked", "fr_dec", "fr_return"} => dap_req_num > 0

(* While a clean USBIP connection is served no restart is under way.       *)
ServingInv ==
  Serving =>
    /\ kRestartDAPHandle = "NO_SIGNAL" /\ mux = "none" /\ ~fault
    /\ dap_dataIN = "live" /\ dap_dataOUT = "live"
    /\ dap \in {"check", "wait", "rx", "process", "out_call", "out_blocked", "inc"}
    /\ tcp \notin {"el_flag", "free", "free_null", "execute", "hung"}

(* A deleted ring is forgotten before data_response_mux is released.       *)
FreedInv == mux = "none" => dap_dataIN # "freed" /\ dap_dataOUT # "freed"

BothLive  == dap_dataIN = "live" /\ dap_dataOUT = "live"
BothEmpty == ringIN = <<>> /\ ringOUT = <<>>
AtWork    == {"rx", "process", "out_call", "out_blocked", "inc"}

(* DAP_Thread waits, and nothing will wake it before this connection ends. *)
Asleep ==
  /\ dap = "wait" /\ notify = 0 /\ ~fault
  /\ BothEmpty /\ dap_dataIN = dap_dataOUT

(* It still works off what a USBIP connection has left in the rings.       *)
Running ==
  /\ kRestartDAPHandle = "NO_SIGNAL" /\ ~fault
  /\ dap \in {"check", "wait"} \cup AtWork /\ BothLive

(* The restart is flagged and not finished.                                *)
Restarting ==
  /\ kRestartDAPHandle = "RESET_HANDLE"
  /\ dap # "hung" /\ (fault => dap = "dead")
  /\ dap \in AtWork => BothLive
  /\ dap = "wait" => dap_dataIN = dap_dataOUT
  /\ dap = "wait" /\ tcp = "accept" => notify > 0
  /\ dap = "no_signal" =>
       /\ BothEmpty /\ dap_dataIN = "live"
       /\ dap_dataOUT = "live" \/ (MallocMayFail /\ dap_dataOUT = "null")

(* It is finished; notifications that are left over find nothing to do.    *)
Restarted ==
  /\ kRestartDAPHandle = "NO_SIGNAL" /\ ~fault
  /\ dap \in {"check", "wait", "rx"} /\ BothEmpty
  /\ dap_dataIN = "live"
  /\ \/ dap_dataOUT = "live"
     \/ MallocMayFail /\ dap_dataOUT = "null" /\ dap # "rx"

(* Where a connection that found DAP_Thread at rest, and DAP_Thread, may   *)
(* be together, until the next connection is accepted.                     *)
CleanInv ==
  clean =>
    \/ Serving
    \/ tcp \in {"el_flag", "free", "free_null", "execute"} /\ Asleep
    \/ tcp = "cl_flag" /\ (Running \/ Asleep)
    \/ tcp \in {"cl_notify", "accept"} /\ (Restarting \/ Restarted)

IInv ==
  /\ TypeOK /\ MuxInv /\ HandleInv /\ ReqInv /\ ServingInv
  /\ NoLostWakeup /\ RespondCoversRing /\ NothingLost
  /\ FreedInv /\ CleanInv

-----------------------------------------------------------------------------

(* The boot state satisfies the inductive invariant.                       *)
LEMMA InitInv == Init => IInv
<1> SUFFICES ASSUME Init PROVE IInv
  OBVIOUS
<1> USE DEF Init
<1>1. TypeOK
  <2>1. ringIN \in Seq(Packet) /\ ringOUT \in Seq(Packet) /\ got \in Seq(Packet)
    OBVIOUS
  <2>2. Len(ringIN) + HeldIN <= BufferNum /\ Len(ringOUT) + HeldOUT <= BufferNum
    BY DapPipelineAssumption DEF HeldIN, HeldOUT
  <2>3. resp \in Packet
    BY DEF NoPacket, Packet
  <2>4. /\ tcp \in TcpAt /\ dap \in DapAt /\ kRestartDAPHandle \in Signal
        /\ dap_dataIN \in Handle /\ dap_dataOUT \in Handle /\ kind \in Kind
        /\ mux \in {"none", "tcp", "dap"} /\ fault \in BOOLEAN /\ clean \in BOOLEAN
    BY DEF TcpAt, DapAt, Signal, Handle, Kind
  <2>5. /\ notify \in Nat /\ dap_respond \in Int /\ dap_req_num \in Nat
        /\ session \in Nat /\ sent \in Nat /\ dropped \in Nat /\ unlinkAt \in Nat
    OBVIOUS
  <2> QED
    BY <2>1, <2>2, <2>3, <2>4, <2>5 DEF TypeOK
<1>2. MuxInv /\ HandleInv /\ ReqInv
  BY DEF MuxInv, HandleInv, ReqInv
<1>3. ServingInv /\ NothingLost
  BY DEF ServingInv, NothingLost, Serving
<1>4. NoLostWakeup /\ RespondCoversRing
  BY DEF NoLostWakeup, RespondCoversRing, Giving, Taken, Counted, Uncounted
<1>5. FreedInv /\ CleanInv
  BY DEF FreedInv, CleanInv, Restarted, BothEmpty
<1> QED
  BY <1>1, <1>2, <1>3, <1>4, <1>5 DEF IInv

(* Types, and no ring overfilled: a task adds a packet only where it found  *)
(* room, and holding an item keeps its place taken.                        *)
LEMMA TypeStep == IInv /\ [Next]_vars => TypeOK'
<1> SUFFICES ASSUME IInv, [Next]_vars PROVE TypeOK'
  OBVIOUS
<1> USE DapPipelineAssumption DEF IInv, ReqInv, TypeOK, HeldIN, HeldOUT, TcpAt, DapAt,
          Signal, Handle, Kind, Packet, vars, tcpVars, ringVars, hist
<1>1. ASSUME NEW k \in Kind \ {"none"}, Accept(k) PROVE TypeOK'
  <2>1. clean' \in BOOLEAN
    BY <1>1 DEF Accept, AtRest
  <2>2. session' \in Nat /\ kind' \in Kind
    <3>1. session' = session + 1 /\ kind' = k /\ k \in Kind /\ session \in Nat
      BY <1>1 DEF Accept, AtRest
    <3> QED
      BY <3>1
  <2>3. tcp = "accept" /\ tcp' \in {"recv", "el_flag", "free", "cl_flag"}
    BY <1>1 DEF Accept
  <2>4. UNCHANGED <<dap, kRestartDAPHandle, notify, ringVars, mux, dap_respond, resp, fault>>
    BY <1>1 DEF Accept
  <2>5. dap_req_num' = 0 /\ sent' = 0 /\ got' = <<>> /\ dropped' = 0 /\ unlinkAt' = 0
    BY <1>1 DEF Accept
  <2>6. Len(ringIN') + HeldIN' <= BufferNum /\ Len(ringOUT') + HeldOUT' <= BufferNum
    BY <2>3, <2>4
  <2>7. tcp' \in TcpAt
    BY <2>3
  <2> QED
    BY <2>1, <2>2, <2>4, <2>5, <2>6, <2>7 DEF TypeOK
<1>2. CASE CleanupFlag
  BY <1>2 DEF CleanupFlag
<1>3. CASE CleanupNotify
  BY <1>3 DEF CleanupNotify, GiveNotification
<1>4. CASE RequestSend
  BY <1>4 DEF RequestSend, RoomIN
<1>5. CASE RequestBlock
  BY <1>5 DEF RequestBlock, RoomIN
<1>6. CASE RequestNotify
  BY <1>6 DEF RequestNotify, GiveNotification
<1>7. CASE ReplyReceive
  BY <1>7 DEF ReplyReceive
<1>8. CASE ReplyBlock
  BY <1>8 DEF ReplyBlock
<1>9. CASE CountDown
  BY <1>9 DEF CountDown
<1>10. CASE ReplyDone
  BY <1>10 DEF ReplyDone
<1>11. CASE UnlinkReceive
  BY <1>11 DEF UnlinkReceive
<1>12. CASE UnlinkWait
  BY <1>12 DEF UnlinkWait
<1>13. CASE UnlinkDone
  BY <1>13 DEF UnlinkDone
<1>14. CASE TcpCrash
  BY <1>14 DEF TcpCrash, Crash
<1>15. CASE ElFlag
  BY <1>15 DEF ElFlag
<1>16. CASE TcpFree
  BY <1>16 DEF TcpFree, DeleteRings
<1>17. CASE TcpFreeNull
  BY <1>17 DEF TcpFreeNull, ForgetRings
<1>18. CASE Leave
  BY <1>18 DEF Leave
<1>19. CASE UrbOut
  BY <1>19 DEF UrbOut
<1>20. CASE UrbIn
  BY <1>20 DEF UrbIn
<1>21. CASE Unlink
  BY <1>21 DEF Unlink
<1>22. CASE Execute
  BY <1>22 DEF Execute
<1>23. CASE DapCheck
  BY <1>23 DEF DapCheck
<1>24. CASE DapFree
  BY <1>24 DEF DapFree, DeleteRings
<1>25. CASE DapFreeNull
  BY <1>25 DEF DapFreeNull, ForgetRings
<1>26. CASE DapSignal
  BY <1>26 DEF DapSignal
<1>27. CASE DapMalloc
  BY <1>27 DEF DapMalloc
<1>28. CASE DapNoSignal
  BY <1>28 DEF DapNoSignal
<1>29. CASE DapTake
  BY <1>29 DEF DapTake, NotifyTake
<1>30. CASE DapReceive
  BY <1>30 DEF DapReceive
<1>31. CASE DapReceiveNothing
  BY <1>31 DEF DapReceiveNothing
<1>32. CASE DapProcess
  BY <1>32 DEF DapProcess
<1>33. CASE DapSend
  <2>1. ringOUT' = Append(ringOUT, resp) /\ ringOUT' \in Seq(Packet)
    BY <1>33 DEF DapSend
  <2>2. Len(ringOUT') + HeldOUT' <= BufferNum
    BY <1>33, <2>1 DEF DapSend, RoomOUT
  <2>3. HeldIN' <= HeldIN /\ HeldIN' \in {0, 1} /\ UNCHANGED ringIN
    BY <1>33 DEF DapSend
  <2> QED
    BY <1>33, <2>1, <2>2, <2>3 DEF DapSend
<1>34. CASE DapBlock
  BY <1>34 DEF DapBlock, RoomOUT
<1>35. CASE DapCount
  BY <1>35 DEF DapCount
<1>36. CASE DapCrash
  BY <1>36 DEF DapCrash, Crash
<1>37. CASE UNCHANGED vars
  BY <1>37
<1> QED
  BY <1>1, <1>2, <1>3, <1>4, <1>5, <1>6, <1>7, <1>8, <1>9, <1>10, <1>11, <1>12, <1>13,
     <1>14, <1>15, <1>16, <1>17, <1>18, <1>19, <1>20, <1>21, <1>22, <1>23, <1>24,
     <1>25, <1>26, <1>27, <1>28, <1>29, <1>30, <1>31, <1>32, <1>33, <1>34, <1>35,
     <1>36, <1>37
     DEF Next, TcpStep, Peer, DapStep

(* Mutex, handles and the count of outstanding commands.                   *)
LEMMA HandleStep == IInv /\ [Next]_vars => (MuxInv /\ HandleInv /\ ReqInv)'
<1> SUFFICES ASSUME IInv, [Next]_vars PROVE (MuxInv /\ HandleInv /\ ReqInv)'
  OBVIOUS
<1> USE DEF IInv, TypeOK, MuxInv, HandleInv, ReqInv, TcpAt, DapAt, Handle, vars,
          tcpVars, ringVars, hist
<1>1. ASSUME NEW k \in Kind \ {"none"}, Accept(k) PROVE (MuxInv /\ HandleInv /\ ReqInv)'
  BY <1>1 DEF Accept, AtRest, Kind
<1>2. CASE CleanupFlag
  BY <1>2 DEF CleanupFlag
<1>3. CASE CleanupNotify
  BY <1>3 DEF CleanupNotify, GiveNotification
<1>4. CASE RequestSend
  BY <1>4 DEF RequestSend, RoomIN
<1>5. CASE RequestBlock
  BY <1>5 DEF RequestBlock, RoomIN
<1>6. CASE RequestNotify
  BY <1>6 DEF RequestNotify, GiveNotification
<1>7. CASE ReplyReceive
  BY <1>7 DEF ReplyReceive
<1>8. CASE ReplyBlock
  BY <1>8 DEF ReplyBlock
<1>9. CASE CountDown
  BY <1>9 DEF CountDown
<1>10. CASE ReplyDone
  BY <1>10 DEF ReplyDone
<1>11. CASE UnlinkReceive
  BY <1>11 DEF UnlinkReceive
<1>12. CASE UnlinkWait
  BY <1>12 DEF UnlinkWait
<1>13. CASE UnlinkDone
  BY <1>13 DEF UnlinkDone
<1>14. CASE TcpCrash
  BY <1>14 DEF TcpCrash, Crash
<1>15. CASE ElFlag
  BY <1>15 DEF ElFlag
<1>16. CASE TcpFree
  BY <1>16 DEF TcpFree, DeleteRings
<1>17. CASE TcpFreeNull
  BY <1>17 DEF TcpFreeNull, ForgetRings
<1>18. CASE Leave
  BY <1>18 DEF Leave
<1>19. CASE UrbOut
  BY <1>19 DEF UrbOut
<1>20. CASE UrbIn
  BY <1>20 DEF UrbIn
<1>21. CASE Unlink
  BY <1>21 DEF Unlink
<1>22. CASE Execute
  BY <1>22 DEF Execute
<1>23. CASE DapCheck
  BY <1>23 DEF DapCheck
<1>24. CASE DapFree
  BY <1>24 DEF DapFree, DeleteRings
<1>25. CASE DapFreeNull
  BY <1>25 DEF DapFreeNull, ForgetRings
<1>26. CASE DapSignal
  BY <1>26 DEF DapSignal
<1>27. CASE DapMalloc
  BY <1>27 DEF DapMalloc
<1>28. CASE DapNoSignal
  BY <1>28 DEF DapNoSignal
<1>29. CASE DapTake
  BY <1>29 DEF DapTake, NotifyTake
<1>30. CASE DapReceive
  BY <1>30 DEF DapReceive
<1>31. CASE DapReceiveNothing
  BY <1>31 DEF DapReceiveNothing
<1>32. CASE DapProcess
  BY <1>32 DEF DapProcess
<1>33. CASE DapSend
  BY <1>33 DEF DapSend, RoomOUT
<1>34. CASE DapBlock
  BY <1>34 DEF DapBlock, RoomOUT
<1>35. CASE DapCount
  BY <1>35 DEF DapCount
<1>36. CASE DapCrash
  BY <1>36 DEF DapCrash, Crash
<1>37. CASE UNCHANGED vars
  BY <1>37
<1> QED
  BY <1>1, <1>2, <1>3, <1>4, <1>5, <1>6, <1>7, <1>8, <1>9, <1>10, <1>11, <1>12, <1>13,
     <1>14, <1>15, <1>16, <1>17, <1>18, <1>19, <1>20, <1>21, <1>22, <1>23, <1>24,
     <1>25, <1>26, <1>27, <1>28, <1>29, <1>30, <1>31, <1>32, <1>33, <1>34, <1>35,
     <1>36, <1>37
     DEF Next, TcpStep, Peer, DapStep

(* No wake-up is lost.                                                     *)
LEMMA WakeupStep == IInv /\ [Next]_vars => NoLostWakeup'
<1> SUFFICES ASSUME IInv, [Next]_vars PROVE NoLostWakeup'
  OBVIOUS
<1> USE DEF IInv, TypeOK, NoLostWakeup, HandleInv, Giving, Taken, vars, tcpVars,
          ringVars, hist
<1>1. ASSUME NEW k \in Kind \ {"none"}, Accept(k) PROVE NoLostWakeup'
  BY <1>1 DEF Accept, AtRest, Kind
<1>2. CASE CleanupFlag
  BY <1>2 DEF CleanupFlag
<1>3. CASE CleanupNotify
  BY <1>3 DEF CleanupNotify, GiveNotification
<1>4. CASE RequestSend
  <2>1. tcp # "in_notify" /\ tcp' = "in_notify" /\ UNCHANGED <<dap, notify, dap_dataOUT>>
    BY <1>4 DEF RequestSend
  <2>2. Len(ringIN') = Len(ringIN) + 1
    BY <1>4 DEF RequestSend
  <2> QED
    BY <2>1, <2>2
<1>5. CASE RequestBlock
  BY <1>5 DEF RequestBlock, RoomIN
<1>6. CASE RequestNotify
  BY <1>6 DEF RequestNotify, GiveNotification
<1>7. CASE ReplyReceive
  BY <1>7 DEF ReplyReceive
<1>8. CASE ReplyBlock
  BY <1>8 DEF ReplyBlock
<1>9. CASE CountDown
  BY <1>9 DEF CountDown
<1>10. CASE ReplyDone
  BY <1>10 DEF ReplyDone
<1>11. CASE UnlinkReceive
  BY <1>11 DEF UnlinkReceive
<1>12. CASE UnlinkWait
  BY <1>12 DEF UnlinkWait
<1>13. CASE UnlinkDone
  BY <1>13 DEF UnlinkDone
<1>14. CASE TcpCrash
  BY <1>14 DEF TcpCrash, Crash
<1>15. CASE ElFlag
  BY <1>15 DEF ElFlag
<1>16. CASE TcpFree
  BY <1>16 DEF TcpFree, DeleteRings
<1>17. CASE TcpFreeNull
  BY <1>17 DEF TcpFreeNull, ForgetRings
<1>18. CASE Leave
  BY <1>18 DEF Leave
<1>19. CASE UrbOut
  BY <1>19 DEF UrbOut
<1>20. CASE UrbIn
  BY <1>20 DEF UrbIn
<1>21. CASE Unlink
  BY <1>21 DEF Unlink
<1>22. CASE Execute
  BY <1>22 DEF Execute
<1>23. CASE DapCheck
  BY <1>23 DEF DapCheck
<1>24. CASE DapFree
  BY <1>24 DEF DapFree, DeleteRings
<1>25. CASE DapFreeNull
  BY <1>25 DEF DapFreeNull, ForgetRings
<1>26. CASE DapSignal
  BY <1>26 DEF DapSignal
<1>27. CASE DapMalloc
  BY <1>27 DEF DapMalloc
<1>28. CASE DapNoSignal
  BY <1>28 DEF DapNoSignal
<1>29. CASE DapTake
  <2>1. notify' = notify - 1 /\ dap = "wait" /\ UNCHANGED <<tcp, ringIN, dap_dataIN, dap_dataOUT>>
    BY <1>29 DEF DapTake, NotifyTake
  <2>2. CASE "null" \in {dap_dataIN, dap_dataOUT}
    <3>1. dap_dataOUT' # "null" => ringIN' = <<>>
      BY <2>1, <2>2
    <3>2. dap_dataOUT' # "null" => Len(ringIN') = 0
      BY <3>1
    <3>3. notify' \in Nat
      BY <1>29, <2>1 DEF DapTake
    <3>4. Giving' \in Nat /\ Taken' \in Nat
      OBVIOUS
    <3> HIDE DEF Giving, Taken, IInv, TypeOK, HandleInv
    <3>5. \A a, b, c \in Nat : a + b + c >= 0
      OBVIOUS
    <3>6. notify' + Giving' + Taken' >= 0
      BY <3>3, <3>4, <3>5
    <3> QED
      BY <3>2, <3>6
  <2>3. CASE "null" \notin {dap_dataIN, dap_dataOUT}
    <3>1. dap' = "rx"
      BY <1>29, <2>3 DEF DapTake
    <3> QED
      BY <2>1, <3>1
  <2> QED
    BY <2>2, <2>3
<1>30. CASE DapReceive
  BY <1>30 DEF DapReceive
<1>31. CASE DapReceiveNothing
  BY <1>31 DEF DapReceiveNothing
<1>32. CASE DapProcess
  BY <1>32 DEF DapProcess
<1>33. CASE DapSend
  BY <1>33 DEF DapSend, RoomOUT
<1>34. CASE DapBlock
  BY <1>34 DEF DapBlock, RoomOUT
<1>35. CASE DapCount
  BY <1>35 DEF DapCount
<1>36. CASE DapCrash
  BY <1>36 DEF DapCrash, Crash
<1>37. CASE UNCHANGED vars
  BY <1>37
<1> QED
  BY <1>1, <1>2, <1>3, <1>4, <1>5, <1>6, <1>7, <1>8, <1>9, <1>10, <1>11, <1>12, <1>13,
     <1>14, <1>15, <1>16, <1>17, <1>18, <1>19, <1>20, <1>21, <1>22, <1>23, <1>24,
     <1>25, <1>26, <1>27, <1>28, <1>29, <1>30, <1>31, <1>32, <1>33, <1>34, <1>35,
     <1>36, <1>37
     DEF Next, TcpStep, Peer, DapStep

(* dap_respond covers dap_dataOUT.                                         *)
LEMMA RespondStep == IInv /\ [Next]_vars => RespondCoversRing'
<1> SUFFICES ASSUME IInv, [Next]_vars PROVE RespondCoversRing'
  OBVIOUS
<1> USE DEF IInv, TypeOK, RespondCoversRing, Counted, Uncounted, vars, tcpVars,
          ringVars, hist
<1>1. ASSUME NEW k \in Kind \ {"none"}, Accept(k) PROVE RespondCoversRing'
  BY <1>1 DEF Accept, AtRest, Kind
<1>2. CASE CleanupFlag
  BY <1>2 DEF CleanupFlag
<1>3. CASE CleanupNotify
  BY <1>3 DEF CleanupNotify, GiveNotification
<1>4. CASE RequestSend
  BY <1>4 DEF RequestSend, RoomIN
<1>5. CASE RequestBlock
  BY <1>5 DEF RequestBlock, RoomIN
<1>6. CASE RequestNotify
  BY <1>6 DEF RequestNotify, GiveNotification
<1>7. CASE ReplyReceive
  BY <1>7 DEF ReplyReceive
<1>8. CASE ReplyBlock
  BY <1>8 DEF ReplyBlock
<1>9. CASE CountDown
  BY <1>9 DEF CountDown
<1>10. CASE ReplyDone
  BY <1>10 DEF ReplyDone
<1>11. CASE UnlinkReceive
  BY <1>11 DEF UnlinkReceive
<1>12. CASE UnlinkWait
  BY <1>12 DEF UnlinkWait
<1>13. CASE UnlinkDone
  BY <1>13 DEF UnlinkDone
<1>14. CASE TcpCrash
  BY <1>14 DEF TcpCrash, Crash
<1>15. CASE ElFlag
  BY <1>15 DEF ElFlag
<1>16. CASE TcpFree
  BY <1>16 DEF TcpFree, DeleteRings
<1>17. CASE TcpFreeNull
  BY <1>17 DEF TcpFreeNull, ForgetRings
<1>18. CASE Leave
  BY <1>18 DEF Leave
<1>19. CASE UrbOut
  BY <1>19 DEF UrbOut
<1>20. CASE UrbIn
  BY <1>20 DEF UrbIn
<1>21. CASE Unlink
  BY <1>21 DEF Unlink
<1>22. CASE Execute
  BY <1>22 DEF Execute
<1>23. CASE DapCheck
  BY <1>23 DEF DapCheck
<1>24. CASE DapFree
  BY <1>24 DEF DapFree, DeleteRings
<1>25. CASE DapFreeNull
  BY <1>25 DEF DapFreeNull, ForgetRings
<1>26. CASE DapSignal
  BY <1>26 DEF DapSignal
<1>27. CASE DapMalloc
  BY <1>27 DEF DapMalloc
<1>28. CASE DapNoSignal
  BY <1>28 DEF DapNoSignal
<1>29. CASE DapTake
  BY <1>29 DEF DapTake, NotifyTake
<1>30. CASE DapReceive
  BY <1>30 DEF DapReceive
<1>31. CASE DapReceiveNothing
  BY <1>31 DEF DapReceiveNothing
<1>32. CASE DapProcess
  BY <1>32 DEF DapProcess
<1>33. CASE DapSend
  BY <1>33 DEF DapSend, RoomOUT
<1>34. CASE DapBlock
  BY <1>34 DEF DapBlock, RoomOUT
<1>35. CASE DapCount
  BY <1>35 DEF DapCount
<1>36. CASE DapCrash
  BY <1>36 DEF DapCrash, Crash
<1>37. CASE UNCHANGED vars
  BY <1>37
<1> QED
  BY <1>1, <1>2, <1>3, <1>4, <1>5, <1>6, <1>7, <1>8, <1>9, <1>10, <1>11, <1>12, <1>13,
     <1>14, <1>15, <1>16, <1>17, <1>18, <1>19, <1>20, <1>21, <1>22, <1>23, <1>24,
     <1>25, <1>26, <1>27, <1>28, <1>29, <1>30, <1>31, <1>32, <1>33, <1>34, <1>35,
     <1>36, <1>37
     DEF Next, TcpStep, Peer, DapStep

(* A served clean connection sees no restart.                              *)
LEMMA ServingStep == IInv /\ [Next]_vars => ServingInv'
<1> SUFFICES ASSUME IInv, [Next]_vars PROVE ServingInv'
  OBVIOUS
<1> USE DEF IInv, TypeOK, ServingInv, Serving, MuxInv, TcpAt, vars, tcpVars, ringVars,
          hist
<1>1. ASSUME NEW k \in Kind \ {"none"}, Accept(k) PROVE ServingInv'
  BY <1>1 DEF Accept, AtRest, Kind
<1>2. CASE CleanupFlag
  BY <1>2 DEF CleanupFlag
<1>3. CASE CleanupNotify
  BY <1>3 DEF CleanupNotify, GiveNotification
<1>4. CASE RequestSend
  BY <1>4 DEF RequestSend, RoomIN
<1>5. CASE RequestBlock
  BY <1>5 DEF RequestBlock, RoomIN
<1>6. CASE RequestNotify
  BY <1>6 DEF RequestNotify, GiveNotification
<1>7. CASE ReplyReceive
  BY <1>7 DEF ReplyReceive
<1>8. CASE ReplyBlock
  BY <1>8 DEF ReplyBlock
<1>9. CASE CountDown
  BY <1>9 DEF CountDown
<1>10. CASE ReplyDone
  BY <1>10 DEF ReplyDone
<1>11. CASE UnlinkReceive
  BY <1>11 DEF UnlinkReceive
<1>12. CASE UnlinkWait
  BY <1>12 DEF UnlinkWait
<1>13. CASE UnlinkDone
  BY <1>13 DEF UnlinkDone
<1>14. CASE TcpCrash
  BY <1>14 DEF TcpCrash, Crash
<1>15. CASE ElFlag
  BY <1>15 DEF ElFlag
<1>16. CASE TcpFree
  BY <1>16 DEF TcpFree, DeleteRings
<1>17. CASE TcpFreeNull
  BY <1>17 DEF TcpFreeNull, ForgetRings
<1>18. CASE Leave
  BY <1>18 DEF Leave
<1>19. CASE UrbOut
  BY <1>19 DEF UrbOut
<1>20. CASE UrbIn
  BY <1>20 DEF UrbIn
<1>21. CASE Unlink
  BY <1>21 DEF Unlink
<1>22. CASE Execute
  BY <1>22 DEF Execute
<1>23. CASE DapCheck
  BY <1>23 DEF DapCheck
<1>24. CASE DapFree
  BY <1>24 DEF DapFree, DeleteRings
<1>25. CASE DapFreeNull
  BY <1>25 DEF DapFreeNull, ForgetRings
<1>26. CASE DapSignal
  BY <1>26 DEF DapSignal
<1>27. CASE DapMalloc
  BY <1>27 DEF DapMalloc
<1>28. CASE DapNoSignal
  BY <1>28 DEF DapNoSignal
<1>29. CASE DapTake
  BY <1>29 DEF DapTake, NotifyTake
<1>30. CASE DapReceive
  BY <1>30 DEF DapReceive
<1>31. CASE DapReceiveNothing
  BY <1>31 DEF DapReceiveNothing
<1>32. CASE DapProcess
  BY <1>32 DEF DapProcess
<1>33. CASE DapSend
  BY <1>33 DEF DapSend, RoomOUT
<1>34. CASE DapBlock
  BY <1>34 DEF DapBlock, RoomOUT
<1>35. CASE DapCount
  BY <1>35 DEF DapCount
<1>36. CASE DapCrash
  BY <1>36 DEF DapCrash, Crash
<1>37. CASE UNCHANGED vars
  BY <1>37
<1> QED
  BY <1>1, <1>2, <1>3, <1>4, <1>5, <1>6, <1>7, <1>8, <1>9, <1>10, <1>11, <1>12, <1>13,
     <1>14, <1>15, <1>16, <1>17, <1>18, <1>19, <1>20, <1>21, <1>22, <1>23, <1>24,
     <1>25, <1>26, <1>27, <1>28, <1>29, <1>30, <1>31, <1>32, <1>33, <1>34, <1>35,
     <1>36, <1>37
     DEF Next, TcpStep, Peer, DapStep

(* Every command is somewhere.                                             *)
LEMMA NothingLostStep == IInv /\ [Next]_vars => NothingLost'
<1> SUFFICES ASSUME IInv, [Next]_vars PROVE NothingLost'
  OBVIOUS
<1> USE DEF IInv, TypeOK, ServingInv, Serving, NothingLost, WithTcp, WithDap,
          Replying, vars, tcpVars, ringVars, hist
<1>1. ASSUME NEW k \in Kind \ {"none"}, Accept(k) PROVE NothingLost'
  <2>1. Serving' => AtRest
    BY <1>1 DEF Accept
  <2>2. AtRest => Len(ringOUT') = 0 /\ Len(ringIN') = 0 /\ WithDap' = 0
    BY <1>1 DEF Accept, AtRest
  <2>3. /\ Len(got') = 0 /\ dropped' = 0 /\ sent' = 0 /\ dap_req_num' = 0
        /\ WithTcp' = 0 /\ Replying' = 0
    BY <1>1 DEF Accept, Kind
  <2> HIDE DEF WithTcp, WithDap, Replying
  <2> QED
    BY <2>1, <2>2, <2>3
<1>2. CASE CleanupFlag
  BY <1>2 DEF CleanupFlag
<1>3. CASE CleanupNotify
  BY <1>3 DEF CleanupNotify, GiveNotification
<1>4. CASE RequestSend
  <2>1. Serving' => Serving
    BY <1>4 DEF RequestSend
  <2>2. Len(ringIN') = Len(ringIN) + 1 /\ WithTcp = 1 /\ WithTcp' = 0 /\ WithDap' = WithDap
    BY <1>4 DEF RequestSend
  <2>3. UNCHANGED <<ringOUT, got, dropped, sent, dap_req_num>>
    BY <1>4 DEF RequestSend
  <2>4. Replying = 0 /\ Replying' = 0 /\ WithDap \in {0, 1}
    BY <1>4 DEF RequestSend
  <2>5. Len(ringIN) \in Nat /\ Len(ringOUT) \in Nat /\ Len(got) \in Nat /\ dropped \in Nat
    OBVIOUS
  <2>6. NothingLost
    OBVIOUS
  <2> HIDE DEF WithTcp, WithDap, Replying, IInv, TypeOK, ServingInv, Serving
  <2> QED
    BY <2>1, <2>2, <2>3, <2>4, <2>5, <2>6
<1>5. CASE RequestBlock
  BY <1>5 DEF RequestBlock, RoomIN
<1>6. CASE RequestNotify
  BY <1>6 DEF RequestNotify, GiveNotification
<1>7. CASE ReplyReceive
  <2>1. Serving' => Serving
    BY <1>7 DEF ReplyReceive
  <2>2. Len(ringOUT') = Len(ringOUT) - 1 /\ Len(got') = Len(got) + 1
    BY <1>7 DEF ReplyReceive
  <2>3. WithTcp = 0 /\ WithTcp' = 0 /\ WithDap' = WithDap
    BY <1>7 DEF ReplyReceive
  <2>4. UNCHANGED <<ringIN, dropped, sent, dap_req_num>>
    BY <1>7 DEF ReplyReceive
  <2>5. Replying = 0 /\ Replying' = 1
    BY <1>7 DEF ReplyReceive
  <2> HIDE DEF WithTcp, WithDap, Replying
  <2> QED
    BY <2>1, <2>2, <2>3, <2>4, <2>5
<1>8. CASE ReplyBlock
  BY <1>8 DEF ReplyBlock
<1>9. CASE CountDown
  BY <1>9 DEF CountDown
<1>10. CASE ReplyDone
  BY <1>10 DEF ReplyDone
<1>11. CASE UnlinkReceive
  <2>1. Serving' => Serving
    BY <1>11 DEF UnlinkReceive
  <2>2. Len(ringOUT') = Len(ringOUT) - 1 /\ dropped' = dropped + 1
    BY <1>11 DEF UnlinkReceive
  <2>3. WithTcp = 0 /\ WithTcp' = 0 /\ WithDap' = WithDap
    BY <1>11 DEF UnlinkReceive
  <2>4. UNCHANGED <<ringIN, got, sent, dap_req_num>>
    BY <1>11 DEF UnlinkReceive
  <2>5. Replying' = Replying
    BY <1>11 DEF UnlinkReceive
  <2> HIDE DEF WithTcp, WithDap, Replying
  <2> QED
    BY <2>1, <2>2, <2>3, <2>4, <2>5
<1>12. CASE UnlinkWait
  BY <1>12 DEF UnlinkWait
<1>13. CASE UnlinkDone
  BY <1>13 DEF UnlinkDone
<1>14. CASE TcpCrash
  BY <1>14 DEF TcpCrash, Crash
<1>15. CASE ElFlag
  BY <1>15 DEF ElFlag
<1>16. CASE TcpFree
  BY <1>16 DEF TcpFree, DeleteRings
<1>17. CASE TcpFreeNull
  BY <1>17 DEF TcpFreeNull, ForgetRings
<1>18. CASE Leave
  BY <1>18 DEF Leave
<1>19. CASE UrbOut
  <2>1. Serving' => Serving
    BY <1>19 DEF UrbOut
  <2>2. WithTcp = 0 /\ WithTcp' = 1 /\ WithDap' = WithDap /\ Replying = 0 /\ Replying' = 0
    BY <1>19 DEF UrbOut
  <2>3. UNCHANGED <<ringIN, ringOUT, got, dropped>>
    BY <1>19 DEF UrbOut
  <2>4. sent' = sent + 1 /\ dap_req_num' = dap_req_num + 1
    BY <1>19 DEF UrbOut
  <2>5. /\ Len(ringIN) \in Nat /\ Len(ringOUT) \in Nat /\ Len(got) \in Nat
        /\ dropped \in Nat /\ dap_req_num \in Nat /\ WithDap \in {0, 1}
    OBVIOUS
  <2>6. NothingLost
    OBVIOUS
  <2> HIDE DEF WithTcp, WithDap, Replying, IInv, TypeOK, ServingInv, Serving
  <2> QED
    BY <2>1, <2>2, <2>3, <2>4, <2>5, <2>6
<1>20. CASE UrbIn
  BY <1>20 DEF UrbIn
<1>21. CASE Unlink
  BY <1>21 DEF Unlink
<1>22. CASE Execute
  BY <1>22 DEF Execute
<1>23. CASE DapCheck
  BY <1>23 DEF DapCheck
<1>24. CASE DapFree
  BY <1>24 DEF DapFree, DeleteRings
<1>25. CASE DapFreeNull
  BY <1>25 DEF DapFreeNull, ForgetRings
<1>26. CASE DapSignal
  BY <1>26 DEF DapSignal
<1>27. CASE DapMalloc
  BY <1>27 DEF DapMalloc
<1>28. CASE DapNoSignal
  BY <1>28 DEF DapNoSignal
<1>29. CASE DapTake
  BY <1>29 DEF DapTake, NotifyTake
<1>30. CASE DapReceive
  BY <1>30 DEF DapReceive
<1>31. CASE DapReceiveNothing
  BY <1>31 DEF DapReceiveNothing
<1>32. CASE DapProcess
  BY <1>32 DEF DapProcess
<1>33. CASE DapSend
  <2>1. Serving' => Serving
    BY <1>33 DEF DapSend
  <2>2. Len(ringOUT') = Len(ringOUT) + 1 /\ WithDap = 1 /\ WithDap' = 0 /\ WithTcp' = WithTcp
    BY <1>33 DEF DapSend
  <2>3. UNCHANGED <<ringIN, got, dropped, sent, dap_req_num, tcp>>
    BY <1>33 DEF DapSend
  <2> QED
    BY <2>1, <2>2, <2>3
<1>34. CASE DapBlock
  BY <1>34 DEF DapBlock, RoomOUT
<1>35. CASE DapCount
  BY <1>35 DEF DapCount
<1>36. CASE DapCrash
  BY <1>36 DEF DapCrash, Crash
<1>37. CASE UNCHANGED vars
  BY <1>37
<1> QED
  BY <1>1, <1>2, <1>3, <1>4, <1>5, <1>6, <1>7, <1>8, <1>9, <1>10, <1>11, <1>12, <1>13,
     <1>14, <1>15, <1>16, <1>17, <1>18, <1>19, <1>20, <1>21, <1>22, <1>23, <1>24,
     <1>25, <1>26, <1>27, <1>28, <1>29, <1>30, <1>31, <1>32, <1>33, <1>34, <1>35,
     <1>36, <1>37
     DEF Next, TcpStep, Peer, DapStep

(* A clean connection and the restart after it.                            *)
LEMMA CleanStep == IInv /\ [Next]_vars => (FreedInv /\ CleanInv)'
<1> SUFFICES ASSUME IInv, [Next]_vars PROVE (FreedInv /\ CleanInv)'
  OBVIOUS
<1> USE DEF IInv, TypeOK, MuxInv, HandleInv, ServingInv, Serving, FreedInv, CleanInv,
          Asleep, Running, Restarting, Restarted, BothLive, BothEmpty, AtWork, DapAt,
          TcpAt, Handle, Signal, vars, tcpVars, ringVars, hist
<1>1. ASSUME NEW k \in Kind \ {"none"}, Accept(k) PROVE (FreedInv /\ CleanInv)'
  BY <1>1 DEF Accept, AtRest, Kind
<1>2. CASE CleanupFlag
  BY <1>2 DEF CleanupFlag
<1>3. CASE CleanupNotify
  BY <1>3 DEF CleanupNotify, GiveNotification
<1>4. CASE RequestSend
  BY <1>4 DEF RequestSend, RoomIN
<1>5. CASE RequestBlock
  BY <1>5 DEF RequestBlock, RoomIN
<1>6. CASE RequestNotify
  BY <1>6 DEF RequestNotify, GiveNotification
<1>7. CASE ReplyReceive
  BY <1>7 DEF ReplyReceive
<1>8. CASE ReplyBlock
  BY <1>8 DEF ReplyBlock
<1>9. CASE CountDown
  BY <1>9 DEF CountDown
<1>10. CASE ReplyDone
  BY <1>10 DEF ReplyDone
<1>11. CASE UnlinkReceive
  BY <1>11 DEF UnlinkReceive
<1>12. CASE UnlinkWait
  BY <1>12 DEF UnlinkWait
<1>13. CASE UnlinkDone
  BY <1>13 DEF UnlinkDone
<1>14. CASE TcpCrash
  BY <1>14 DEF TcpCrash, Crash
<1>15. CASE ElFlag
  BY <1>15 DEF ElFlag
<1>16. CASE TcpFree
  BY <1>16 DEF TcpFree, DeleteRings
<1>17. CASE TcpFreeNull
  BY <1>17 DEF TcpFreeNull, ForgetRings
<1>18. CASE Leave
  BY <1>18 DEF Leave
<1>19. CASE UrbOut
  BY <1>19 DEF UrbOut
<1>20. CASE UrbIn
  BY <1>20 DEF UrbIn
<1>21. CASE Unlink
  BY <1>21 DEF Unlink
<1>22. CASE Execute
  BY <1>22 DEF Execute
<1>23. CASE DapCheck
  BY <1>23 DEF DapCheck
<1>24. CASE DapFree
  BY <1>24 DEF DapFree, DeleteRings
<1>25. CASE DapFreeNull
  BY <1>25 DEF DapFreeNull, ForgetRings
<1>26. CASE DapSignal
  BY <1>26 DEF DapSignal
<1>27. CASE DapMalloc
  BY <1>27 DEF DapMalloc
<1>28. CASE DapNoSignal
  BY <1>28 DEF DapNoSignal
<1>29. CASE DapTake
  BY <1>29 DEF DapTake, NotifyTake
<1>30. CASE DapReceive
  BY <1>30 DEF DapReceive
<1>31. CASE DapReceiveNothing
  BY <1>31 DEF DapReceiveNothing
<1>32. CASE DapProcess
  BY <1>32 DEF DapProcess
<1>33. CASE DapSend
  BY <1>33 DEF DapSend, RoomOUT
<1>34. CASE DapBlock
  BY <1>34 DEF DapBlock, RoomOUT
<1>35. CASE DapCount
  BY <1>35 DEF DapCount
<1>36. CASE DapCrash
  BY <1>36 DEF DapCrash, Crash
<1>37. CASE UNCHANGED vars
  BY <1>37
<1> QED
  BY <1>1, <1>2, <1>3, <1>4, <1>5, <1>6, <1>7, <1>8, <1>9, <1>10, <1>11, <1>12, <1>13,
     <1>14, <1>15, <1>16, <1>17, <1>18, <1>19, <1>20, <1>21, <1>22, <1>23, <1>24,
     <1>25, <1>26, <1>27, <1>28, <1>29, <1>30, <1>31, <1>32, <1>33, <1>34, <1>35,
     <1>36, <1>37
     DEF Next, TcpStep, Peer, DapStep

-----------------------------------------------------------------------------

(* IInv is inductive: no interleaving of the two tasks and the peer leaves *)
(* it.                                                                     *)
THEOREM Invariance == Spec => []IInv
<1>1. IInv /\ [Next]_vars => IInv'
  BY TypeStep, HandleStep, WakeupStep, RespondStep, ServingStep, NothingLostStep,
     CleanStep DEF IInv
<1> QED
  BY InitInv, <1>1, PTL DEF Spec

(* Type correctness: whatever the peers do, both rings stay within         *)
(* DAP_BUFFER_NUM packets and usbip_urb_process never counts dap_req_num   *)
(* below zero.                                                             *)
THEOREM TypeCorrect == Spec => []TypeOK
<1>1. IInv => TypeOK
  BY DEF IInv
<1> QED
  BY Invariance, <1>1, PTL

(* handle_dap_data_request and DAP_Thread never lose a wake-up: a packet   *)
(* in dap_dataIN always has a notification of its own.                     *)
THEOREM WakeupsKept == Spec => []NoLostWakeup
<1>1. IInv => NoLostWakeup
  BY DEF IInv
<1> QED
  BY Invariance, <1>1, PTL

(* dap_respond is never below what waits in dap_dataOUT, apart from the    *)
(* one response DAP_Thread is about to count, across every restart.        *)
THEOREM RespondCovers == Spec => []RespondCoversRing
<1>1. IInv => RespondCoversRing
  BY DEF IInv
<1> QED
  BY Invariance, <1>1, PTL

(* A USBIP connection that found DAP_Thread at rest loses and duplicates   *)
(* no command while it is served, for every ring size.                     *)
THEOREM CommandsKept == Spec => []NothingLost
<1>1. IInv => NothingLost
  BY DEF IInv
<1> QED
  BY Invariance, <1>1, PTL

(* The two tasks cannot block each other in such a connection before the   *)
(* host has 2 * DAP_BUFFER_NUM + 2 commands without an answer.             *)
THEOREM NoWedgeBelowOverload == Spec => []WedgeNeedsOverload
<1>1. IInv => WedgeNeedsOverload
  <2> SUFFICES ASSUME IInv, Serving, Wedged
               PROVE  sent - Len(got) >= 2 * BufferNum + 2
    BY DEF WedgeNeedsOverload
  <2>1. WithTcp = 1 /\ WithDap = 1 /\ HeldIN = 0 /\ HeldOUT = 0
    BY DEF Wedged, WithTcp, WithDap, HeldIN, HeldOUT
  <2>2. /\ ~(Len(ringIN) + HeldIN < BufferNum)
        /\ ~(Len(ringOUT) + HeldOUT < BufferNum)
    BY DEF Wedged, RoomIN, RoomOUT
  <2>3. /\ Len(ringIN) \in Nat /\ Len(ringOUT) \in Nat /\ Len(got) \in Nat
        /\ dropped \in Nat /\ BufferNum \in Nat
    BY DapPipelineAssumption DEF IInv, TypeOK
  <2>4. sent = Len(got) + dropped + Len(ringOUT) + WithDap + Len(ringIN) + WithTcp
    BY DEF IInv, NothingLost
  <2>5. Len(ringIN) >= BufferNum /\ Len(ringOUT) >= BufferNum
    BY <2>1, <2>2, <2>3
  <2> QED
    BY <2>1, <2>3, <2>4, <2>5
<1> QED
  BY Invariance, <1>1, PTL

(* A connection that found DAP_Thread at rest never makes a task use a     *)
(* deleted ring or wait on one, whatever its protocol and however it ends, *)
(* until the next connection comes.                                        *)
THEOREM CleanIsSafe == Spec => []CleanConnectionIsSafe
<1>1. IInv => CleanConnectionIsSafe
  BY DEF IInv, CleanInv, ServingInv, CleanConnectionIsSafe, Asleep, Running, Restarting,
         Restarted, AtWork
<1> QED
  BY Invariance, <1>1, PTL

(* Once DAP_Thread has taken every notification after such a connection,   *)
(* it has restarted: no RESET_HANDLE is left behind unseen.                *)
THEOREM CleanRestarts == Spec => []CleanConnectionRestarts
<1>1. IInv => CleanConnectionRestarts
  <2> SUFFICES ASSUME IInv, clean, tcp = "accept", dap = "wait", notify = 0
               PROVE  /\ kRestartDAPHandle = "NO_SIGNAL"
                      /\ ringIN = <<>> /\ ringOUT = <<>>
                      /\ MallocMayFail \/ AtRest
    BY DEF CleanConnectionRestarts
  <2>1. Restarted
    BY DEF IInv, TypeOK, CleanInv, Serving, Restarting
  <2>2. mux = "none"
    BY DEF IInv, TypeOK, MuxInv
  <2> QED
    BY <2>1, <2>2 DEF Restarted, BothEmpty, AtRest
<1> QED
  BY Invariance, <1>1, PTL

-----------------------------------------------------------------------------
(* DapPipeline implements DapService.  Sequence facts first.               *)

(* Nothing to append.                                                      *)
LEMMA EmptyRight ==
  ASSUME NEW S, NEW s \in Seq(S) PROVE s \o <<>> = s
OBVIOUS

(* Appending is concatenating one element.                                 *)
LEMMA ConcatOne ==
  ASSUME NEW S, NEW s \in Seq(S), NEW x \in S PROVE s \o <<x>> = Append(s, x)
OBVIOUS

(* Appending to the right part appends to the whole.                       *)
LEMMA ConcatAppend ==
  ASSUME NEW S, NEW s \in Seq(S), NEW t \in Seq(S), NEW x \in S
  PROVE  s \o Append(t, x) = Append(s \o t, x)
OBVIOUS

(* The head and the tail of a concatenation are those of its left part.    *)
LEMMA ConcatHead ==
  ASSUME NEW S, NEW s \in Seq(S), NEW t \in Seq(S), s # <<>>
  PROVE  /\ s \o t # <<>>
         /\ Head(s \o t) = Head(s)
         /\ Tail(s \o t) = Tail(s) \o t
OBVIOUS

(* The head of the right part may move to the end of the left part.        *)
LEMMA HeadMoves ==
  ASSUME NEW S, NEW s \in Seq(S), NEW t \in Seq(S), t # <<>>
  PROVE  (s \o <<Head(t)>>) \o Tail(t) = s \o t
OBVIOUS

(* The numbers of an appended packet.                                      *)
LEMMA NumbersAppend ==
  ASSUME NEW s \in Seq(Packet), NEW x \in Packet
  PROVE  Numbers(Append(s, x)) = Append(Numbers(s), x[2])
BY DEF Numbers, Packet

(* Sequences with the same elements are the same.                          *)
LEMMA SameElements ==
  ASSUME NEW S, NEW s \in Seq(S), NEW t \in Seq(S), Len(s) = Len(t),
         \A i \in 1..Len(s) : s[i] = t[i]
  PROVE  s = t
OBVIOUS

(* The number of the oldest packet, and those of the others.               *)
LEMMA NumbersTail ==
  ASSUME NEW s \in Seq(Packet), s # <<>>
  PROVE  /\ Numbers(s) # <<>>
         /\ Head(Numbers(s)) = Head(s)[2]
         /\ Numbers(Tail(s)) = Tail(Numbers(s))
<1> DEFINE n == Numbers(s)
<1>1. /\ Len(s) \in Nat /\ Len(s) >= 1 /\ Head(s) = s[1]
      /\ Tail(s) \in Seq(Packet) /\ Len(Tail(s)) = Len(s) - 1
      /\ \A i \in 1..(Len(s) - 1) : Tail(s)[i] = s[i + 1]
  OBVIOUS
<1>2. \A i \in 1..Len(s) : s[i][2] \in Nat
  BY DEF Packet
<1>3. /\ n \in Seq(Nat) /\ Len(n) = Len(s)
      /\ \A i \in 1..Len(s) : n[i] = s[i][2]
  BY <1>1, <1>2 DEF Numbers
<1> HIDE DEF n
<1>4. n # <<>> /\ Head(n) = n[1]
  BY <1>1, <1>3
<1>5. /\ Tail(n) \in Seq(Nat) /\ Len(Tail(n)) = Len(s) - 1
      /\ \A i \in 1..(Len(s) - 1) : Tail(n)[i] = n[i + 1]
  BY <1>3, <1>4
<1>6. /\ Numbers(Tail(s)) \in Seq(Nat) /\ Len(Numbers(Tail(s))) = Len(s) - 1
      /\ \A i \in 1..(Len(s) - 1) : Numbers(Tail(s))[i] = s[i + 1][2]
  <2>1. \A i \in 1..(Len(s) - 1) : i + 1 \in 1..Len(s)
    BY <1>1
  <2> QED
    BY <1>1, <1>2, <2>1 DEF Numbers
<1>7. Numbers(Tail(s)) = Tail(n)
  <2>1. \A i \in 1..(Len(s) - 1) : n[i + 1] = s[i + 1][2]
    BY <1>1, <1>3
  <2>2. \A i \in 1..Len(Tail(n)) : Numbers(Tail(s))[i] = Tail(n)[i]
    BY <1>5, <1>6, <2>1
  <2> QED
    BY <1>5, <1>6, <2>2, SameElements
<1> QED
  BY <1>1, <1>3, <1>4, <1>7 DEF n

(* The commands a connection waits for are packets.                        *)
LEMMA PendingType ==
  ASSUME TypeOK PROVE Pending \in Seq(Packet)
<1>1. <<session, sent>> \in Packet /\ resp \in Packet
  BY DEF TypeOK, Packet
<1>2. /\ (IF WithDap = 1 THEN <<resp>> ELSE <<>>) \in Seq(Packet)
      /\ (IF WithTcp = 1 THEN <<<<session, sent>>>> ELSE <<>>) \in Seq(Packet)
  BY <1>1
<1>3. ringIN \in Seq(Packet) /\ ringOUT \in Seq(Packet)
  BY DEF TypeOK
<1> QED
  BY <1>2, <1>3 DEF Pending

(* A submitted command is the newest of them.                              *)
LEMMA SubmitAppends ==
  ASSUME TypeOK, UrbOut
  PROVE  Pending' = Append(Pending, <<session, sent + 1>>)
<1> DEFINE a == (ringOUT \o (IF WithDap = 1 THEN <<resp>> ELSE <<>>)) \o ringIN
<1>1. UNCHANGED <<ringIN, ringOUT, resp, session, dap>> /\ sent' = sent + 1
  BY DEF UrbOut, ringVars
<1>2. WithDap' = WithDap /\ WithTcp = 0 /\ WithTcp' = 1
  BY <1>1 DEF UrbOut, WithDap, WithTcp
<1>3. Pending = a \o <<>> /\ Pending' = a \o <<<<session, sent + 1>>>>
  BY <1>1, <1>2 DEF Pending
<1>4. a \in Seq(Packet)
  BY DEF TypeOK
<1>5. <<session, sent + 1>> \in Packet
  BY DEF TypeOK, Packet
<1> HIDE DEF a
<1> QED
  BY <1>3, <1>4, <1>5, EmptyRight, ConcatOne

(* A response that fast_reply or UNLINK takes out is the oldest.           *)
LEMMA OldestLeaves ==
  ASSUME TypeOK, ReplyReceive \/ UnlinkReceive
  PROVE  /\ Pending # <<>> /\ Head(Pending) = Head(ringOUT)
         /\ Pending' = Tail(Pending)
<1> DEFINE b == IF WithDap = 1 THEN <<resp>> ELSE <<>>
           d == IF WithTcp = 1 THEN <<<<session, sent>>>> ELSE <<>>
<1>1. /\ UNCHANGED <<ringIN, resp, session, sent, dap>>
      /\ ringOUT # <<>> /\ ringOUT' = Tail(ringOUT)
  BY DEF ReplyReceive, UnlinkReceive
<1>2. WithDap' = WithDap /\ WithTcp = 0 /\ WithTcp' = 0
  BY <1>1 DEF ReplyReceive, UnlinkReceive, WithDap, WithTcp
<1>3. /\ Pending = ((ringOUT \o b) \o ringIN) \o d
      /\ Pending' = ((Tail(ringOUT) \o b) \o ringIN) \o d
  BY <1>1, <1>2 DEF Pending
<1>4. b \in Seq(Packet) /\ ringIN \in Seq(Packet) /\ ringOUT \in Seq(Packet)
  BY DEF TypeOK
<1>5. d \in Seq(Packet)
  BY <1>2
<1> DEFINE e == ringOUT \o b
           f == e \o ringIN
<1> HIDE DEF b, d
<1>6. e # <<>> /\ Head(e) = Head(ringOUT) /\ Tail(e) = Tail(ringOUT) \o b /\ e \in Seq(Packet)
  BY <1>1, <1>4, ConcatHead
<1> HIDE DEF e
<1>7. f # <<>> /\ Head(f) = Head(e) /\ Tail(f) = Tail(e) \o ringIN /\ f \in Seq(Packet)
  BY <1>4, <1>6, ConcatHead
<1>8. Pending = f \o d /\ Pending' = Tail(f) \o d
  BY <1>3, <1>6, <1>7 DEF e
<1> HIDE DEF f
<1>9. f \o d # <<>> /\ Head(f \o d) = Head(f) /\ Tail(f \o d) = Tail(f) \o d
  BY <1>5, <1>7, ConcatHead
<1> QED
  BY <1>6, <1>7, <1>8, <1>9

(* A packet that moves on, into a ring or out of it, keeps its place.      *)
LEMMA MovesKeep ==
  ASSUME TypeOK, RequestSend \/ DapReceive \/ DapSend
  PROVE  Pending' = Pending
<1> DEFINE b == IF WithDap = 1 THEN <<resp>> ELSE <<>>
           d == IF WithTcp = 1 THEN <<<<session, sent>>>> ELSE <<>>
<1>1. /\ ringIN \in Seq(Packet) /\ ringOUT \in Seq(Packet) /\ resp \in Packet
      /\ <<session, sent>> \in Packet
  BY DEF TypeOK, Packet
<1>2. b \in Seq(Packet) /\ d \in Seq(Packet)
  BY <1>1
<1>3. CASE RequestSend
  <2> DEFINE a == ringOUT \o b
  <2>1. /\ WithDap' = WithDap /\ WithTcp = 1 /\ WithTcp' = 0
        /\ UNCHANGED <<ringOUT, resp>> /\ ringIN' = Append(ringIN, <<session, sent>>)
    BY <1>3 DEF RequestSend, WithDap, WithTcp
  <2>2. /\ Pending = (a \o ringIN) \o <<<<session, sent>>>>
        /\ Pending' = (a \o Append(ringIN, <<session, sent>>)) \o <<>>
    BY <2>1 DEF Pending
  <2>3. a \in Seq(Packet)
    BY <1>1, <1>2
  <2> HIDE DEF a
  <2>4. a \o ringIN \in Seq(Packet) /\ Append(a \o ringIN, <<session, sent>>) \in Seq(Packet)
    BY <1>1, <2>3
  <2>5. a \o Append(ringIN, <<session, sent>>) = Append(a \o ringIN, <<session, sent>>)
    BY <1>1, <2>3, ConcatAppend
  <2> QED
    BY <1>1, <2>2, <2>4, <2>5, EmptyRight, ConcatOne
<1>4. CASE DapReceive
  <2>1. /\ WithDap = 0 /\ WithDap' = 1 /\ WithTcp' = WithTcp /\ ringIN # <<>>
        /\ UNCHANGED <<ringOUT, session, sent>>
        /\ resp' = Head(ringIN) /\ ringIN' = Tail(ringIN)
    BY <1>4 DEF DapReceive, WithDap, WithTcp, tcpVars, hist
  <2>2. /\ Pending = ((ringOUT \o <<>>) \o ringIN) \o d
        /\ Pending' = ((ringOUT \o <<Head(ringIN)>>) \o Tail(ringIN)) \o d
    BY <2>1 DEF Pending
  <2>3. ringOUT \o <<>> = ringOUT
    BY <1>1, EmptyRight
  <2>4. (ringOUT \o <<Head(ringIN)>>) \o Tail(ringIN) = ringOUT \o ringIN
    BY <1>1, <2>1, HeadMoves
  <2> QED
    BY <2>2, <2>3, <2>4
<1>5. CASE DapSend
  <2>1. /\ WithDap = 1 /\ WithDap' = 0 /\ WithTcp' = WithTcp
        /\ UNCHANGED <<ringIN, session, sent>> /\ ringOUT' = Append(ringOUT, resp)
    BY <1>5 DEF DapSend, WithDap, WithTcp, tcpVars, hist
  <2>2. /\ Pending = ((ringOUT \o <<resp>>) \o ringIN) \o d
        /\ Pending' = ((Append(ringOUT, resp) \o <<>>) \o ringIN) \o d
    BY <2>1 DEF Pending
  <2>3. Append(ringOUT, resp) \in Seq(Packet)
    BY <1>1
  <2> QED
    BY <1>1, <2>2, <2>3, EmptyRight, ConcatOne
<1> QED
  BY <1>3, <1>4, <1>5

(* The steps that neither submit, answer nor withdraw a command, nor move  *)
(* one.                                                                    *)
Idle ==
  /\ UNCHANGED <<ringIN, ringOUT, session, sent, got>>
  /\ WithDap' = WithDap /\ WithTcp' = WithTcp /\ (WithDap = 1 => resp' = resp)

(* In a served connection every other step is one of them.                 *)
LEMMA OtherStepsIdle ==
  ASSUME IInv, [Next]_vars, Serving, Serving',
         ~UrbOut, ~ReplyReceive, ~UnlinkReceive, ~RequestSend, ~DapReceive, ~DapSend
  PROVE  Idle
<1> USE DEF Idle, IInv, ServingInv, Serving, WithDap, WithTcp, vars, tcpVars, ringVars, hist
<1>1. ASSUME NEW k \in Kind \ {"none"}, Accept(k) PROVE Idle
  BY <1>1 DEF Accept
<1>2. CASE CleanupFlag
  BY <1>2 DEF CleanupFlag
<1>3. CASE CleanupNotify
  BY <1>3 DEF CleanupNotify, GiveNotification
<1>4. CASE RequestBlock
  BY <1>4 DEF RequestBlock
<1>5. CASE RequestNotify
  BY <1>5 DEF RequestNotify, GiveNotification
<1>6. CASE ReplyBlock
  BY <1>6 DEF ReplyBlock
<1>7. CASE CountDown
  BY <1>7 DEF CountDown
<1>8. CASE ReplyDone
  BY <1>8 DEF ReplyDone
<1>9. CASE UnlinkWait
  BY <1>9 DEF UnlinkWait
<1>10. CASE UnlinkDone
  BY <1>10 DEF UnlinkDone
<1>11. CASE TcpCrash
  BY <1>11 DEF TcpCrash, Crash
<1>12. CASE ElFlag
  BY <1>12 DEF ElFlag
<1>13. CASE TcpFree
  BY <1>13 DEF TcpFree, DeleteRings
<1>14. CASE TcpFreeNull
  BY <1>14 DEF TcpFreeNull, ForgetRings
<1>15. CASE Leave
  BY <1>15 DEF Leave
<1>16. CASE UrbIn
  BY <1>16 DEF UrbIn
<1>17. CASE Unlink
  BY <1>17 DEF Unlink
<1>18. CASE Execute
  BY <1>18 DEF Execute
<1>19. CASE DapCheck
  BY <1>19 DEF DapCheck
<1>20. CASE DapFree
  BY <1>20 DEF DapFree, DeleteRings
<1>21. CASE DapFreeNull
  BY <1>21 DEF DapFreeNull, ForgetRings
<1>22. CASE DapSignal
  BY <1>22 DEF DapSignal
<1>23. CASE DapMalloc
  BY <1>23 DEF DapMalloc
<1>24. CASE DapNoSignal
  BY <1>24 DEF DapNoSignal
<1>25. CASE DapTake
  BY <1>25 DEF DapTake, NotifyTake
<1>26. CASE DapReceiveNothing
  BY <1>26 DEF DapReceiveNothing
<1>27. CASE DapProcess
  BY <1>27 DEF DapProcess
<1>28. CASE DapBlock
  BY <1>28 DEF DapBlock
<1>29. CASE DapCount
  BY <1>29 DEF DapCount
<1>30. CASE DapCrash
  BY <1>30 DEF DapCrash, Crash
<1>31. CASE UNCHANGED vars
  BY <1>31
<1> QED
  BY <1>1, <1>2, <1>3, <1>4, <1>5, <1>6, <1>7, <1>8, <1>9, <1>10, <1>11, <1>12, <1>13,
     <1>14, <1>15, <1>16, <1>17, <1>18, <1>19, <1>20, <1>21, <1>22, <1>23, <1>24, <1>25,
     <1>26, <1>27, <1>28, <1>29, <1>30, <1>31
     DEF Next, TcpStep, Peer, DapStep

(* Only an accepted connection starts to be served.                        *)
LEMMA OnlyAcceptOpens ==
  ASSUME IInv, [Next]_vars, ~Serving, Serving'
  PROVE  \E k \in Kind \ {"none"} : Accept(k)
<1> USE DEF IInv, ServingInv, Serving, vars, tcpVars, ringVars, hist
<1>1. ASSUME NEW k \in Kind \ {"none"}, Accept(k)
      PROVE  \E c \in Kind \ {"none"} : Accept(c)
  BY <1>1
<1>2. CASE CleanupFlag
  BY <1>2 DEF CleanupFlag
<1>3. CASE CleanupNotify
  BY <1>3 DEF CleanupNotify, GiveNotification
<1>4. CASE RequestSend
  BY <1>4 DEF RequestSend
<1>5. CASE RequestBlock
  BY <1>5 DEF RequestBlock
<1>6. CASE RequestNotify
  BY <1>6 DEF RequestNotify, GiveNotification
<1>7. CASE ReplyReceive
  BY <1>7 DEF ReplyReceive
<1>8. CASE ReplyBlock
  BY <1>8 DEF ReplyBlock
<1>9. CASE CountDown
  BY <1>9 DEF CountDown
<1>10. CASE ReplyDone
  BY <1>10 DEF ReplyDone
<1>11. CASE UnlinkReceive
  BY <1>11 DEF UnlinkReceive
<1>12. CASE UnlinkWait
  BY <1>12 DEF UnlinkWait
<1>13. CASE UnlinkDone
  BY <1>13 DEF UnlinkDone
<1>14. CASE TcpCrash
  BY <1>14 DEF TcpCrash, Crash
<1>15. CASE ElFlag
  BY <1>15 DEF ElFlag
<1>16. CASE TcpFree
  BY <1>16 DEF TcpFree, DeleteRings
<1>17. CASE TcpFreeNull
  BY <1>17 DEF TcpFreeNull, ForgetRings
<1>18. CASE Leave
  BY <1>18 DEF Leave
<1>19. CASE UrbOut
  BY <1>19 DEF UrbOut
<1>20. CASE UrbIn
  BY <1>20 DEF UrbIn
<1>21. CASE Unlink
  BY <1>21 DEF Unlink
<1>22. CASE Execute
  BY <1>22 DEF Execute
<1>23. CASE DapCheck
  BY <1>23 DEF DapCheck
<1>24. CASE DapFree
  BY <1>24 DEF DapFree, DeleteRings
<1>25. CASE DapFreeNull
  BY <1>25 DEF DapFreeNull, ForgetRings
<1>26. CASE DapSignal
  BY <1>26 DEF DapSignal
<1>27. CASE DapMalloc
  BY <1>27 DEF DapMalloc
<1>28. CASE DapNoSignal
  BY <1>28 DEF DapNoSignal
<1>29. CASE DapTake
  BY <1>29 DEF DapTake, NotifyTake
<1>30. CASE DapReceive
  BY <1>30 DEF DapReceive
<1>31. CASE DapReceiveNothing
  BY <1>31 DEF DapReceiveNothing
<1>32. CASE DapProcess
  BY <1>32 DEF DapProcess
<1>33. CASE DapSend
  BY <1>33 DEF DapSend
<1>34. CASE DapBlock
  BY <1>34 DEF DapBlock
<1>35. CASE DapCount
  BY <1>35 DEF DapCount
<1>36. CASE DapCrash
  BY <1>36 DEF DapCrash, Crash
<1>37. CASE UNCHANGED vars
  BY <1>37
<1> QED
  BY <1>1, <1>2, <1>3, <1>4, <1>5, <1>6, <1>7, <1>8, <1>9, <1>10, <1>11, <1>12, <1>13,
     <1>14, <1>15, <1>16, <1>17, <1>18, <1>19, <1>20, <1>21, <1>22, <1>23, <1>24, <1>25,
     <1>26, <1>27, <1>28, <1>29, <1>30, <1>31, <1>32, <1>33, <1>34, <1>35, <1>36, <1>37
     DEF Next, TcpStep, Peer, DapStep

(* A step that opens the service finds everything empty.                   *)
LEMMA OpenEmpty ==
  ASSUME IInv, NEW k \in Kind \ {"none"}, Accept(k), Serving'
  PROVE  sent' = 0 /\ Pending' = <<>> /\ got' = <<>>
<1>1. AtRest /\ k = "usbip" /\ tcp' = "recv"
  BY DEF Accept, Serving, Kind
<1>2. WithDap' = 0 /\ WithTcp' = 0 /\ ringIN' = <<>> /\ ringOUT' = <<>>
  BY <1>1 DEF Accept, AtRest, WithDap, WithTcp, ringVars
<1>3. <<>> \o <<>> = <<>>
  OBVIOUS
<1>4. Pending' = <<>>
  BY <1>2, <1>3 DEF Pending
<1> QED
  BY <1>4 DEF Accept

(* Every step of the two tasks and the peer is a step of DapService or     *)
(* leaves it alone.                                                        *)
LEMMA ServiceStep ==
  ASSUME IInv, [Next]_vars PROVE [Service!Next]_(Service!vars)
<1> USE DEF Service!vars, Service!Next
<1>0. TypeOK /\ Serving \in BOOLEAN /\ Serving' \in BOOLEAN
  BY DEF IInv, Serving
<1>1. CASE ~Serving /\ ~Serving'
  BY <1>1, <1>0
<1>2. CASE Serving /\ ~Serving'
  BY <1>2, <1>0 DEF Service!Close
<1>3. CASE ~Serving /\ Serving'
  <2>1. sent' = 0 /\ Pending' = <<>> /\ got' = <<>>
    BY <1>3, OnlyAcceptOpens, OpenEmpty
  <2>2. Numbers(Pending)' = <<>> /\ Numbers(got)' = <<>>
    BY <2>1 DEF Numbers
  <2>3. Service!Open
    BY <1>3, <2>1, <2>2, <1>0 DEF Service!Open
  <2> QED
    BY <2>3
<1>4. CASE Serving /\ Serving'
  <2>1. Pending \in Seq(Packet) /\ got \in Seq(Packet)
    BY <1>0, PendingType DEF TypeOK
  <2>2. CASE UrbOut
    <3>1. Pending' = Append(Pending, <<session, sent + 1>>)
      BY <1>0, <2>2, SubmitAppends
    <3>2. <<session, sent + 1>> \in Packet
      BY <1>0 DEF TypeOK, Packet
    <3>3. Numbers(Pending)' = Append(Numbers(Pending), sent + 1)
      <4>1. Numbers(Append(Pending, <<session, sent + 1>>)) = Append(Numbers(Pending), sent + 1)
        BY <2>1, <3>2, NumbersAppend
      <4> QED
        BY <3>1, <4>1 DEF Numbers
    <3>4. sent' = sent + 1 /\ Numbers(got)' = Numbers(got)
      BY <2>2 DEF UrbOut, Numbers
    <3>5. Service!Submit
      BY <1>4, <3>3, <3>4, <1>0 DEF Service!Submit
    <3> QED
      BY <3>5
  <2>3. CASE ReplyReceive \/ UnlinkReceive
    <3>1. Pending # <<>> /\ Head(Pending) = Head(ringOUT) /\ Pending' = Tail(Pending)
      BY <1>0, <2>3, OldestLeaves
    <3>2. /\ Numbers(Pending) # <<>> /\ Head(Numbers(Pending)) = Head(ringOUT)[2]
          /\ Numbers(Pending)' = Tail(Numbers(Pending))
      <4>1. /\ Numbers(Pending) # <<>> /\ Head(Numbers(Pending)) = Head(Pending)[2]
            /\ Numbers(Tail(Pending)) = Tail(Numbers(Pending))
        BY <2>1, <3>1, NumbersTail
      <4> QED
        BY <3>1, <4>1 DEF Numbers
    <3>3. CASE ReplyReceive
      <4>1. sent' = sent /\ got' = Append(got, Head(ringOUT)) /\ Head(ringOUT) \in Packet
        BY <1>0, <3>3 DEF ReplyReceive, TypeOK
      <4>2. Numbers(got)' = Append(Numbers(got), Head(ringOUT)[2])
        <5>1. Numbers(Append(got, Head(ringOUT))) = Append(Numbers(got), Head(ringOUT)[2])
          BY <2>1, <4>1, NumbersAppend
        <5> QED
          BY <4>1, <5>1 DEF Numbers
      <4>3. Service!Answer
        BY <1>4, <1>0, <3>2, <4>1, <4>2 DEF Service!Answer
      <4> QED
        BY <4>3
    <3>4. CASE UnlinkReceive
      <4>1. sent' = sent /\ Numbers(got)' = Numbers(got)
        BY <3>4 DEF UnlinkReceive, Numbers
      <4>2. Service!Withdraw
        BY <1>4, <1>0, <3>2, <4>1 DEF Service!Withdraw
      <4> QED
        BY <4>2
    <3> QED
      BY <2>3, <3>3, <3>4
  <2>4. CASE RequestSend \/ DapReceive \/ DapSend
    <3>1. Pending' = Pending
      BY <1>0, <2>4, MovesKeep
    <3>2. sent' = sent /\ got' = got
      BY <2>4 DEF RequestSend, DapReceive, DapSend, hist
    <3> QED
      BY <1>4, <1>0, <3>1, <3>2 DEF Numbers
  <2>5. CASE ~(UrbOut \/ ReplyReceive \/ UnlinkReceive \/ RequestSend \/ DapReceive \/ DapSend)
    <3>1. Idle
      BY <1>4, <2>5, OtherStepsIdle
    <3>2. Pending' = Pending /\ sent' = sent /\ got' = got
      BY <3>1 DEF Idle, Pending
    <3> QED
      BY <1>4, <1>0, <3>2 DEF Numbers
  <2> QED
    BY <2>2, <2>3, <2>4, <2>5
<1> QED
  BY <1>0, <1>1, <1>2, <1>3, <1>4

(* A USBIP connection that found DAP_Thread at rest is the FIFO service of *)
(* DapService, for every ring size: usbip_urb_process, the two rings and   *)
(* DAP_Thread together lose, duplicate and reorder nothing.                *)
THEOREM PipelineIsService == Spec => ImplementsService
<1>1. Init => Service!Init
  BY DEF Init, Service!Init, Serving
<1>2. IInv /\ [Next]_vars => [Service!Next]_(Service!vars)
  BY ServiceStep
<1> QED
  BY <1>1, <1>2, Invariance, PTL DEF Spec, ImplementsService, Service!Spec
=============================================================================
