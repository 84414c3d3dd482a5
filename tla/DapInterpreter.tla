--------------------------- MODULE DapInterpreter ---------------------------
(***************************************************************************)
(* The CMSIS-DAP command interpreter as DAP_Thread and the WebSocket       *)
(* server call it: one command at a time is dispatched to a port command   *)
(* (SwjPort) or to a transfer command (DapTransfer).                       *)
(***************************************************************************)
EXTENDS DapTransfer

interpVars == <<portVars, transferVars>>

\* Bound: transfer commands are begun in the port configuration of start-up,
\* which the order of their transfers does not depend on, and line operations
\* of their own are looked at outside them.
Plain ==
    /\ SWD_TransferSpeed = "GPIO_normal" /\ mux = "gpio"
    /\ swd_conf = [turnaround |-> 1, data_phase |-> FALSE]
    /\ idle_cycles = 0
    /\ Len(jtag_dev.ir_length) = IF debug_port = "JTAG" THEN 1 ELSE 0
    /\ last = Quiet

\* DAP_Setup.
Init == PortInit /\ Idle

DAP_ProcessCommand ==
    \/ op = "idle" /\ PortNext /\ UNCHANGED transferVars
    \/ Plain /\ Command

Next == DAP_ProcessCommand \/ Step \/ Reply

\* A command runs to its end in the task that took it, and the target answers
\* each transfer in one of the ways of Step.
Spec == Init /\ [][Next]_interpVars /\ WF_interpVars(Step) /\ WF_interpVars(Reply)

=============================================================================
