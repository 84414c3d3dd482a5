---------------------------- MODULE MCUartBridge ----------------------------
(* Constants for checking UartBridge with TLC. *)
EXTENDS UartBridge

\* What a client sends: a number, something else, and both in one netbuf.
MCItems == {<<"baud">>, <<"data">>, <<"data", "baud">>}

=============================================================================
