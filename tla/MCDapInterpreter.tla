-------------------------- MODULE MCDapInterpreter --------------------------
(* Small instances of DapInterpreter for TLC. *)
EXTENDS DapInterpreter

MCTurnarounds == {0, 3}
MCChains == {<<4>>, <<3, 2, 4>>}
MCSeqBits == {1, 7, 8, 9, 51, 64, 256}
MCIdleCycles == {0, 1}
MCRetries == {0, 1}

Req(rnw, ap, match, mask, ts) == [rnw |-> rnw, ap |-> ap, match |-> match, mask |-> mask, ts |-> ts]
MCKinds == {Req(TRUE, TRUE, FALSE, FALSE, TRUE), Req(TRUE, FALSE, FALSE, FALSE, FALSE),
            Req(FALSE, TRUE, FALSE, FALSE, FALSE), Req(FALSE, FALSE, FALSE, TRUE, FALSE),
            Req(TRUE, TRUE, TRUE, FALSE, FALSE), Req(TRUE, FALSE, TRUE, FALSE, FALSE)}

=============================================================================
