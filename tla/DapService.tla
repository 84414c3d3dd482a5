----------------------------- MODULE DapService -----------------------------
(***************************************************************************)
(* What the probe promises a debugger over one connection: commands are    *)
(* numbered as they are submitted, each is answered at most once and in    *)
(* the order of submission.  The host may withdraw the oldest command.     *)
(***************************************************************************)
EXTENDS Integers, Sequences

VARIABLES
  open,      \* a connection is served
  submitted, \* commands the host has submitted
  pending,   \* its commands that are not answered
  answered   \* its answers, as the host received them

vars == <<open, submitted, pending, answered>>

TypeOK ==
  /\ open \in BOOLEAN /\ submitted \in Nat
  /\ pending \in Seq(Nat) /\ answered \in Seq(Nat)

Init == open = FALSE /\ submitted = 0 /\ pending = <<>> /\ answered = <<>>

Open ==
  /\ ~open /\ open' = TRUE
  /\ UNCHANGED <<submitted, pending, answered>>

Close ==
  /\ open /\ open' = FALSE
  /\ submitted' = 0 /\ pending' = <<>> /\ answered' = <<>>

Submit ==
  /\ open
  /\ submitted' = submitted + 1
  /\ pending' = Append(pending, submitted')
  /\ UNCHANGED <<open, answered>>

Answer ==
  /\ open /\ pending # <<>>
  /\ answered' = Append(answered, Head(pending))
  /\ pending' = Tail(pending)
  /\ UNCHANGED <<open, submitted>>

Withdraw ==
  /\ open /\ pending # <<>>
  /\ pending' = Tail(pending)
  /\ UNCHANGED <<open, submitted, answered>>

Next == Open \/ Close \/ Submit \/ Answer \/ Withdraw

Spec == Init /\ [][Next]_vars
=============================================================================
