------------------------------- MODULE Relay --------------------------------
(***************************************************************************)
(* What the relay promises about a request it has answered with 200,       *)
(* without saying how: it is turned away by the backoff or gets exactly    *)
(* one session with the modem, sessions do not overlap, what it ends in is *)
(* what its session said, and nobody is turned away before Threshold       *)
(* sessions have failed.  Dispatch is shown to implement this.             *)
(***************************************************************************)
EXTENDS Naturals

CONSTANTS
  Slots,       \* places for requests under way
  Permitted,   \* what may be sent
  Nothing,     \* an empty place
  Threshold    \* failures before a request can be turned away

VARIABLES
  phase,    \* how far the request in each place is
  load,     \* what it wants sent
  verdict,  \* what its session said
  tally     \* how often each result has been reported

vars == <<phase, load, verdict, tally>>

Init ==
  /\ phase = [s \in Slots |-> "free"]
  /\ load = [s \in Slots |-> Nothing]
  /\ verdict = [s \in Slots |-> FALSE]
  /\ tally = [r \in {"queued", "backoff", "sent", "send-failed"} |-> 0]

Count(r) == tally' = [tally EXCEPT ![r] = @ + 1]

Clear(s) ==
  /\ phase' = [phase EXCEPT ![s] = "free"]
  /\ load' = [load EXCEPT ![s] = Nothing]
  /\ verdict' = [verdict EXCEPT ![s] = FALSE]

Accept(s, p) ==
  /\ phase[s] = "free"
  /\ phase' = [phase EXCEPT ![s] = "accepted"]
  /\ load' = [load EXCEPT ![s] = p]
  /\ Count("queued")
  /\ UNCHANGED verdict

TurnAway(s) ==
  /\ phase[s] = "accepted"
  /\ tally["send-failed"] >= Threshold
  /\ Count("backoff")
  /\ Clear(s)

Begin(s) ==
  /\ phase[s] = "accepted"
  /\ \A t \in Slots : phase[t] # "sending"
  /\ phase' = [phase EXCEPT ![s] = "sending"]
  /\ UNCHANGED <<load, verdict, tally>>

End(s) ==
  /\ phase[s] = "sending"
  /\ phase' = [phase EXCEPT ![s] = "over"]
  /\ \E v \in BOOLEAN : verdict' = [verdict EXCEPT ![s] = v]
  /\ UNCHANGED <<load, tally>>

Settle(s) ==
  /\ phase[s] = "over"
  /\ Count(IF verdict[s] THEN "sent" ELSE "send-failed")
  /\ Clear(s)

Next ==
  \E s \in Slots :
    \/ \E p \in Permitted : Accept(s, p)
    \/ TurnAway(s) \/ Begin(s) \/ End(s) \/ Settle(s)

Spec == Init /\ [][Next]_vars
=============================================================================
