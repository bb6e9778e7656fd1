---------------------------- MODULE Transmissions ----------------------------
(***************************************************************************)
(* Dispatch with a history of what the cooldown is for: the instants at    *)
(* which the modem has taken each PDU.  claimPDU forgets a PDU as soon as  *)
(* another one is claimed, and its clock starts at the claim, not at the   *)
(* transmission.                                                           *)
(***************************************************************************)
EXTENDS Dispatch

VARIABLE aired  \* for each PDU, when its successful AT sessions ended

tvars == <<vars, aired>>

TInit == Init /\ aired = [p \in PDUs |-> <<>>]

TNext ==
  /\ Next
  /\ aired' = IF modemMu # NoWorker /\ modemMu' = NoWorker /\ ok'[modemMu]
              THEN [aired EXCEPT ![pdu[modemMu]] = Append(@, now)]
              ELSE aired

TSpec == TInit /\ [][TNext]_tvars

\* Claimed by README.md ("Minimum cooldown duration between duplicate PDU
\* transmissions"): the modem does not take the same PDU twice within the
\* cooldown.
TransmissionsApart ==
  \A p \in PDUs : \A i \in 1 .. Len(aired[p]) - 1 :
    aired[p][i + 1] - aired[p][i] >= Cooldown
=============================================================================
