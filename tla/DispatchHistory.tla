--------------------------- MODULE DispatchHistory ---------------------------
(***************************************************************************)
(* Dispatch with history variables that record what the program itself     *)
(* forgets: how often each PDU was claimed and handed to the modem, how    *)
(* many sessions failed, and who had already read the backoff state when   *)
(* it was armed.  They follow the steps of Dispatch and never restrict     *)
(* them.                                                                   *)
(***************************************************************************)
EXTENDS Dispatch

VARIABLES
  claimed,  \* successful calls of claimPDU for each PDU
  begun,    \* AT sessions begun for each PDU
  failed,   \* AT sessions that ended in failure, in the order of the modem
  grace     \* workers that had read backoffUntil before its last arming

hvars == <<vars, claimed, begun, failed, grace>>

HInit ==
  /\ Init
  /\ claimed = [p \in PDUs |-> 0]
  /\ begun = [p \in PDUs |-> 0]
  /\ failed = 0
  /\ grace = {}

\* Workers that no longer look at backoffUntil before their session starts.
PastRead == {w \in Workers : pc[w] \in {"check", "pick", "lock"}}

HClaim ==
  claimed' = IF log'["queued"] # log["queued"]
             THEN [claimed EXCEPT ![lastPDU'] = @ + 1]
             ELSE claimed

HBegin ==
  begun' = IF modemMu = NoWorker /\ modemMu' # NoWorker
           THEN [begun EXCEPT ![pdu[modemMu']] = @ + 1]
           ELSE begun

HEnd ==
  failed' = IF modemMu # NoWorker /\ modemMu' = NoWorker /\ ~ok'[modemMu]
            THEN failed + 1
            ELSE failed

HGrace ==
  grace' = IF backoffUntil' # backoffUntil /\ backoffUntil' # 0
           THEN PastRead'
           ELSE grace \cap PastRead'

HNext == Next /\ HClaim /\ HBegin /\ HEnd /\ HGrace

HSpec == HInit /\ [][HNext]_hvars

FairHSpec == HSpec /\ Fairness

-----------------------------------------------------------------------------

\* Workers that still have their session for p before them.
Waiting(p) == {w \in InFlight : pdu[w] = p /\ pc[w] \notin {"send", "record"}}

\* A PDU is handed to the modem at most once per accepted request: sessions
\* already begun and workers still on their way never outnumber the claims
\* of that PDU.  sendWorker does not retry.  (How far apart two sessions for
\* one PDU are is another matter: see Transmissions.)
OncePerClaim ==
  \A p \in PDUs : begun[p] + Cardinality(Waiting(p)) <= claimed[p]

\* While a backoff runs, the only sessions that can still begin are those of
\* workers that had read the backoff state before it was armed: sendWorker
\* checks before it waits for the modem, so the queue at that moment is all
\* that can slip through.
OnlyEarlyReadersInBackoff ==
  [][\A w \in Workers : LockModem(w) /\ now < backoffUntil => w \in grace]_hvars

\* The failure counter never exceeds the failed sessions there really were,
\* although results are recorded late and in any order.
FailsWereReal == consecFails <= failed
=============================================================================
