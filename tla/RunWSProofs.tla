----------------------------- MODULE RunWSProofs -----------------------------
(***************************************************************************)
(* The two parts of runWS.  Its loop (WSReconnect): sockets, deadlines and *)
(* delays, for all timings and any number of connections that die.  The    *)
(* identity it starts with (Identity): only a failed read of the existing  *)
(* file, or a power failure that undoes it after the pairing, can cost the *)
(* pairing; kills and failed writes cannot, for any number of restarts.    *)
(***************************************************************************)
EXTENDS WSReconnect, Identity, TLAPS

\* No way out of wsDial or of a session leaves a socket open, and no session
\* starts with the deadline of its handshake still set.
THEOREM SocketsClosed == Spec => []SocketsAccountedFor
<1>1. Init => SocketsAccountedFor
  BY DEF Init, SocketsAccountedFor
<1>2. SocketsAccountedFor /\ [Next]_vars => SocketsAccountedFor'
  <2> SUFFICES ASSUME SocketsAccountedFor, [Next]_vars
               PROVE  SocketsAccountedFor'
    OBVIOUS
  <2> USE DEF SocketsAccountedFor, SleepFrom
  <2>1. CASE DialTCP
    BY <2>1 DEF DialTCP
  <2>2. CASE DialFails
    BY <2>2 DEF DialFails
  <2>3. CASE HandshakeTLS
    BY <2>3 DEF HandshakeTLS
  <2>4. CASE HandshakeFails
    BY <2>4 DEF HandshakeFails, RootPoolFails, TLSFails, NonceFails, RequestFails,
                StatusFails, Refused, HeadersFail, BadAccept, CloseAndSleep
  <2>5. CASE Connected
    BY <2>5 DEF Connected
  <2>6. CASE Disconnected
    BY <2>6 DEF Disconnected
  <2>7. CASE WakeUp
    BY <2>7 DEF WakeUp
  <2>8. CASE ReachabilityChanges \/ ConnectionDies \/ Tick
    BY <2>8 DEF ReachabilityChanges, ConnectionDies, Tick
  <2>9. CASE UNCHANGED vars
    BY <2>9 DEF vars
  <2> QED BY <2>1, <2>2, <2>3, <2>4, <2>5, <2>6, <2>7, <2>8, <2>9 DEF Next
<1> QED BY <1>1, <1>2, PTL DEF Spec

-----------------------------------------------------------------------------
(* The delays.                                                             *)

\* What wsBackoff returns: at most the cap, and never less for a later
\* attempt.
LEMMA BackoffGrows ==
  ASSUME NEW n \in 0 .. AttemptCap + 1
  PROVE  /\ wsBackoff(n) \in 0 .. MaxDelay
         /\ Increment(n) \in 0 .. AttemptCap + 1
         /\ wsBackoff(n) <= wsBackoff(Increment(n))
<1>1. MaxDelay \in Nat \ {0}
  BY WSReconnectAssumption
<1>2. \A k \in 0 .. AttemptCap : Shift(k) \in Nat
  BY DEF Shift, AttemptCap
<1>3. \A k \in 0 .. AttemptCap - 1 : Shift(k) <= Shift(k + 1)
  BY DEF Shift, AttemptCap
<1>4. \A k \in 0 .. AttemptCap + 1 : wsBackoff(k) \in 0 .. MaxDelay
  BY <1>1, <1>2 DEF wsBackoff, AttemptCap
<1>5. Increment(n) \in 0 .. AttemptCap + 1
  BY DEF Increment, AttemptCap
<1>6. CASE n < AttemptCap
  BY <1>1, <1>2, <1>3, <1>6 DEF wsBackoff, Increment, AttemptCap
<1>7. CASE n >= AttemptCap
  BY <1>1, <1>2, <1>7 DEF wsBackoff, Increment, AttemptCap
<1> QED
  BY <1>4, <1>5, <1>6, <1>7 DEF AttemptCap

\* The inductive invariant: outside a session, the next delay is no shorter
\* than the last one.
DelayInv == pc # "serve" => delay <= wsBackoff(attempt)

\* A sleep follows from outside a session, or after one.
LEMMA Sleeps ==
  ASSUME WSTypeOK, DelayInv, NEW n \in 0 .. AttemptCap + 1, SleepFrom(n),
         n = attempt \/ pc = "serve",
         sock' \in BOOLEAN, armed' \in BOOLEAN, alive' \in BOOLEAN,
         up' \in BOOLEAN, losses' = losses
  PROVE  /\ WSTypeOK' /\ DelayInv'
         /\ delay' < delay => pc = "serve"
<1>1. /\ delay' = wsBackoff(n) /\ attempt' = Increment(n)
      /\ pc' = "sleep" /\ timer' = 0
  BY DEF SleepFrom
<1>2. Horizon \in Nat
  BY WSReconnectAssumption DEF Horizon
<1>3. WSTypeOK'
  BY <1>1, <1>2, BackoffGrows DEF WSTypeOK
<1>4. DelayInv'
  <2>1. (wsBackoff(attempt))' = wsBackoff(attempt')
    BY DEF wsBackoff, Shift, AttemptCap
  <2> QED
    BY <1>1, <2>1, BackoffGrows DEF DelayInv
<1>5. delay' < delay => pc = "serve"
  <2>1. wsBackoff(n) \in 0 .. MaxDelay /\ delay \in 0 .. MaxDelay
    BY BackoffGrows DEF WSTypeOK
  <2> QED
    BY <1>1, <2>1, WSReconnectAssumption DEF DelayInv
<1> QED
  BY <1>3, <1>4, <1>5

\* Every step keeps the delay in range, and only a session shortens it.
LEMMA NextDelay ==
  WSTypeOK /\ DelayInv /\ [Next]_vars =>
    WSTypeOK' /\ DelayInv' /\ (delay' < delay => pc = "serve")
<1> SUFFICES ASSUME WSTypeOK, DelayInv, [Next]_vars
             PROVE  WSTypeOK' /\ DelayInv' /\ (delay' < delay => pc = "serve")
  OBVIOUS
<1>h. Horizon \in Nat /\ delay \in Nat /\ ~(delay < delay)
  BY WSReconnectAssumption DEF Horizon, WSTypeOK
<1>a. attempt \in 0 .. AttemptCap + 1 /\ 0 \in 0 .. AttemptCap + 1
  BY DEF WSTypeOK, AttemptCap
<1>b. ASSUME attempt' = attempt
      PROVE  (wsBackoff(attempt))' = wsBackoff(attempt)
  BY <1>b DEF wsBackoff, Shift, AttemptCap
<1>1. CASE DialTCP
  BY <1>1, <1>h, <1>b DEF DialTCP, WSTypeOK, DelayInv
<1>2. CASE DialFails
  BY <1>2, <1>a, Sleeps DEF DialFails, WSTypeOK
<1>3. CASE HandshakeTLS
  BY <1>3, <1>h, <1>b DEF HandshakeTLS, WSTypeOK, DelayInv
<1>4. CASE HandshakeFails
  <2>1. /\ SleepFrom(attempt) /\ sock' \in BOOLEAN /\ armed' \in BOOLEAN
        /\ UNCHANGED <<alive, up, losses>>
    BY <1>4 DEF HandshakeFails, RootPoolFails, TLSFails, NonceFails, RequestFails,
                StatusFails, Refused, HeadersFail, BadAccept, CloseAndSleep
  <2> QED
    BY <1>a, <2>1, Sleeps DEF WSTypeOK
<1>5. CASE Connected
  <2>1. attempt' \in 0 .. AttemptCap + 1 /\ timer' \in 0 .. Horizon
    BY <1>5, <1>h, <1>a DEF Connected
  <2>2. WSTypeOK'
    BY <1>5, <2>1 DEF Connected, WSTypeOK
  <2>3. DelayInv' /\ delay' = delay
    BY <1>5 DEF Connected, DelayInv
  <2> QED
    BY <1>h, <2>2, <2>3
<1>6. CASE Disconnected
  <2>1. CASE timer >= Healthy
    BY <1>6, <1>a, <2>1, Sleeps DEF Disconnected, WSTypeOK
  <2>2. CASE ~(timer >= Healthy)
    BY <1>6, <1>a, <2>2, Sleeps DEF Disconnected, WSTypeOK
  <2> QED
    BY <2>1, <2>2
<1>7. CASE WakeUp
  BY <1>7, <1>h, <1>b DEF WakeUp, WSTypeOK, DelayInv
<1>8. CASE ReachabilityChanges
  BY <1>8, <1>h, <1>b DEF ReachabilityChanges, WSTypeOK, DelayInv
<1>9. CASE ConnectionDies
  <2>1. losses' \in 0 .. MaxLosses
    BY <1>9, WSReconnectAssumption DEF ConnectionDies, WSTypeOK
  <2>2. WSTypeOK'
    BY <1>9, <2>1 DEF ConnectionDies, WSTypeOK
  <2>3. DelayInv' /\ delay' = delay
    BY <1>9, <1>b DEF ConnectionDies, DelayInv
  <2> QED
    BY <1>h, <2>2, <2>3
<1>10. CASE Tick
  BY <1>10, <1>h, <1>b DEF Tick, WSTypeOK, DelayInv
<1>11. CASE UNCHANGED vars
  BY <1>11, <1>h, <1>b DEF vars, WSTypeOK, DelayInv
<1> QED
  BY <1>1, <1>2, <1>3, <1>4, <1>5, <1>6, <1>7, <1>8, <1>9, <1>10, <1>11 DEF Next

\* There is no delay at first.
LEMMA InitDelay == Init => WSTypeOK /\ DelayInv
<1> SUFFICES ASSUME Init PROVE WSTypeOK /\ DelayInv
  OBVIOUS
<1>1. Horizon \in Nat
  BY WSReconnectAssumption DEF Horizon
<1>2. wsBackoff(0) \in 0 .. MaxDelay
  BY BackoffGrows DEF AttemptCap
<1>3. /\ attempt \in 0 .. AttemptCap + 1 /\ delay \in 0 .. MaxDelay
      /\ timer \in 0 .. Horizon /\ losses \in 0 .. MaxLosses
  BY <1>1, WSReconnectAssumption DEF Init, AttemptCap
<1>4. WSTypeOK
  BY <1>3 DEF Init, WSTypeOK
<1>5. DelayInv
  BY <1>2 DEF Init, DelayInv
<1> QED
  BY <1>4, <1>5

\* The counter, the timers and above all the delay of runWS stay in range:
\* no sleep is longer than the cap of wsBackoff.
THEOREM WSTypeCorrect == Spec => []WSTypeOK
BY InitDelay, NextDelay, PTL DEF Spec

\* While dialling fails the delays only grow; it takes a session, though of
\* any length, to shorten one (attempt in runWS, wsBackoff).
THEOREM BacksOff == Spec => GrowsWhileDialling
<1>1. WSTypeOK /\ DelayInv /\ [Next]_vars => [delay' < delay => pc = "serve"]_vars
  BY NextDelay
<1> QED
  BY <1>1, InitDelay, NextDelay, PTL DEF Spec, GrowsWhileDialling

-----------------------------------------------------------------------------
(* The identity.                                                           *)

\* The inductive invariant: what runs is what the file holds, and once paired
\* the file holds the paired identity and nobody is rewriting it.
PairingInv ==
  ~ReadErrors /\ ~undone =>
    /\ stage = "run" => id = file /\ id \in Ids
    /\ stage \in {"create", "write"} => id \in Ids /\ paired = NoId
    /\ paired # NoId => file = paired

\* At first there is no identity.
LEMMA InitPairing == IdInit => IdTypeOK /\ PairingInv
  <1> SUFFICES ASSUME IdInit PROVE IdTypeOK /\ PairingInv
    OBVIOUS
  <1>1. file = 0 /\ id = 0 /\ drawn = 0 /\ paired = 0
    BY DEF IdInit, Absent, NoId
  <1>2. IdTypeOK
    <2>1. synced \in BOOLEAN /\ undone \in BOOLEAN
      BY Zenon DEF IdInit
    <2>2. /\ file \in Ids \cup {Absent, Broken} /\ id \in Ids \cup {NoId}
          /\ drawn \in Nat /\ paired \in Ids \cup {NoId}
      BY <1>1 DEF Absent, NoId
    <2> QED
      BY <2>1, <2>2 DEF IdInit, IdTypeOK
  <1>3. PairingInv
    BY DEF IdInit, PairingInv
  <1> QED
    BY <1>2, <1>3

\* Every step keeps the pairing.
LEMMA NextPairing == IdTypeOK /\ PairingInv /\ [IdNext]_idVars => (IdTypeOK /\ PairingInv)'
  <1> SUFFICES ASSUME IdTypeOK, PairingInv, [IdNext]_idVars
               PROVE  IdTypeOK' /\ PairingInv'
    OBVIOUS
  <1> USE DEF IdTypeOK, PairingInv, Ids, Absent, Broken, NoId
  <1>1. CASE LoadExisting
    BY <1>1 DEF LoadExisting
  <1>2. CASE Generate
    BY <1>2 DEF Generate
  <1>3. CASE Truncate
    BY <1>3 DEF Truncate
  <1>4. CASE Write
    BY <1>4 DEF Write
  <1>5. CASE WriteFails
    BY <1>5 DEF WriteFails
  <1>6. CASE Pair
    BY <1>6 DEF Pair
  <1>7. CASE Restart
    BY <1>7 DEF Restart
  <1>8. CASE Flush
    BY <1>8 DEF Flush
  <1>9. CASE LosePower
    BY <1>9 DEF LosePower
  <1>10. CASE UNCHANGED idVars
    BY <1>10 DEF idVars
  <1>11. QED
    BY <1>1, <1>2, <1>3, <1>4, <1>5, <1>6, <1>7, <1>8, <1>9, <1>10 DEF IdNext

\* The identity file, the process and the panel hold identities that were
\* drawn, or none, however often the gateway is restarted (loadWSIdentity).
THEOREM IdTypeCorrect == IdSpec => []IdTypeOK
  BY InitPairing, NextPairing, PTL DEF IdSpec

\* A gateway that has been paired runs under another identity only if a read
\* of the existing file failed or a power failure undid the file, which
\* os.WriteFile does not flush, after the pairing (loadWSIdentity).
THEOREM PairingKept == IdSpec => []KeepsPairing
  <1>1. IdTypeOK /\ PairingInv => KeepsPairing
    BY DEF PairingInv, KeepsPairing, NoId
  <1>2. QED
    BY <1>1, InitPairing, NextPairing, PTL DEF IdSpec
=============================================================================
