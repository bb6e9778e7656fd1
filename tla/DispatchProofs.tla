--------------------------- MODULE DispatchProofs ---------------------------
(***************************************************************************)
(* Proofs about Dispatch, for every number of workers and PDUs, every      *)
(* cooldown and backoff ladder, and every bound on requests and time: its  *)
(* safety, that it implements Relay, and what its histories show.          *)
(***************************************************************************)
EXTENDS DispatchHistory, FiniteSetTheorems, TLAPS

\* The ladder of backoffFor: nothing below three failures, then between one
\* tick and the cap.
LEMMA BackoffRange ==
  ASSUME NEW n \in Nat
  PROVE  /\ backoffFor(n) \in Nat
         /\ backoffFor(n) <= BackoffMax
         /\ backoffFor(n) = 0 <=> n < 3
  BY DispatchAssumption DEF backoffFor

\* One more failure never shortens the backoff (the doubling loop and the cap
\* of backoffFor).
LEMMA BackoffMonotone ==
  ASSUME NEW n \in Nat
  PROVE  backoffFor(n) <= backoffFor(n + 1)
  <1>1. CASE n < 3
    BY <1>1, BackoffRange
  <1>2. CASE n \in 3 .. 7
    <2>1. n = 3 \/ n = 4 \/ n = 5 \/ n = 6 \/ n = 7
      BY <1>2
    <2>2. QED
      BY <2>1, DispatchAssumption DEF backoffFor
  <1>3. CASE n > 7
    BY <1>3, DispatchAssumption DEF backoffFor
  <1>4. QED
    BY <1>1, <1>2, <1>3

-----------------------------------------------------------------------------

\* The initial states are well typed.
LEMMA InitTypeOK == Init => TypeOK
  BY DispatchAssumption DEF Init, TypeOK, Results, Transports, PCs

\* Every step keeps the types.
LEMMA NextTypeOK == TypeOK /\ [Next]_vars => TypeOK'
  <1> SUFFICES ASSUME TypeOK, [Next]_vars PROVE TypeOK'
    OBVIOUS
  <1> USE DispatchAssumption DEF TypeOK, Results, Transports, PCs
  <1>1. ASSUME NEW p \in PDUs, ClaimAndSpawn(p) PROVE TypeOK'
    BY <1>1 DEF ClaimAndSpawn, Log
  <1>2. ASSUME NEW w \in Workers, ReadBackoff(w) PROVE TypeOK'
    BY <1>2 DEF ReadBackoff
  <1>3. ASSUME NEW w \in Workers, CheckBackoff(w) PROVE TypeOK'
    BY <1>3 DEF CheckBackoff, Log
  <1>4. ASSUME NEW w \in Workers, PickTransport(w) PROVE TypeOK'
    BY <1>4 DEF PickTransport, pickTransport
  <1>5. ASSUME NEW w \in Workers, LockModem(w) PROVE TypeOK'
    BY <1>5 DEF LockModem
  <1>6. ASSUME NEW w \in Workers, FinishSend(w) PROVE TypeOK'
    BY <1>6 DEF FinishSend
  <1>7. ASSUME NEW w \in Workers, Record(w) PROVE TypeOK'
    <2>1. consecFails' \in Nat /\ backoffUntil' \in Nat
      BY <1>7, BackoffRange DEF Record, RecordResult
    <2>2. log' \in [Results -> Nat]
      BY <1>7 DEF Record, Log
    <2>3. QED
      BY <1>7, <2>1, <2>2 DEF Record
  <1>8. CASE AtServerCrash
    BY <1>8 DEF AtServerCrash, workerVars
  <1>9. CASE watchdogLoop
    BY <1>9 DEF watchdogLoop, workerVars
  <1>10. CASE Tick
    BY <1>10 DEF Tick, workerVars
  <1>11. CASE UNCHANGED vars
    BY <1>11 DEF vars
  <1>12. QED
    BY <1>1, <1>2, <1>3, <1>4, <1>5, <1>6, <1>7, <1>8, <1>9, <1>10, <1>11
    DEF Next, handleHook, handleWSRequest, sendWorker

\* Every reachable state is well typed, whatever the frontends, the workers,
\* atserver and the clock do.
THEOREM TypeCorrect == Spec => []TypeOK
  BY InitTypeOK, NextTypeOK, PTL DEF Spec

-----------------------------------------------------------------------------
(* The mutual exclusion of AT sessions.                                    *)

\* Every step keeps the holder of modemMu and the session together.
LEMMA NextModemMutex == TypeOK /\ ModemMutex /\ [Next]_vars => ModemMutex'
  <1> SUFFICES ASSUME TypeOK, ModemMutex, [Next]_vars PROVE ModemMutex'
    OBVIOUS
  <1> USE DispatchAssumption DEF TypeOK, ModemMutex
  <1>1. ASSUME NEW p \in PDUs, ClaimAndSpawn(p) PROVE ModemMutex'
    BY <1>1 DEF ClaimAndSpawn
  <1>2. ASSUME NEW w \in Workers, sendWorker(w) PROVE ModemMutex'
    <2>1. CASE ReadBackoff(w)
      BY <2>1 DEF ReadBackoff
    <2>2. CASE CheckBackoff(w)
      BY <2>2 DEF CheckBackoff
    <2>3. CASE PickTransport(w)
      BY <2>3 DEF PickTransport
    <2>4. CASE LockModem(w)
      BY <2>4 DEF LockModem
    <2>5. CASE FinishSend(w)
      BY <2>5 DEF FinishSend
    <2>6. CASE Record(w)
      BY <2>6 DEF Record
    <2>7. QED
      BY <1>2, <2>1, <2>2, <2>3, <2>4, <2>5, <2>6 DEF sendWorker
  <1>3. CASE AtServerCrash \/ watchdogLoop \/ Tick \/ UNCHANGED vars
    BY <1>3 DEF AtServerCrash, watchdogLoop, Tick, workerVars, vars
  <1>4. QED
    BY <1>1, <1>2, <1>3 DEF Next, handleHook, handleWSRequest

\* modemMu is held exactly by the worker whose AT session is running: two
\* sessions never overlap, for any number of sendWorker goroutines.
THEOREM SessionsExclude == Spec => []ModemMutex
  <1>1. Init => ModemMutex
    BY DispatchAssumption DEF Init, ModemMutex
  <1>2. QED
    BY <1>1, TypeCorrect, NextModemMutex, PTL DEF Spec

-----------------------------------------------------------------------------
(* The failure backoff.                                                    *)

\* Every step keeps counter and backoff in agreement.
LEMMA NextBackoffConsistent ==
  TypeOK /\ BackoffConsistent /\ [Next]_vars => BackoffConsistent'
  <1> SUFFICES ASSUME TypeOK, BackoffConsistent, [Next]_vars
               PROVE  BackoffConsistent'
    OBVIOUS
  <1> USE DEF BackoffConsistent
  <1>1. now \in Nat /\ consecFails \in Nat /\ backoffUntil \in Nat
    BY DispatchAssumption DEF TypeOK
  <1>2. ASSUME NEW w \in Workers, Record(w) PROVE BackoffConsistent'
    <2>1. now' = now
      BY <1>2 DEF Record
    <2>2. CASE ok[w]
      <3>1. consecFails' = 0 /\ backoffUntil' = 0
        BY <1>2, <2>2 DEF Record, RecordResult
      <3>2. QED
        BY <1>1, <2>1, <3>1, BackoffRange
    <2>3. CASE ~ok[w]
      <3> DEFINE d == backoffFor(consecFails + 1)
      <3>1. /\ consecFails' = consecFails + 1
            /\ backoffUntil' = IF d > 0 THEN now + d ELSE backoffUntil
        BY <1>2, <2>3 DEF Record, RecordResult
      <3>2. d \in Nat /\ (d = 0 <=> consecFails + 1 < 3)
        BY <1>1, BackoffRange
      <3>3. backoffFor(consecFails') = d
        BY <3>1
      <3> HIDE DEF d
      <3>4. QED
        BY <1>1, <2>1, <3>1, <3>2, <3>3
    <2>4. QED
      BY <2>2, <2>3
  <1>3. CASE Tick
    <2>1. now' = now + 1 /\ UNCHANGED <<consecFails, backoffUntil>>
      BY <1>3 DEF Tick
    <2>2. backoffFor(consecFails)' = backoffFor(consecFails)
      BY <2>1 DEF backoffFor
    <2>3. QED
      BY <1>1, <2>1, <2>2, BackoffRange
  <1>4. ASSUME UNCHANGED <<now, consecFails, backoffUntil>>
        PROVE  BackoffConsistent'
    BY <1>4 DEF backoffFor
  <1>5. QED
    BY <1>2, <1>3, <1>4
    DEF Next, handleHook, handleWSRequest, ClaimAndSpawn, sendWorker,
        ReadBackoff, CheckBackoff, PickTransport, LockModem, FinishSend,
        AtServerCrash, watchdogLoop, vars

\* The failure counter and the end of the backoff always agree, and what is
\* left of a backoff never exceeds the ladder of backoffFor.
THEOREM BackoffAgrees == Spec => []BackoffConsistent
  <1>1. Init => BackoffConsistent
    BY DispatchAssumption DEF Init, BackoffConsistent, backoffFor
  <1>2. QED
    BY <1>1, TypeCorrect, NextBackoffConsistent, PTL DEF Spec

\* No step shortens a backoff.
LEMMA StepOnlyExtends ==
  TypeOK /\ BackoffConsistent /\ [Next]_vars
    => [backoffUntil' < backoffUntil => backoffUntil' = 0 /\ consecFails' = 0]_vars
  <1> SUFFICES ASSUME TypeOK, BackoffConsistent, [Next]_vars
               PROVE  backoffUntil' < backoffUntil
                        => backoffUntil' = 0 /\ consecFails' = 0
    OBVIOUS
  <1>1. now \in Nat /\ consecFails \in Nat /\ backoffUntil \in Nat
    BY DispatchAssumption DEF TypeOK
  <1>2. ASSUME NEW w \in Workers, Record(w), ~ok[w]
        PROVE  ~(backoffUntil' < backoffUntil)
    <2> DEFINE d == backoffFor(consecFails + 1)
               e == backoffFor(consecFails)
    <2>1. backoffUntil' = IF d > 0 THEN now + d ELSE backoffUntil
      BY <1>2 DEF Record, RecordResult
    <2>2. backoffUntil <= now + e
      BY DEF BackoffConsistent
    <2>3. d \in Nat /\ e \in Nat /\ e <= d
      BY <1>1, BackoffRange, BackoffMonotone
    <2> HIDE DEF d, e
    <2>4. QED
      BY <1>1, <2>1, <2>2, <2>3
  <1>3. ASSUME NEW w \in Workers, Record(w), ok[w]
        PROVE  backoffUntil' = 0 /\ consecFails' = 0
    BY <1>3 DEF Record, RecordResult
  <1>4. ASSUME UNCHANGED backoffUntil PROVE ~(backoffUntil' < backoffUntil)
    BY <1>1, <1>4
  <1>5. QED
    BY <1>2, <1>3, <1>4
    DEF Next, handleHook, handleWSRequest, ClaimAndSpawn, sendWorker,
        ReadBackoff, CheckBackoff, PickTransport, LockModem, FinishSend,
        AtServerCrash, watchdogLoop, Tick, vars

\* No order in which sendWorker goroutines record their results shortens a
\* backoff: it is extended, or lifted by a success.
THEOREM BackoffNeverShortened == Spec => BackoffOnlyExtended
  BY TypeCorrect, BackoffAgrees, StepOnlyExtends, PTL
  DEF Spec, BackoffOnlyExtended

-----------------------------------------------------------------------------
(* The allow-list.                                                         *)

\* Every step keeps forbidden numbers out.
LEMMA NextOnlyAllowed == TypeOK /\ OnlyAllowed /\ [Next]_vars => OnlyAllowed'
  <1> SUFFICES ASSUME TypeOK, OnlyAllowed, [Next]_vars PROVE OnlyAllowed'
    OBVIOUS
  <1> USE DispatchAssumption DEF TypeOK, OnlyAllowed, InFlight
  <1>1. ASSUME NEW p \in PDUs, destinationAllowed(p), ClaimAndSpawn(p)
        PROVE  OnlyAllowed'
    <2>1. AllowedDest # {} => Listed(p)
      BY <1>1 DEF destinationAllowed, AllowedDest, Listed, phone
    <2>2. QED
      BY <1>1, <2>1 DEF ClaimAndSpawn
  <1>2. ASSUME NEW w \in Workers, sendWorker(w) PROVE OnlyAllowed'
    <2>1. CASE ReadBackoff(w)
      BY <2>1 DEF ReadBackoff
    <2>2. CASE CheckBackoff(w)
      BY <2>2 DEF CheckBackoff
    <2>3. CASE PickTransport(w)
      BY <2>3 DEF PickTransport
    <2>4. CASE LockModem(w)
      BY <2>4 DEF LockModem
    <2>5. CASE FinishSend(w)
      BY <2>5 DEF FinishSend
    <2>6. CASE Record(w)
      BY <2>6 DEF Record
    <2>7. QED
      BY <1>2, <2>1, <2>2, <2>3, <2>4, <2>5, <2>6 DEF sendWorker
  <1>3. CASE AtServerCrash \/ watchdogLoop \/ Tick \/ UNCHANGED vars
    BY <1>3 DEF AtServerCrash, watchdogLoop, Tick, workerVars, vars
  <1>4. QED
    BY <1>1, <1>2, <1>3 DEF Next, handleHook, handleWSRequest

\* Through both frontends, with any allow-list and recipients of any form, only
\* PDUs whose recipient has the digits of an entry of -allow-to are claimed and
\* carried by workers (destinationAllowed, normalizeMSISDN).
THEOREM AllowListHolds == Spec => []OnlyAllowed
  <1>1. Init => OnlyAllowed
    BY DEF Init, OnlyAllowed, InFlight
  <1>2. QED
    BY <1>1, TypeCorrect, NextOnlyAllowed, PTL DEF Spec

-----------------------------------------------------------------------------
(* The accounting of results.                                              *)

\* There are finitely many goroutines.
LEMMA InFlightFinite == /\ IsFiniteSet(InFlight)
                        /\ Cardinality(InFlight) \in Nat
  <1>1. InFlight \subseteq Workers
    BY DEF InFlight
  <1>2. QED
    BY <1>1, DispatchAssumption, FS_Subset, FS_CardinalityType

\* A goroutine that starts adds one to the live ones, one that ends removes
\* one.
LEMMA GoroutineStarts ==
  ASSUME TypeOK, NEW w \in Workers, pc[w] = "idle",
         pc' = [pc EXCEPT ![w] = "read"]
  PROVE  Cardinality(InFlight') = Cardinality(InFlight) + 1
  <1>1. InFlight' = InFlight \cup {w} /\ w \notin InFlight
    BY DEF InFlight, TypeOK
  <1>2. QED
    BY <1>1, InFlightFinite, FS_AddElement

\* One that ends leaves the set.
LEMMA GoroutineEnds ==
  ASSUME TypeOK, NEW w \in Workers, pc[w] # "idle",
         pc' = [pc EXCEPT ![w] = "idle"]
  PROVE  Cardinality(InFlight') = Cardinality(InFlight) - 1
  <1>1. InFlight' = InFlight \ {w} /\ w \in InFlight
    BY DEF InFlight, TypeOK
  <1>2. QED
    BY <1>1, InFlightFinite, FS_RemoveElement

\* One that goes on stays in it.
LEMMA GoroutineGoesOn ==
  ASSUME TypeOK, NEW w \in Workers, NEW l \in PCs, pc[w] # "idle", l # "idle",
         pc' = [pc EXCEPT ![w] = l]
  PROVE  Cardinality(InFlight') = Cardinality(InFlight)
  <1>1. InFlight' = InFlight
    BY DEF InFlight, TypeOK
  <1>2. QED
    BY <1>1

\* Every step keeps the account.
LEMMA NextAccounting == TypeOK /\ Accounting /\ [Next]_vars => Accounting'
  <1> SUFFICES ASSUME TypeOK, Accounting, [Next]_vars PROVE Accounting'
    OBVIOUS
  <1>1. /\ log \in [Results -> Nat]
        /\ log["queued"] \in Nat /\ log["sent"] \in Nat
        /\ log["send-failed"] \in Nat /\ log["backoff"] \in Nat
    BY DEF TypeOK, Results
  <1> DEFINE C == Cardinality(InFlight)
             D == Cardinality(InFlight')
  <1>2. C \in Nat
    BY InFlightFinite
  <1>3. ASSUME NEW p \in PDUs, ClaimAndSpawn(p) PROVE Accounting'
    <2>1. D = C + 1
      BY <1>3, GoroutineStarts DEF ClaimAndSpawn
    <2>2. log' = [log EXCEPT !["queued"] = log["queued"] + 1]
      BY <1>3 DEF ClaimAndSpawn, Log
    <2> HIDE DEF C, D
    <2>3. log'["queued"] = log'["sent"] + log'["send-failed"] + log'["backoff"] + D
      BY <1>1, <1>2, <2>1, <2>2 DEF Accounting, Results, C
    <2>4. QED
      BY <2>3 DEF Accounting, D
  <1>4. ASSUME NEW w \in Workers, NEW r \in Results \ {"queued"},
               pc[w] # "idle", pc' = [pc EXCEPT ![w] = "idle"], Log(r)
        PROVE  Accounting'
    <2>1. D = C - 1
      BY <1>4, GoroutineEnds
    <2>2. log' = [log EXCEPT ![r] = log[r] + 1]
      BY <1>4 DEF Log
    <2>3. r = "sent" \/ r = "send-failed" \/ r = "backoff"
      BY <1>4 DEF Results
    <2> HIDE DEF C, D
    <2>4. log'["queued"] = log'["sent"] + log'["send-failed"] + log'["backoff"] + D
      BY <1>1, <1>2, <2>1, <2>2, <2>3 DEF Accounting, Results, C
    <2>5. QED
      BY <2>4 DEF Accounting, D
  <1>5. ASSUME NEW w \in Workers, NEW l \in PCs, pc[w] # "idle", l # "idle",
               pc' = [pc EXCEPT ![w] = l], UNCHANGED log
        PROVE  Accounting'
    BY <1>5, GoroutineGoesOn DEF Accounting
  <1>6. ASSUME UNCHANGED <<pc, log>> PROVE Accounting'
    BY <1>6 DEF Accounting, InFlight
  <1>7. ASSUME NEW w \in Workers, sendWorker(w) PROVE Accounting'
    <2>1. CASE ReadBackoff(w)
      BY <2>1, <1>5 DEF ReadBackoff, PCs
    <2>2. CASE CheckBackoff(w)
      <3>1. CASE now < until[w]
        BY <2>2, <3>1, <1>4 DEF CheckBackoff, Results, TypeOK
      <3>2. CASE ~(now < until[w])
        BY <2>2, <3>2, <1>5 DEF CheckBackoff, PCs, TypeOK
      <3>3. QED
        BY <3>1, <3>2
    <2>3. CASE PickTransport(w)
      BY <2>3, <1>5 DEF PickTransport, PCs
    <2>4. CASE LockModem(w)
      BY <2>4, <1>5 DEF LockModem, PCs
    <2>5. CASE FinishSend(w)
      BY <2>5, <1>5 DEF FinishSend, PCs
    <2>6. CASE Record(w)
      BY <2>6, <1>4 DEF Record, Results
    <2>7. QED
      BY <1>7, <2>1, <2>2, <2>3, <2>4, <2>5, <2>6 DEF sendWorker
  <1>8. QED
    BY <1>3, <1>6, <1>7
    DEF Next, handleHook, handleWSRequest, AtServerCrash, watchdogLoop, Tick,
        workerVars, vars

\* No accepted request is lost or counted twice: each is in the hands of one
\* live goroutine or has ended in exactly one reported result.
THEOREM NothingLost == Spec => []Accounting
  <1>1. Init => Accounting
    <2> SUFFICES ASSUME Init PROVE Accounting
      OBVIOUS
    <2>1. InFlight = {}
      BY DEF Init, InFlight
    <2>2. Cardinality(InFlight) = 0
      BY <2>1, FS_EmptySet
    <2>3. QED
      BY <2>2 DEF Init, Accounting, Results
  <1>2. QED
    BY <1>1, TypeCorrect, NextAccounting, PTL DEF Spec

-----------------------------------------------------------------------------
(* The refinement: the initial states are initial states of Relay, and     *)
(* every step is a step of Relay or leaves what Relay sees alone.          *)

\* What the state of Dispatch says about its past: a worker has no verdict
\* before its session is over, the failures in a row have all been reported,
\* and a worker that has read a backoff did so after three of them.
PastInv ==
  /\ \A w \in Workers : pc[w] # "record" => ok[w] = FALSE
  /\ consecFails <= log["send-failed"]
  /\ \A w \in Workers : until[w] > 0 => log["send-failed"] >= 3

\* Every step keeps PastInv.
LEMMA NextPastInv ==
  ASSUME TypeOK, BackoffConsistent, PastInv, [Next]_vars
  PROVE  PastInv'
<1> USE DEF TypeOK, PastInv, Results
<1>1. ASSUME NEW p \in PDUs, ClaimAndSpawn(p) PROVE PastInv'
  BY <1>1 DEF ClaimAndSpawn, Log
<1>2. ASSUME NEW w \in Workers, ReadBackoff(w) PROVE PastInv'
  <2>1. backoffUntil > 0 => log["send-failed"] >= 3
    BY DEF BackoffConsistent
  <2> QED
    BY <1>2, <2>1 DEF ReadBackoff
<1>3. ASSUME NEW w \in Workers, CheckBackoff(w) PROVE PastInv'
  BY <1>3 DEF CheckBackoff, Log
<1>4. ASSUME NEW w \in Workers, PickTransport(w) \/ LockModem(w) PROVE PastInv'
  BY <1>4 DEF PickTransport, LockModem
<1>5. ASSUME NEW w \in Workers, FinishSend(w) PROVE PastInv'
  BY <1>5 DEF FinishSend
<1>6. ASSUME NEW w \in Workers, Record(w) PROVE PastInv'
  BY <1>6 DEF Record, RecordResult, Log
<1>7. CASE AtServerCrash \/ watchdogLoop \/ Tick \/ UNCHANGED vars
  BY <1>7 DEF AtServerCrash, watchdogLoop, Tick, workerVars, vars
<1> QED
  BY <1>1, <1>2, <1>3, <1>4, <1>5, <1>6, <1>7
  DEF Next, handleHook, handleWSRequest, sendWorker

-----------------------------------------------------------------------------
(* The steps, as Relay sees them.                                          *)

Phase == [w \in Workers |-> PhaseOf(pc[w])]

\* A worker that moves from l to m moves its phase.
LEMMA PhaseMoves ==
  ASSUME TypeOK, NEW w \in Workers, NEW l \in PCs, pc' = [pc EXCEPT ![w] = l]
  PROVE  Phase' = [Phase EXCEPT ![w] = PhaseOf(l)]
BY DEF TypeOK, Phase

\* Every step of Dispatch is a step of Relay or a stutter.
LEMMA StepRefines ==
  ASSUME TypeOK, ModemMutex, PastInv, [Next]_vars
  PROVE  [Promise!Next]_(Promise!vars)
<1> USE DEF TypeOK, Results
<1>a. \A w \in Workers : Phase[w] = PhaseOf(pc[w])
  BY DEF Phase
<1>1. ASSUME NEW p \in PDUs, destinationAllowed(p), ClaimAndSpawn(p)
      PROVE  Promise!Next
  <2>1. PICK w \in Workers : /\ pc[w] = "idle"
                             /\ pc' = [pc EXCEPT ![w] = "read"]
                             /\ pdu' = [pdu EXCEPT ![w] = p]
    BY <1>1 DEF ClaimAndSpawn
  <2>2. Phase' = [Phase EXCEPT ![w] = "accepted"] /\ Phase[w] = "free"
    BY <1>a, <2>1, PhaseMoves DEF PhaseOf, PCs
  <2>3. Promise!Accept(w, p)
    BY <1>1, <2>1, <2>2 DEF Promise!Accept, Promise!Count, Phase,
       ClaimAndSpawn, Log
  <2> QED
    BY <1>1, <2>3 DEF Promise!Next
<1>2. ASSUME NEW w \in Workers, CheckBackoff(w), now < until[w]
      PROVE  Promise!Next
  <2>1. Phase' = [Phase EXCEPT ![w] = "free"] /\ Phase[w] = "accepted"
    BY <1>2, <1>a, PhaseMoves DEF CheckBackoff, PhaseOf, PCs
  <2>2. ok' = [ok EXCEPT ![w] = FALSE]
    <3>1. ok[w] = FALSE /\ ok' = ok
      BY <1>2 DEF CheckBackoff, PastInv
    <3> QED
      BY <3>1
  <2>3. log["send-failed"] >= 3
    BY <1>2 DEF PastInv
  <2>4. pdu' = [pdu EXCEPT ![w] = NoPDU] /\ Log("backoff")
    BY <1>2 DEF CheckBackoff
  <2>5. Promise!TurnAway(w)
    BY <2>1, <2>2, <2>3, <2>4 DEF Promise!TurnAway, Promise!Count,
       Promise!Clear, Phase, Log
  <2> QED
    BY <2>5 DEF Promise!Next
<1>3. ASSUME NEW w \in Workers, LockModem(w)
      PROVE  Promise!Next
  <2>1. Phase' = [Phase EXCEPT ![w] = "sending"] /\ Phase[w] = "accepted"
    BY <1>3, <1>a, PhaseMoves DEF LockModem, PhaseOf, PCs
  <2>2. \A v \in Workers : Phase[v] # "sending"
    BY <1>3, <1>a, DispatchAssumption DEF LockModem, ModemMutex, PhaseOf
  <2>3. Promise!Begin(w)
    BY <1>3, <2>1, <2>2 DEF Promise!Begin, Phase, LockModem
  <2> QED
    BY <2>3 DEF Promise!Next
<1>4. ASSUME NEW w \in Workers, FinishSend(w)
      PROVE  Promise!Next
  <2>1. Phase' = [Phase EXCEPT ![w] = "over"] /\ Phase[w] = "sending"
    BY <1>4, <1>a, PhaseMoves DEF FinishSend, PhaseOf, PCs
  <2>2. Promise!End(w)
    BY <1>4, <2>1 DEF Promise!End, Phase, FinishSend
  <2> QED
    BY <2>2 DEF Promise!Next
<1>5. ASSUME NEW w \in Workers, Record(w)
      PROVE  Promise!Next
  <2>1. Phase' = [Phase EXCEPT ![w] = "free"] /\ Phase[w] = "over"
    BY <1>5, <1>a, PhaseMoves DEF Record, PhaseOf, PCs
  <2>2. Promise!Settle(w)
    BY <1>5, <2>1 DEF Promise!Settle, Promise!Count, Promise!Clear, Phase,
       Record, Log
  <2> QED
    BY <2>2 DEF Promise!Next
<1>6. ASSUME NEW w \in Workers,
             \/ ReadBackoff(w) \/ PickTransport(w)
             \/ CheckBackoff(w) /\ ~(now < until[w])
      PROVE  UNCHANGED Promise!vars
  <2>1. Phase' = Phase
    <3>1. PICK l \in PCs : /\ pc' = [pc EXCEPT ![w] = l]
                           /\ PhaseOf(l) = PhaseOf(pc[w])
      BY <1>6 DEF ReadBackoff, PickTransport, CheckBackoff, PCs, PhaseOf
    <3> QED
      BY <3>1, PhaseMoves DEF Phase
  <2>2. UNCHANGED <<pdu, ok, log>>
    BY <1>6 DEF ReadBackoff, PickTransport, CheckBackoff
  <2> QED
    BY <2>1, <2>2 DEF Promise!vars, Phase
<1>7. CASE AtServerCrash \/ watchdogLoop \/ Tick \/ UNCHANGED vars
  BY <1>7 DEF AtServerCrash, watchdogLoop, Tick, workerVars, vars,
     Promise!vars
<1>8. ASSUME NEW p \in PDUs, handleHook(p) \/ handleWSRequest(p)
      PROVE  [Promise!Next]_(Promise!vars)
  BY <1>1, <1>7, <1>8 DEF handleHook, handleWSRequest
<1>9. CASE \E body : (handleHook(body) \/ handleWSRequest(body)) /\ body \notin PDUs
  BY <1>7, <1>9 DEF handleHook, handleWSRequest
<1> QED
  BY <1>2, <1>3, <1>4, <1>5, <1>6, <1>7, <1>8, <1>9
  DEF Next, HookBodies, WSRequests, sendWorker

\* The dispatch core keeps the promise of Relay: one session or a justified
\* refusal for every accepted request, and its own verdict in the log.
THEOREM DispatchImplementsRelay == Spec => ImplementsRelay
<1> DEFINE Inv == TypeOK /\ ModemMutex /\ BackoffConsistent /\ PastInv
<1>1. Init => Inv
  <2>1. Init => TypeOK /\ PastInv
    BY InitTypeOK DEF Init, PastInv, Results
  <2>2. Init => ModemMutex /\ BackoffConsistent
    BY DispatchAssumption, BackoffRange DEF Init, ModemMutex, BackoffConsistent
  <2> QED
    BY <2>1, <2>2
<1>2. Inv /\ [Next]_vars => Inv'
  BY NextTypeOK, NextModemMutex, NextBackoffConsistent, NextPastInv
<1>3. Init => Promise!Init
  BY DEF Init, Promise!Init, PhaseOf, Results
<1>4. Inv /\ [Next]_vars => [Promise!Next]_(Promise!vars)
  BY StepRefines
<1> QED
  BY <1>1, <1>2, <1>3, <1>4, PTL DEF Spec, ImplementsRelay, Promise!Spec

-----------------------------------------------------------------------------
(* The histories: claims, sessions and early readers of the backoff.       *)

\* What a step can be, for the variables the histories look at.
LEMMA StepKinds ==
  ASSUME TypeOK, [Next]_vars
  PROVE  \/ \E p \in PDUs : ClaimAndSpawn(p)
         \/ \E w \in Workers : sendWorker(w)
         \/ /\ UNCHANGED <<lastPDU, lastSent, consecFails, backoffUntil,
                           modemMu, pc, pdu, until, tr, ok, log>>
            /\ now' \in {now, now + 1}
<1>1. CASE AtServerCrash \/ watchdogLoop \/ Tick \/ UNCHANGED vars
  BY <1>1 DEF AtServerCrash, watchdogLoop, Tick, workerVars, vars
<1> QED
  BY <1>1 DEF Next, handleHook, handleWSRequest

\* Only a claim counts as queued.
LEMMA WorkersDoNotQueue ==
  ASSUME TypeOK, NEW w \in Workers, sendWorker(w)
  PROVE  log'["queued"] = log["queued"] /\ UNCHANGED <<now, lastPDU, lastSent>>
BY DEF TypeOK, Results, sendWorker, ReadBackoff, CheckBackoff, PickTransport,
   LockModem, FinishSend, Record, Log

\* A claim is logged as queued.
LEMMA ClaimsQueue ==
  ASSUME TypeOK, NEW p \in PDUs, ClaimAndSpawn(p)
  PROVE  log'["queued"] # log["queued"]
BY DEF TypeOK, Results, ClaimAndSpawn, Log

\* HSpec restricts no step of Dispatch.
LEMMA HistoryIsDispatch == HSpec => Spec
<1>1. HInit => Init
  BY DEF HInit
<1>2. [HNext]_hvars => [Next]_vars
  BY DEF HNext, hvars
<1> QED
  BY <1>1, <1>2, PTL DEF HSpec, Spec

-----------------------------------------------------------------------------
(* Who can start a session in a backoff.                                   *)

\* The inductive invariant: whoever is past its read of the backoff and not in
\* grace has read, or even obeyed, the backoff that is set now.
GraceInv ==
  \A w \in Workers \ grace :
    /\ pc[w] = "check" => backoffUntil <= until[w]
    /\ pc[w] \in {"pick", "lock"} => backoffUntil <= now

\* Every step keeps the early readers apart from the others.
LEMMA NextGraceInv ==
  ASSUME TypeOK, TypeOK', GraceInv, [HNext]_hvars
  PROVE  GraceInv'
<1>0. [Next]_vars /\ (HGrace \/ UNCHANGED <<vars, grace>>)
  BY DEF HNext, hvars
<1>1. CASE UNCHANGED <<vars, grace>>
  BY <1>1 DEF GraceInv, vars
<1> SUFFICES ASSUME HGrace PROVE GraceInv'
  BY <1>0, <1>1
<1>2. CASE backoffUntil' # backoffUntil /\ backoffUntil' # 0
  BY <1>2 DEF HGrace, PastRead, GraceInv
<1>3. CASE backoffUntil' = 0
  BY <1>3 DEF GraceInv, TypeOK
<1>4. CASE backoffUntil' = backoffUntil /\ backoffUntil' # 0
  <2>1. grace' = grace \cap PastRead'
    BY <1>4 DEF HGrace
  <2>2. \A v \in Workers :
          pc'[v] \in {"check", "pick", "lock"} /\ v \notin grace' => v \notin grace
    BY <2>1 DEF PastRead
  <2>3. CASE \E p \in PDUs : ClaimAndSpawn(p)
    BY <1>4, <2>2, <2>3 DEF ClaimAndSpawn, GraceInv, TypeOK
  <2>4. ASSUME NEW w \in Workers, sendWorker(w) PROVE GraceInv'
    <3>1. CASE ReadBackoff(w)
      BY <1>4, <2>2, <3>1 DEF ReadBackoff, GraceInv, TypeOK
    <3>2. CASE CheckBackoff(w)
      BY <1>4, <2>2, <3>2 DEF CheckBackoff, GraceInv, TypeOK
    <3>3. CASE PickTransport(w)
      BY <1>4, <2>2, <3>3 DEF PickTransport, GraceInv, TypeOK
    <3>4. CASE LockModem(w) \/ FinishSend(w) \/ Record(w)
      BY <1>4, <2>2, <3>4 DEF LockModem, FinishSend, Record, GraceInv, TypeOK
    <3> QED
      BY <2>4, <3>1, <3>2, <3>3, <3>4 DEF sendWorker
  <2>5. CASE UNCHANGED <<pc, until>> /\ now' \in {now, now + 1}
    BY <1>4, <2>2, <2>5 DEF GraceInv, TypeOK
  <2> QED
    BY <1>0, <2>3, <2>4, <2>5, StepKinds
<1> QED
  BY <1>2, <1>3, <1>4

\* While a backoff runs, only workers that had read the backoff state before
\* it was armed can still begin a session (sendWorker).
THEOREM OnlyTheQueueSlipsThrough == HSpec => OnlyEarlyReadersInBackoff
<1>1. HInit => GraceInv
  BY DEF HInit, Init, GraceInv
<1>2. TypeOK /\ TypeOK' /\ GraceInv /\ [HNext]_hvars => GraceInv'
  BY NextGraceInv
<1>3. TypeOK /\ GraceInv =>
        [\A w \in Workers : LockModem(w) /\ now < backoffUntil => w \in grace]_hvars
  BY DEF LockModem, GraceInv, TypeOK
<1> QED
  BY <1>1, <1>2, <1>3, HistoryIsDispatch, TypeCorrect, PTL
  DEF HSpec, OnlyEarlyReadersInBackoff

-----------------------------------------------------------------------------
(* Counting sessions.                                                      *)

HistTypeOK ==
  /\ claimed \in [PDUs -> Nat]
  /\ begun \in [PDUs -> Nat]
  /\ failed \in Nat

\* What the kinds of steps do to the counts.
LEMMA HistoryStep ==
  ASSUME TypeOK, ModemMutex, HistTypeOK, [HNext]_hvars
  PROVE  \/ \E p \in PDUs :
              /\ ClaimAndSpawn(p)
              /\ claimed' = [claimed EXCEPT ![p] = claimed[p] + 1]
              /\ UNCHANGED <<begun, failed>>
         \/ \E w \in Workers :
              /\ LockModem(w)
              /\ begun' = [begun EXCEPT ![pdu[w]] = begun[pdu[w]] + 1]
              /\ UNCHANGED <<claimed, failed>>
         \/ \E w \in Workers :
              /\ FinishSend(w)
              /\ failed' = IF ok'[w] THEN failed ELSE failed + 1
              /\ UNCHANGED <<claimed, begun>>
         \/ /\ UNCHANGED <<claimed, begun, failed>>
            /\ \/ \E w \in Workers :
                    ReadBackoff(w) \/ CheckBackoff(w) \/ PickTransport(w) \/ Record(w)
               \/ UNCHANGED <<consecFails, pc, pdu, ok>>
<1>0. CASE UNCHANGED hvars
  BY <1>0 DEF hvars, vars
<1> SUFFICES ASSUME Next, HClaim, HBegin, HEnd
             PROVE  \/ \E p \in PDUs :
                         /\ ClaimAndSpawn(p)
                         /\ claimed' = [claimed EXCEPT ![p] = claimed[p] + 1]
                         /\ UNCHANGED <<begun, failed>>
                    \/ \E w \in Workers :
                         /\ LockModem(w)
                         /\ begun' = [begun EXCEPT ![pdu[w]] = begun[pdu[w]] + 1]
                         /\ UNCHANGED <<claimed, failed>>
                    \/ \E w \in Workers :
                         /\ FinishSend(w)
                         /\ failed' = IF ok'[w] THEN failed ELSE failed + 1
                         /\ UNCHANGED <<claimed, begun>>
                    \/ /\ UNCHANGED <<claimed, begun, failed>>
                       /\ \/ \E w \in Workers :
                               \/ ReadBackoff(w) \/ CheckBackoff(w)
                               \/ PickTransport(w) \/ Record(w)
                          \/ UNCHANGED <<consecFails, pc, pdu, ok>>
  BY <1>0 DEF HNext
<1>1. ASSUME UNCHANGED modemMu PROVE UNCHANGED <<begun, failed>>
  BY <1>1 DEF HBegin, HEnd
<1>2. ASSUME log'["queued"] = log["queued"] PROVE UNCHANGED claimed
  BY <1>2 DEF HClaim
<1>3. ASSUME NEW p \in PDUs, ClaimAndSpawn(p)
      PROVE  /\ claimed' = [claimed EXCEPT ![p] = claimed[p] + 1]
             /\ UNCHANGED <<begun, failed>>
  <2>1. log'["queued"] # log["queued"] /\ lastPDU' = p /\ UNCHANGED modemMu
    BY <1>3, ClaimsQueue DEF ClaimAndSpawn
  <2> QED
    BY <1>1, <2>1 DEF HClaim
<1>4. ASSUME NEW w \in Workers, LockModem(w)
      PROVE  /\ begun' = [begun EXCEPT ![pdu[w]] = begun[pdu[w]] + 1]
             /\ UNCHANGED <<claimed, failed>>
  <2>1. modemMu = NoWorker /\ modemMu' = w /\ w # NoWorker /\ UNCHANGED <<pdu, log>>
    BY <1>4, DispatchAssumption DEF LockModem
  <2> QED
    BY <1>2, <2>1 DEF HBegin, HEnd
<1>5. ASSUME NEW w \in Workers, FinishSend(w)
      PROVE  /\ failed' = IF ok'[w] THEN failed ELSE failed + 1
             /\ UNCHANGED <<claimed, begun>>
  <2>1. modemMu = w /\ modemMu' = NoWorker /\ w # NoWorker /\ UNCHANGED log
    BY <1>5, DispatchAssumption DEF FinishSend, ModemMutex
  <2> QED
    BY <1>2, <2>1 DEF HBegin, HEnd
<1>6. ASSUME NEW w \in Workers,
             ReadBackoff(w) \/ CheckBackoff(w) \/ PickTransport(w) \/ Record(w)
      PROVE  UNCHANGED <<claimed, begun, failed>>
  <2>1. UNCHANGED modemMu
    BY <1>6 DEF ReadBackoff, CheckBackoff, PickTransport, Record
  <2>2. log'["queued"] = log["queued"]
    BY <1>6, WorkersDoNotQueue DEF sendWorker
  <2> QED
    BY <1>1, <1>2, <2>1, <2>2
<1> QED
  BY <1>1, <1>2, <1>3, <1>4, <1>5, <1>6, StepKinds DEF sendWorker

\* The counts are numbers.
LEMMA NextHistTypeOK ==
  ASSUME TypeOK, ModemMutex, HistTypeOK, [HNext]_hvars
  PROVE  HistTypeOK'
BY HistoryStep DEF HistTypeOK

\* Finitely many workers wait.
LEMMA WaitingFinite ==
  ASSUME NEW p
  PROVE  IsFiniteSet(Waiting(p)) /\ Cardinality(Waiting(p)) \in Nat
<1>1. Waiting(p) \subseteq Workers
  BY DEF Waiting, InFlight
<1> QED
  BY <1>1, DispatchAssumption, FS_Subset, FS_CardinalityType

\* Every step keeps sessions and waiting workers within the claims.
LEMMA NextOncePerClaim ==
  ASSUME TypeOK, ModemMutex, HistTypeOK, OncePerClaim, [HNext]_hvars
  PROVE  OncePerClaim'
<1> SUFFICES ASSUME NEW p \in PDUs
             PROVE  begun'[p] + Cardinality(Waiting(p)') <= claimed'[p]
  BY DEF OncePerClaim
<1> DEFINE W == Waiting(p)
           V == Waiting(p)'
<1> HIDE DEF W, V
<1>1. /\ IsFiniteSet(W) /\ Cardinality(W) \in Nat
      /\ begun[p] \in Nat /\ claimed[p] \in Nat
      /\ begun[p] + Cardinality(W) <= claimed[p]
  BY WaitingFinite DEF W, HistTypeOK, OncePerClaim
<1>2. ASSUME NEW w \in Workers, LockModem(w),
             begun' = [begun EXCEPT ![pdu[w]] = begun[pdu[w]] + 1],
             UNCHANGED claimed
      PROVE  begun'[p] + Cardinality(V) <= claimed'[p]
  <2>1. begun'[p] = begun[p] + (IF pdu[w] = p THEN 1 ELSE 0)
    BY <1>1, <1>2 DEF HistTypeOK
  <2>2. /\ V = IF pdu[w] = p THEN W \ {w} ELSE W
        /\ pdu[w] = p => w \in W
    BY <1>2 DEF LockModem, V, W, Waiting, InFlight, TypeOK
  <2>3. pdu[w] = p => Cardinality(V) = Cardinality(W) - 1
    BY <1>1, <2>2, FS_RemoveElement
  <2> QED
    BY <1>1, <1>2, <2>1, <2>2, <2>3
<1>3. ASSUME NEW w \in Workers, FinishSend(w), UNCHANGED <<claimed, begun>>
      PROVE  begun'[p] + Cardinality(V) <= claimed'[p]
  <2>1. V = W
    BY <1>3 DEF FinishSend, V, W, Waiting, InFlight, TypeOK
  <2> QED
    BY <1>1, <1>3, <2>1
<1>4. ASSUME NEW q \in PDUs, ClaimAndSpawn(q), UNCHANGED begun,
             claimed' = [claimed EXCEPT ![q] = claimed[q] + 1]
      PROVE  begun'[p] + Cardinality(V) <= claimed'[p]
  <2>1. claimed'[p] = claimed[p] + (IF q = p THEN 1 ELSE 0)
    BY <1>1, <1>4 DEF HistTypeOK
  <2>2. PICK w \in Workers : /\ pc[w] = "idle"
                             /\ pc' = [pc EXCEPT ![w] = "read"]
                             /\ pdu' = [pdu EXCEPT ![w] = q]
    BY <1>4 DEF ClaimAndSpawn
  <2>3. V = (IF q = p THEN W \cup {w} ELSE W) /\ w \notin W
    BY <2>2 DEF V, W, Waiting, InFlight, TypeOK
  <2>4. q = p => Cardinality(V) = Cardinality(W) + 1
    BY <1>1, <2>3, FS_AddElement
  <2> QED
    BY <1>1, <1>4, <2>1, <2>3, <2>4
<1>5. ASSUME NEW w \in Workers, UNCHANGED <<claimed, begun>>,
             ReadBackoff(w) \/ CheckBackoff(w) \/ PickTransport(w) \/ Record(w)
      PROVE  begun'[p] + Cardinality(V) <= claimed'[p]
  <2>1. V \subseteq W
    BY <1>5, DispatchAssumption DEF ReadBackoff, CheckBackoff, PickTransport,
       Record, V, W, Waiting, InFlight, TypeOK
  <2>2. Cardinality(V) \in Nat /\ Cardinality(V) <= Cardinality(W)
    BY <1>1, <2>1, FS_Subset, FS_CardinalityType
  <2> QED
    BY <1>1, <1>5, <2>2
<1>6. ASSUME UNCHANGED <<claimed, begun, pc, pdu>>
      PROVE  begun'[p] + Cardinality(V) <= claimed'[p]
  <2>1. V = W
    BY <1>6 DEF V, W, Waiting, InFlight
  <2> QED
    BY <1>1, <1>6, <2>1
<1>7. begun'[p] + Cardinality(V) <= claimed'[p]
  BY <1>2, <1>3, <1>4, <1>5, <1>6, HistoryStep
<1> QED
  BY <1>7 DEF V

\* Nothing has been counted at first.
LEMMA InitHistory == HInit => HistTypeOK /\ OncePerClaim
<1> SUFFICES ASSUME HInit PROVE HistTypeOK /\ OncePerClaim
  OBVIOUS
<1>1. HistTypeOK
  BY DEF HInit, HistTypeOK
<1>2. ASSUME NEW p \in PDUs
      PROVE  begun[p] = 0 /\ claimed[p] = 0 /\ Cardinality(Waiting(p)) = 0
  <2>1. Waiting(p) = {}
    BY DEF HInit, Init, Waiting, InFlight
  <2> QED
    BY <2>1, FS_EmptySet DEF HInit
<1> QED
  BY <1>1, <1>2 DEF OncePerClaim

\* No PDU gets more sessions than its claims, for any number of workers:
\* sendWorker neither retries nor transmits for somebody else.
THEOREM NeverSentTwice == HSpec => []OncePerClaim
<1>1. TypeOK /\ ModemMutex /\ HistTypeOK /\ OncePerClaim /\ [HNext]_hvars
        => HistTypeOK' /\ OncePerClaim'
  BY NextHistTypeOK, NextOncePerClaim
<1> QED
  BY <1>1, InitHistory, HistoryIsDispatch, TypeCorrect, SessionsExclude, PTL
  DEF HSpec

-----------------------------------------------------------------------------
(* The failure counter against the sessions.                               *)

Unrecorded == {w \in Workers : pc[w] = "record" /\ ~ok[w]}

\* The inductive invariant: failures that are counted, and failures whose
\* workers still have to count them, are different sessions.
FailsInv == consecFails + Cardinality(Unrecorded) <= failed

\* There are finitely many failures to record.
LEMMA UnrecordedFinite ==
  IsFiniteSet(Unrecorded) /\ Cardinality(Unrecorded) \in Nat
<1>1. Unrecorded \subseteq Workers
  BY DEF Unrecorded
<1> QED
  BY <1>1, DispatchAssumption, FS_Subset, FS_CardinalityType

\* Every step keeps the counter within the failures.
LEMMA NextFailsInv ==
  ASSUME TypeOK, ModemMutex, HistTypeOK, FailsInv, [HNext]_hvars
  PROVE  FailsInv'
<1> DEFINE U == Unrecorded
           V == Unrecorded'
<1>1. /\ IsFiniteSet(U) /\ Cardinality(U) \in Nat
      /\ consecFails \in Nat /\ failed \in Nat
      /\ consecFails + Cardinality(U) <= failed
  BY UnrecordedFinite DEF FailsInv, TypeOK, HistTypeOK
<1> SUFFICES consecFails' + Cardinality(V) <= failed'
  BY DEF FailsInv
<1> HIDE DEF U, V
<1>2. ASSUME NEW w \in Workers, FinishSend(w),
             failed' = IF ok'[w] THEN failed ELSE failed + 1
      PROVE  consecFails' + Cardinality(V) <= failed'
  <2>1. /\ V = IF ok'[w] THEN U ELSE U \cup {w}
        /\ w \notin U /\ consecFails' = consecFails
    BY <1>2 DEF FinishSend, U, V, Unrecorded, TypeOK
  <2>2. Cardinality(U \cup {w}) = Cardinality(U) + 1
    BY <1>1, <2>1, FS_AddElement
  <2> QED
    BY <1>1, <1>2, <2>1, <2>2
<1>3. ASSUME NEW w \in Workers, Record(w), UNCHANGED failed
      PROVE  consecFails' + Cardinality(V) <= failed'
  <2>1. V = U \ {w} /\ (ok[w] <=> w \notin U)
    BY <1>3 DEF Record, U, V, Unrecorded, TypeOK
  <2>2. consecFails' = IF ok[w] THEN 0 ELSE consecFails + 1
    BY <1>3 DEF Record, RecordResult
  <2>3. ~ok[w] => Cardinality(V) = Cardinality(U) - 1
    BY <1>1, <2>1, FS_RemoveElement
  <2>4. ok[w] => V = U
    BY <2>1
  <2> QED
    BY <1>1, <1>3, <2>2, <2>3, <2>4
<1>4. ASSUME UNCHANGED failed,
             \/ \E p \in PDUs : ClaimAndSpawn(p)
             \/ \E w \in Workers : \/ ReadBackoff(w) \/ CheckBackoff(w)
                                   \/ PickTransport(w) \/ LockModem(w)
             \/ UNCHANGED <<consecFails, pc, pdu, ok>>
      PROVE  consecFails' + Cardinality(V) <= failed'
  <2>1. V = U /\ consecFails' = consecFails
    BY <1>4 DEF ClaimAndSpawn, ReadBackoff, CheckBackoff, PickTransport,
       LockModem, U, V, Unrecorded, TypeOK
  <2> QED
    BY <1>1, <1>4, <2>1
<1> QED
  BY <1>2, <1>3, <1>4, HistoryStep

\* The failure counter never exceeds the failed sessions there were, although
\* workers record late and in any order.
THEOREM FailuresAreReal == HSpec => []FailsWereReal
<1>1. HInit => FailsInv
  <2> SUFFICES ASSUME HInit PROVE FailsInv
    OBVIOUS
  <2>1. Unrecorded = {} /\ consecFails = 0 /\ failed = 0
    BY DEF HInit, Init, Unrecorded
  <2> QED
    BY <2>1, FS_EmptySet DEF FailsInv
<1>2. TypeOK /\ ModemMutex /\ HistTypeOK /\ FailsInv /\ [HNext]_hvars
        => HistTypeOK' /\ FailsInv'
  BY NextHistTypeOK, NextFailsInv
<1>3. TypeOK /\ HistTypeOK /\ FailsInv => FailsWereReal
  BY UnrecordedFinite DEF FailsInv, FailsWereReal, TypeOK, HistTypeOK
<1> QED
  BY <1>1, <1>2, <1>3, InitHistory, HistoryIsDispatch, TypeCorrect,
     SessionsExclude, PTL DEF HSpec
=============================================================================
