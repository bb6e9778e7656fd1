------------------------------ MODULE Dispatch ------------------------------
(***************************************************************************)
(* The heart of the relay: what happens to a PDU between the panel's       *)
(* request and the modem.  A frontend handler (handleHook in -mode http,   *)
(* handleWSRequest in -mode ws) screens the request, reserves the PDU with *)
(* claimPDU and starts a sendWorker goroutine, which consults the failure  *)
(* backoff, picks a transport, waits for the modem mutex, runs one AT      *)
(* session and records the outcome.  The atserver process, which can die   *)
(* at any moment and which watchdogLoop restarts, is part of the picture   *)
(* because pickTransport looks at it.                                      *)
(*                                                                         *)
(* Time is a discrete clock.  The variables lastPDU, lastSent, consecFails *)
(* and backoffUntil are the program's package variables of the same names; *)
(* each critical section under stateMu or failMu is one atomic step.       *)
(***************************************************************************)
EXTENDS Integers, Sequences, FiniteSets

CONSTANTS
  PDUs,          \* well-formed SMS-SUBMIT PDUs the panel may submit
  Recipient,     \* [PDUs -> [ton, digits]]: type and half-octets of the address
  AllowTo,       \* the entries of -allow-to, as sequences of characters
  Modes,         \* values of -mode the process may be started with
  AtMode,        \* -at: "auto", "atsrv" or "rpm30"
  Report,        \* -report
  Cooldown,      \* -cooldown, in clock ticks
  BackoffBase,   \* the 5 minutes of backoffFor, in clock ticks
  BackoffMax,    \* the 2 hours of backoffFor, in clock ticks
  Workers,       \* bound: sendWorker goroutines alive at the same time
  NoPDU,         \* the empty lastPDU of a process that has just started
  NoWorker,      \* modemMu is free
  MaxQueued,     \* bound: requests accepted in one behaviour
  MaxNow         \* bound: last instant of the clock

ASSUME DispatchAssumption ==
  /\ NoPDU \notin PDUs
  /\ NoWorker \notin Workers
  /\ IsFiniteSet(Workers)
  /\ Modes \subseteq {"http", "ws"}
  /\ AtMode \in {"auto", "atsrv", "rpm30"}
  /\ Report \in BOOLEAN
  /\ Cooldown \in Nat
  /\ BackoffBase \in Nat \ {0}
  /\ BackoffMax \in BackoffBase .. 32 * BackoffBase
  /\ MaxQueued \in Nat
  /\ MaxNow \in Nat

VARIABLES
  mode,          \* -mode: which frontend runs
  now,           \* the monotonic clock
  lastPDU,       \* last PDU claimed
  lastSent,      \* when it was claimed
  consecFails,   \* failures recorded since the last recorded success
  backoffUntil,  \* end of the backoff; 0 is Go's zero time
  modemMu,       \* holder of the modem mutex
  pc,            \* where each sendWorker goroutine is
  pdu,           \* its PDU
  until,         \* its copy of backoffUntil
  tr,            \* the transport it picked
  ok,            \* the result of its AT session
  atserver,      \* is /bin/atserver running?
  log            \* how often each accounted result has been reported

workerVars == <<pc, pdu, until, tr, ok>>
vars == <<mode, now, lastPDU, lastSent, consecFails, backoffUntil, modemMu,
          pc, pdu, until, tr, ok, atserver, log>>

Results == {"queued", "backoff", "sent", "send-failed"}
Transports == {"atsrv", "rpm30"}
PCs == {"idle", "read", "check", "pick", "lock", "send", "record"}

TypeOK ==
  /\ mode \in Modes
  /\ now \in 0 .. MaxNow
  /\ lastPDU \in PDUs \cup {NoPDU}
  /\ lastSent \in 0 .. MaxNow
  /\ consecFails \in Nat
  /\ backoffUntil \in Nat
  /\ modemMu \in Workers \cup {NoWorker}
  /\ pc \in [Workers -> PCs]
  /\ pdu \in [Workers -> PDUs \cup {NoPDU}]
  /\ until \in [Workers -> Nat]
  /\ tr \in [Workers -> Transports]
  /\ ok \in [Workers -> BOOLEAN]
  /\ atserver \in BOOLEAN
  /\ log \in [Results -> Nat]

Init ==
  /\ mode \in Modes
  /\ now = 0
  /\ lastPDU = NoPDU
  /\ lastSent = 0
  /\ consecFails = 0
  /\ backoffUntil = 0
  /\ modemMu = NoWorker
  /\ pc = [w \in Workers |-> "idle"]
  /\ pdu = [w \in Workers |-> NoPDU]
  /\ until = [w \in Workers |-> 0]
  /\ tr = [w \in Workers |-> "rpm30"]
  /\ ok = [w \in Workers |-> FALSE]
  /\ atserver \in BOOLEAN
  /\ log = [r \in Results |-> 0]

-----------------------------------------------------------------------------
(* Helpers the code computes its decisions with.                           *)

\* The loop of backoffFor, unrolled: it doubles the base once per failure
\* beyond the third and stops as soon as the cap is reached.
backoffFor(fails) ==
  LET d == CASE fails = 3 -> BackoffBase
             [] fails = 4 -> 2 * BackoffBase
             [] fails = 5 -> 4 * BackoffBase
             [] fails = 6 -> 8 * BackoffBase
             [] fails = 7 -> 16 * BackoffBase
             [] OTHER     -> 32 * BackoffBase
  IN  IF fails < 3 THEN 0
      ELSE IF d > BackoffMax THEN BackoffMax ELSE d

\* A character, or the half-octet that decodeSubmitPDU prints as one, is a
\* decimal digit, or it is something else (10 and above: "+", "A" to "F", ...).
IsDigit(c) == c \in 0 .. 9

normalizeMSISDN(s) == SelectSeq(s, IsDigit)

\* parseAllowList: entries without a digit do not count.
AllowedDest == {normalizeMSISDN(e) : e \in AllowTo} \ {<<>>}

\* What decodeSubmitPDU makes of the address: it skips the type of number.
phone(p) == Recipient[p].digits

destinationAllowed(p) ==
  AllowedDest = {} \/ normalizeMSISDN(phone(p)) \in AllowedDest

\* The test of claimPDU: the identical PDU is still inside the window.
InCooldown(p) == p = lastPDU /\ now - lastSent < Cooldown

pickTransport ==
  CASE AtMode = "atsrv" -> "atsrv"
    [] AtMode = "rpm30" -> "rpm30"
    [] OTHER -> IF ~Report /\ atserver THEN "atsrv" ELSE "rpm30"

Log(r) == log' = [log EXCEPT ![r] = @ + 1]

-----------------------------------------------------------------------------
(* The frontends.  A request that is refused changes nothing but the log.  *)

\* claimPDU succeeds and the handler starts a sendWorker for the PDU.
ClaimAndSpawn(p) ==
  /\ ~InCooldown(p)
  /\ log["queued"] < MaxQueued
  /\ lastPDU' = p
  /\ lastSent' = now
  /\ \E w \in Workers :
       /\ pc[w] = "idle"
       /\ pc' = [pc EXCEPT ![w] = "read"]
       /\ pdu' = [pdu EXCEPT ![w] = p]
  /\ Log("queued")
  /\ UNCHANGED <<mode, now, consecFails, backoffUntil, modemMu, until, tr, ok,
                 atserver>>

\* POST /hook/<secret>: body is a PDU, or one of the bodies handleHook
\* answers without looking further.
HookBodies == PDUs \cup {"not-json", "no-pdu", "bad-pdu"}

\* Mutant: the HTTP frontend forgets the allow-list.
handleHookUnscreened(body) ==
  /\ mode = "http"
  /\ \/ body \in PDUs /\ ClaimAndSpawn(body)
     \/ /\ body \in PDUs => InCooldown(body)
        /\ UNCHANGED vars

handleHook(body) ==
  /\ mode = "http"
  /\ \/ /\ body \in PDUs
        /\ destinationAllowed(body)
        /\ ClaimAndSpawn(body)
     \/ /\ body \in PDUs => ~destinationAllowed(body) \/ InCooldown(body)
        /\ UNCHANGED vars

\* A decrypted gateway message: a PDU request, or one that sends nothing.
WSRequests == PDUs \cup {"not-json", "connect", "bad-pdu", "sms", "unknown"}

handleWSRequest(req) ==
  /\ mode = "ws"
  /\ \/ /\ req \in PDUs
        /\ destinationAllowed(req)
        /\ ClaimAndSpawn(req)
     \/ /\ req \in PDUs => ~destinationAllowed(req) \/ InCooldown(req)
        /\ UNCHANGED vars

-----------------------------------------------------------------------------
(* One sendWorker goroutine, step by step.                                 *)

\* failMu.Lock(); until := backoffUntil; failMu.Unlock()
ReadBackoff(w) ==
  /\ pc[w] = "read"
  /\ until' = [until EXCEPT ![w] = backoffUntil]
  /\ pc' = [pc EXCEPT ![w] = "check"]
  /\ UNCHANGED <<mode, now, lastPDU, lastSent, consecFails, backoffUntil,
                 modemMu, pdu, tr, ok, atserver, log>>

\* Mutant: a worker that meets the backoff ends without reporting it.
CheckBackoffSilent(w) ==
  /\ pc[w] = "check"
  /\ pc' = [pc EXCEPT ![w] = IF now < until[w] THEN "idle" ELSE "pick"]
  /\ UNCHANGED <<mode, now, lastPDU, lastSent, consecFails, backoffUntil,
                 modemMu, pdu, until, tr, ok, atserver, log>>

\* Mutant: the backoff is read and not obeyed.
CheckBackoffIgnored(w) ==
  /\ pc[w] = "check"
  /\ pc' = [pc EXCEPT ![w] = "pick"]
  /\ UNCHANGED <<mode, now, lastPDU, lastSent, consecFails, backoffUntil,
                 modemMu, pdu, until, tr, ok, atserver, log>>

\* The local copy is compared with the clock; inside the backoff the worker
\* logs "backoff" and ends.
CheckBackoff(w) ==
  /\ pc[w] = "check"
  /\ \/ /\ now < until[w]
        /\ pc' = [pc EXCEPT ![w] = "idle"]
        /\ pdu' = [pdu EXCEPT ![w] = NoPDU]
        /\ until' = [until EXCEPT ![w] = 0]
        /\ Log("backoff")
     \/ /\ now >= until[w]
        /\ pc' = [pc EXCEPT ![w] = "pick"]
        /\ UNCHANGED <<pdu, until, log>>
  /\ UNCHANGED <<mode, now, lastPDU, lastSent, consecFails, backoffUntil,
                 modemMu, tr, ok, atserver>>

\* The transport is chosen before the mutex is taken.
PickTransport(w) ==
  /\ pc[w] = "pick"
  /\ tr' = [tr EXCEPT ![w] = pickTransport]
  /\ pc' = [pc EXCEPT ![w] = "lock"]
  /\ UNCHANGED <<mode, now, lastPDU, lastSent, consecFails, backoffUntil,
                 modemMu, pdu, until, ok, atserver, log>>

\* Mutant: the session starts without the mutex.
LockModemAnyway(w) ==
  /\ pc[w] = "lock"
  /\ modemMu' = w
  /\ pc' = [pc EXCEPT ![w] = "send"]
  /\ UNCHANGED <<mode, now, lastPDU, lastSent, consecFails, backoffUntil,
                 pdu, until, tr, ok, atserver, log>>

\* modemMu.Lock(); the AT session begins.
LockModem(w) ==
  /\ pc[w] = "lock"
  /\ modemMu = NoWorker
  /\ modemMu' = w
  /\ pc' = [pc EXCEPT ![w] = "send"]
  /\ UNCHANGED <<mode, now, lastPDU, lastSent, consecFails, backoffUntil,
                 pdu, until, tr, ok, atserver, log>>

\* Mutant: a failed session returns without unlocking.
FinishSendLocked(w) ==
  /\ pc[w] = "send"
  /\ \E res \in BOOLEAN :
       /\ ok' = [ok EXCEPT ![w] = res]
       /\ modemMu' = IF res THEN NoWorker ELSE modemMu
  /\ pc' = [pc EXCEPT ![w] = "record"]
  /\ UNCHANGED <<mode, now, lastPDU, lastSent, consecFails, backoffUntil,
                 pdu, until, tr, atserver, log>>

\* Mutant: a failed session is tried again.
FinishSendRetry(w) ==
  /\ pc[w] = "send"
  /\ \E res \in BOOLEAN :
       /\ ok' = [ok EXCEPT ![w] = res]
       /\ pc' = [pc EXCEPT ![w] = IF res THEN "record" ELSE "lock"]
  /\ modemMu' = NoWorker
  /\ UNCHANGED <<mode, now, lastPDU, lastSent, consecFails, backoffUntil,
                 pdu, until, tr, atserver, log>>

\* The AT session ends; modemMu.Unlock().  What decides the result is the
\* subject of ATSrv and RawPort: here it is arbitrary.
FinishSend(w) ==
  /\ pc[w] = "send"
  /\ \E res \in BOOLEAN : ok' = [ok EXCEPT ![w] = res]
  /\ modemMu' = NoWorker
  /\ pc' = [pc EXCEPT ![w] = "record"]
  /\ UNCHANGED <<mode, now, lastPDU, lastSent, consecFails, backoffUntil,
                 pdu, until, tr, atserver, log>>

\* Mutant: a success takes one step down the ladder.
RecordResultStepsDown(w) ==
  LET fails == IF ~ok[w] THEN consecFails + 1
               ELSE IF consecFails > 0 THEN consecFails - 1 ELSE 0
  IN  /\ consecFails' = fails
      /\ backoffUntil' = IF backoffFor(fails) > 0
                         THEN now + backoffFor(fails) ELSE 0

\* Mutant: every session counts as a failure.
RecordResultAlways(w) ==
  /\ consecFails' = consecFails + 1
  /\ backoffUntil' = IF backoffFor(consecFails + 1) > 0
                     THEN now + backoffFor(consecFails + 1)
                     ELSE backoffUntil

\* The bookkeeping under failMu, after the modem has been released.
RecordResult(w) ==
  /\ consecFails' = IF ok[w] THEN 0 ELSE consecFails + 1
  /\ backoffUntil' =
       IF ok[w] THEN 0
       ELSE IF backoffFor(consecFails + 1) > 0
            THEN now + backoffFor(consecFails + 1)
            ELSE backoffUntil

\* emit(), the failMu section, and the end of the goroutine.
Record(w) ==
  /\ pc[w] = "record"
  /\ Log(IF ok[w] THEN "sent" ELSE "send-failed")
  /\ RecordResult(w)
  /\ pc' = [pc EXCEPT ![w] = "idle"]
  /\ pdu' = [pdu EXCEPT ![w] = NoPDU]
  /\ until' = [until EXCEPT ![w] = 0]
  /\ tr' = [tr EXCEPT ![w] = "rpm30"]
  /\ ok' = [ok EXCEPT ![w] = FALSE]
  /\ UNCHANGED <<mode, now, lastPDU, lastSent, modemMu, atserver>>

sendWorker(w) ==
  \/ ReadBackoff(w) \/ CheckBackoff(w) \/ PickTransport(w)
  \/ LockModem(w) \/ FinishSend(w) \/ Record(w)

-----------------------------------------------------------------------------
(* The environment: atserver, its watchdog, and time.                      *)

\* atserver dies (SIGPIPE, OOM killer); nothing but the watchdog revives it.
AtServerCrash ==
  /\ atserver
  /\ atserver' = FALSE
  /\ UNCHANGED <<mode, now, lastPDU, lastSent, consecFails, backoffUntil,
                 modemMu, workerVars, log>>

\* One turn of watchdogLoop that finds no atserver: the restart may fail.
watchdogLoop ==
  /\ ~atserver
  /\ atserver' \in BOOLEAN
  /\ UNCHANGED <<mode, now, lastPDU, lastSent, consecFails, backoffUntil,
                 modemMu, workerVars, log>>

Tick ==
  /\ now < MaxNow
  /\ now' = now + 1
  /\ UNCHANGED <<mode, lastPDU, lastSent, consecFails, backoffUntil, modemMu,
                 workerVars, atserver, log>>

Next ==
  \/ \E body \in HookBodies : handleHook(body)
  \/ \E req \in WSRequests : handleWSRequest(req)
  \/ \E w \in Workers : sendWorker(w)
  \/ AtServerCrash
  \/ watchdogLoop
  \/ Tick

Spec == Init /\ [][Next]_vars

\* Goroutines are scheduled fairly, every AT session ends (all its waits have
\* deadlines), and Go's mutex hands itself to a waiter that has been waiting
\* for more than a millisecond.
Fairness ==
  \A w \in Workers : WF_vars(sendWorker(w)) /\ SF_vars(LockModem(w))

FairSpec == Spec /\ Fairness

-----------------------------------------------------------------------------
(* Properties.                                                             *)

InFlight == {w \in Workers : pc[w] # "idle"}

\* The modem mutex is held exactly by the worker whose AT session is running,
\* so two sessions never overlap, whichever transport each of them picked
\* (modemMu in sendWorker).
ModemMutex == \A w \in Workers : pc[w] = "send" <=> modemMu = w

\* Every accepted request ends in exactly one of the results "sent",
\* "send-failed" and "backoff", or is still held by a live goroutine: none is
\* dropped or counted twice between claimPDU and the last emit of sendWorker.
Accounting ==
  log["queued"] = log["sent"] + log["send-failed"] + log["backoff"]
                  + Cardinality(InFlight)

\* The two variables under failMu agree: a backoff is set exactly after three
\* or more recorded failures in a row, and what is left of it is never longer
\* than the ladder of backoffFor allows for that many failures.
BackoffConsistent ==
  /\ consecFails < 3 <=> backoffUntil = 0
  /\ backoffUntil <= now + backoffFor(consecFails)

\* Some entry of -allow-to has the decimal digits of this PDU's recipient.
Listed(p) ==
  \E e \in AllowTo : /\ normalizeMSISDN(e) # <<>>
                     /\ normalizeMSISDN(e) = normalizeMSISDN(Recipient[p].digits)

\* With an allow-list, every PDU that is claimed or carried to the modem is
\* addressed to the decimal digits of one of its entries, in either mode, and
\* a refused request leaves the cooldown state alone (destinationAllowed is
\* asked before claimPDU).  Digits are all that is compared: neither the type
\* of number nor a half-octet that is no digit tells two recipients apart.
OnlyAllowed ==
  AllowedDest # {} =>
    /\ \A w \in InFlight : pdu[w] \in PDUs /\ Listed(pdu[w])
    /\ lastPDU # NoPDU => Listed(lastPDU)

\* A backoff that has been set is only ever extended, or lifted altogether by
\* a success; results recorded late and out of order never shorten it.
BackoffOnlyExtended ==
  [][backoffUntil' < backoffUntil => backoffUntil' = 0 /\ consecFails' = 0]_vars

\* Every sendWorker goroutine ends: the mutex is released after each session
\* and every waiting worker gets it.
WorkersEnd == \A w \in Workers : pc[w] # "idle" ~> pc[w] = "idle"

\* The promise of Relay, read off the state of this module.
PhaseOf(l) ==
  CASE l = "idle"   -> "free"
    [] l = "send"   -> "sending"
    [] l = "record" -> "over"
    [] OTHER        -> "accepted"

Promise == INSTANCE Relay WITH
  Slots     <- Workers,
  Permitted <- {p \in PDUs : destinationAllowed(p)},
  Nothing   <- NoPDU,
  Threshold <- 3,
  phase     <- [w \in Workers |-> PhaseOf(pc[w])],
  load      <- pdu,
  verdict   <- ok,
  tally     <- log

\* The dispatch core implements Relay: an accepted request gets one session of
\* its own or is turned away after at least three failures, it carries its
\* own PDU to the modem and its own verdict to the log, however the workers
\* interleave.
ImplementsRelay == Promise!Spec

\* Claimed by README.md ("exponential backoff ... after consecutive AT command
\* failures to prevent destabilizing the cellular baseband stack"): no AT
\* session begins while the backoff runs.
NoSessionInBackoff ==
  [][\A w \in Workers : LockModem(w) => now >= backoffUntil]_vars
=============================================================================
