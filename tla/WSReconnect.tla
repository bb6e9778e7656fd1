----------------------------- MODULE WSReconnect -----------------------------
(***************************************************************************)
(* The outer loop of -mode ws: runWS dials (wsDial: TCP, TLS, HTTP         *)
(* Upgrade), serves the session and sleeps before it dials again.  One     *)
(* tick is one second.  The frames of a session are abstracted to its      *)
(* lifetime.                                                               *)
(*                                                                         *)
(* The network is external: the endpoint is reachable or not, and a        *)
(* connection that was opened may die silently, without a FIN or RST, as   *)
(* connections behind a cellular carrier do.  Then only deadlines help.    *)
(***************************************************************************)
EXTENDS Naturals

CONSTANTS
  Secure,       \* is the scheme of -ws-url wss?
  HandshakeTO,  \* wsHandshakeTO
  Idle,         \* the idle read deadline of a session, 3 * -ws-ping
  Healthy,      \* healthySession
  MaxDelay,     \* the 60 s of wsBackoff
  MaxLosses     \* bound: connections that die silently

ASSUME WSReconnectAssumption ==
  /\ Secure \in BOOLEAN
  /\ HandshakeTO \in Nat \ {0}
  /\ Idle \in Nat \ {0}
  /\ Healthy \in Nat
  /\ MaxDelay \in Nat \ {0}
  /\ MaxLosses \in Nat

VARIABLES
  pc,       \* where runWS is
  sock,     \* is a socket of the current connection open?
  armed,    \* does the connection have a deadline for the handshake?
  alive,    \* does the peer still hear us and we it?
  up,       \* is all that a dial needs in order: the endpoint, its
            \* certificate and answers, the CA file, the random device?
  attempt,  \* the counter of runWS
  delay,    \* the argument of the last time.Sleep
  timer,    \* seconds spent in the current phase
  losses

vars == <<pc, sock, armed, alive, up, attempt, delay, timer, losses>>

\* Timers stop here: no phase has a longer deadline.
Horizon == HandshakeTO + Idle + Healthy + MaxDelay

\* The attempt beyond which wsBackoff no longer grows.
AttemptCap == 10

WSTypeOK ==
  /\ pc \in {"dial", "tls", "upgrade", "serve", "sleep"}
  /\ sock \in BOOLEAN
  /\ armed \in BOOLEAN
  /\ alive \in BOOLEAN
  /\ up \in BOOLEAN
  /\ attempt \in 0 .. AttemptCap + 1
  /\ delay \in 0 .. MaxDelay
  /\ timer \in 0 .. Horizon
  /\ losses \in 0 .. MaxLosses

Init ==
  /\ pc = "dial"
  /\ sock = FALSE
  /\ armed = FALSE
  /\ alive = FALSE
  /\ up \in BOOLEAN
  /\ attempt = 0
  /\ delay = 0
  /\ timer = 0
  /\ losses = 0

-----------------------------------------------------------------------------

\* 1 << n for every attempt that wsBackoff lets through.
Shift(n) == <<1, 2, 4, 8, 16, 32, 64, 128, 256, 512, 1024>>[n + 1]

\* Mutant: the delay is not capped.
wsBackoffUncapped(n) == Shift(IF n > AttemptCap THEN AttemptCap ELSE n)

wsBackoff(n) ==
  LET d == Shift(IF n > AttemptCap THEN AttemptCap ELSE n)
  IN  IF d > MaxDelay THEN MaxDelay ELSE d

\* attempt++ (the counter saturates where wsBackoff no longer tells values
\* apart).
Increment(n) == IF n > AttemptCap THEN n ELSE n + 1

\* d := wsBackoff(attempt); attempt++; time.Sleep(d)
SleepFrom(n) ==
  /\ delay' = wsBackoff(n)
  /\ attempt' = Increment(n)
  /\ pc' = "sleep"
  /\ timer' = 0

-----------------------------------------------------------------------------
(* wsDial, one action per stage.                                           *)

\* Mutant: the handshake has no deadline.
DialTCPNoDeadline ==
  /\ pc = "dial"
  /\ up
  /\ sock' = TRUE
  /\ alive' = TRUE
  /\ armed' = FALSE
  /\ pc' = IF Secure THEN "tls" ELSE "upgrade"
  /\ timer' = 0
  /\ UNCHANGED <<up, attempt, delay, losses>>

DialTCP ==
  /\ pc = "dial"
  /\ up
  /\ sock' = TRUE
  /\ alive' = TRUE
  /\ armed' = TRUE
  /\ pc' = IF Secure THEN "tls" ELSE "upgrade"
  /\ timer' = 0
  /\ UNCHANGED <<up, attempt, delay, losses>>

DialFails ==
  /\ pc = "dial"
  /\ ~up
  /\ SleepFrom(attempt)
  /\ UNCHANGED <<sock, armed, alive, up, losses>>

\* The TLS handshake completes; the deadline is renewed for the upgrade.
HandshakeTLS ==
  /\ pc = "tls"
  /\ alive /\ up
  /\ armed' = TRUE
  /\ pc' = "upgrade"
  /\ timer' = 0
  /\ UNCHANGED <<sock, alive, up, attempt, delay, losses>>

\* conn.Close() of an early return of wsDial, then the error branch of runWS.
CloseAndSleep ==
  /\ sock' = FALSE
  /\ armed' = FALSE
  /\ SleepFrom(attempt)
  /\ UNCHANGED <<alive, up, losses>>

\* A step of the handshake that talks to the server fails: the server errs,
\* hangs up or is too slow, or the connection is dead and the deadline passes.
IOError == \/ alive /\ ~up
           \/ ~alive /\ armed /\ timer >= HandshakeTO

\* The eight early returns of wsDial behind the TCP connection, in the order
\* of the code.  rootPool and randRead wait for nothing; the request fits the
\* send buffer, so only a connection the server has reset refuses it.
RootPoolFails == pc = "tls" /\ ~up /\ CloseAndSleep

TLSFails == pc = "tls" /\ IOError /\ CloseAndSleep

NonceFails == pc = "upgrade" /\ ~up /\ CloseAndSleep

RequestFails == pc = "upgrade" /\ alive /\ ~up /\ CloseAndSleep

StatusFails == pc = "upgrade" /\ IOError /\ CloseAndSleep

\* Mutant: the return for a status other than 101 forgets to close.
RefusedOpen ==
  /\ pc = "upgrade"
  /\ alive /\ ~up
  /\ armed' = FALSE
  /\ SleepFrom(attempt)
  /\ UNCHANGED <<sock, alive, up, losses>>

Refused == pc = "upgrade" /\ alive /\ ~up /\ CloseAndSleep

HeadersFail == pc = "upgrade" /\ IOError /\ CloseAndSleep

BadAccept == pc = "upgrade" /\ alive /\ ~up /\ CloseAndSleep

HandshakeFails ==
  \/ RootPoolFails \/ TLSFails \/ NonceFails \/ RequestFails
  \/ StatusFails \/ Refused \/ HeadersFail \/ BadAccept

\* 101 with the right Sec-WebSocket-Accept: wsDial clears the deadline and
\* runWS resets attempt.
Connected ==
  /\ pc = "upgrade"
  /\ alive /\ up
  /\ armed' = FALSE
  /\ attempt' = 0
  /\ pc' = "serve"
  /\ timer' = 0
  /\ UNCHANGED <<sock, alive, up, delay, losses>>

-----------------------------------------------------------------------------
(* The session and what runWS does after it.                               *)

\* wsServe returns: the server closed or broke the connection or the protocol,
\* or nothing came for the idle time.
Disconnected ==
  /\ pc = "serve"
  /\ alive \/ timer >= Idle
  /\ sock' = FALSE
  /\ SleepFrom(IF timer >= Healthy THEN 0 ELSE attempt)
  /\ UNCHANGED <<armed, alive, up, losses>>

WakeUp ==
  /\ pc = "sleep"
  /\ timer >= delay
  /\ pc' = "dial"
  /\ timer' = 0
  /\ UNCHANGED <<sock, armed, alive, up, attempt, delay, losses>>

-----------------------------------------------------------------------------
(* The network and time (external).                                        *)

ReachabilityChanges ==
  /\ up' = ~up
  /\ UNCHANGED <<pc, sock, armed, alive, attempt, delay, timer, losses>>

ConnectionDies ==
  /\ sock /\ alive
  /\ losses < MaxLosses
  /\ alive' = FALSE
  /\ losses' = losses + 1
  /\ UNCHANGED <<pc, sock, armed, up, attempt, delay, timer>>

Tick ==
  /\ timer < Horizon
  /\ timer' = timer + 1
  /\ UNCHANGED <<pc, sock, armed, alive, up, attempt, delay, losses>>

Next ==
  \/ DialTCP \/ DialFails \/ HandshakeTLS \/ HandshakeFails \/ Connected
  \/ Disconnected \/ WakeUp \/ ReachabilityChanges \/ ConnectionDies \/ Tick

Spec == Init /\ [][Next]_vars

\* The goroutine runs, time passes, deadlines fire and sleeps end; a healthy
\* session may last for ever.
Fairness ==
  /\ WF_vars(DialTCP) /\ WF_vars(DialFails) /\ WF_vars(HandshakeTLS)
  /\ WF_vars(HandshakeFails) /\ WF_vars(Connected) /\ WF_vars(WakeUp)
  /\ WF_vars(Disconnected /\ ~alive) /\ WF_vars(Tick)

FairSpec == Spec /\ Fairness

-----------------------------------------------------------------------------

\* Between connections no socket is left open, whichever stage of wsDial or
\* of the session failed, and none keeps a handshake deadline into a session:
\* a long-lived session would be cut by it.
SocketsAccountedFor ==
  /\ sock <=> pc \in {"tls", "upgrade", "serve"}
  /\ armed <=> pc \in {"tls", "upgrade"}

\* While dialling fails the delays only grow: every sleep is at least as long
\* as the one before it (wsBackoff and attempt).  A session of any length, even
\* one the server drops at once, may shorten the next.
GrowsWhileDialling ==
  [][delay' < delay => pc = "serve"]_vars

\* Claimed by the comment on wsBackoff ("attempt only resets after a session
\* that actually lived"): only a session of at least healthySession shortens
\* the delay.  runWS also resets attempt as soon as the handshake succeeds.
ShrinksOnlyAfterHealthySession ==
  [][delay' < delay => pc = "serve" /\ timer >= Healthy]_vars

\* Once the endpoint stays reachable, the relay gets a live session again and
\* again: no dead connection, handshake or sleep holds runWS for ever.
Reconnects == <>[]up => []<>(pc = "serve" /\ alive)
=============================================================================
