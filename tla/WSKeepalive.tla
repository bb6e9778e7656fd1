----------------------------- MODULE WSKeepalive -----------------------------
(***************************************************************************)
(* How a WebSocket session notices that its peer is gone.  The keepalive   *)
(* goroutine of wsServe pings every -ws-ping; readFrame arms the read      *)
(* deadline with three times that for every frame it reads, so the pongs   *)
(* of a live server keep the session going and a dead connection ends it.  *)
(*                                                                         *)
(* The server and the two directions of the network are external.  The     *)
(* uplink may stall, so that a Write runs into its deadline, while frames  *)
(* still arrive.                                                           *)
(***************************************************************************)
EXTENDS Naturals, FiniteSets

CONSTANTS
  Ping,         \* -ws-ping, in ticks; 0 disables the goroutine
  DefaultIdle,  \* the idle time used then (90 s)
  Rtt           \* bound: a live server's pong arrives within Rtt ticks

ASSUME WSKeepaliveAssumption ==
  /\ Ping \in Nat
  /\ DefaultIdle \in Nat \ {0}
  /\ Rtt \in Nat \ {0}

VARIABLES
  loop,     \* the read loop: "read" or "over"
  cause,    \* why it ended
  pinger,   \* the keepalive goroutine
  silence,  \* ticks since readFrame last armed the read deadline
  ticker,   \* ticks since the ticker of the goroutine last fired
  pending,  \* ages of the pings the server has not answered
  server,   \* is the server still there?
  uplink    \* do our writes go through?

vars == <<loop, cause, pinger, silence, ticker, pending, server, uplink>>

\* w.idle of wsServe.
idle == IF Ping > 0 THEN 3 * Ping ELSE DefaultIdle

Init ==
  /\ loop = "read"
  /\ cause = "none"
  /\ pinger = IF Ping > 0 THEN "wait" ELSE "off"
  /\ silence = 0
  /\ ticker = 0
  /\ pending = {}
  /\ server = TRUE
  /\ uplink = TRUE

-----------------------------------------------------------------------------
(* The keepalive goroutine.                                                *)

\* The ticker fires and writeFrame(opPing) succeeds, or fails at its deadline
\* or on a closed connection: then the goroutine returns.
PingTick ==
  /\ pinger = "wait"
  /\ ticker >= Ping
  /\ ticker' = 0
  /\ \/ /\ uplink /\ loop = "read"
        /\ pending' = IF server THEN pending \cup {0} ELSE pending
        /\ UNCHANGED pinger
     \/ /\ ~uplink \/ loop = "over"
        /\ pinger' = "failed"
        /\ UNCHANGED pending
  /\ UNCHANGED <<loop, cause, silence, server, uplink>>

PingerDone ==
  /\ pinger = "wait"
  /\ loop = "over"
  /\ pinger' = "ended"
  /\ UNCHANGED <<loop, cause, silence, ticker, pending, server, uplink>>

-----------------------------------------------------------------------------
(* The read loop.                                                          *)

\* readFrame returns a frame and is called again, which renews the deadline.
FrameArrives == silence' = 0

End(why) == loop' = "over" /\ cause' = why

\* Mutant: the deadline is renewed per message, and a pong is none.
PongNoRefresh ==
  /\ loop = "read" /\ server
  /\ pending # {}
  /\ pending' = pending \ {CHOOSE a \in pending : \A b \in pending : b <= a}
  /\ UNCHANGED <<loop, cause, pinger, silence, ticker, server, uplink>>

Pong ==
  /\ loop = "read" /\ server
  /\ pending # {}
  /\ pending' = pending \ {CHOOSE a \in pending : \A b \in pending : b <= a}
  /\ FrameArrives
  /\ UNCHANGED <<loop, cause, pinger, ticker, server, uplink>>

\* A message, or a ping of the server that must be answered at once.
ServerSends(isPing) ==
  /\ loop = "read" /\ server
  /\ \/ /\ isPing => uplink
        /\ FrameArrives
        /\ UNCHANGED <<loop, cause>>
     \/ /\ isPing /\ ~uplink
        /\ End("write")
        /\ UNCHANGED silence
  /\ UNCHANGED <<pinger, ticker, pending, server, uplink>>

\* A close frame, a reset or a protocol error.
ServerCloses ==
  /\ loop = "read" /\ server
  /\ End("closed")
  /\ UNCHANGED <<pinger, silence, ticker, pending, server, uplink>>

\* Mutant: it is left to the keepalive goroutine to watch the deadline.
ReadDeadlineByPinger ==
  /\ loop = "read"
  /\ pinger = "wait"
  /\ silence >= idle
  /\ End("idle")
  /\ UNCHANGED <<pinger, silence, ticker, pending, server, uplink>>

ReadDeadline ==
  /\ loop = "read"
  /\ silence >= idle
  /\ End("idle")
  /\ UNCHANGED <<pinger, silence, ticker, pending, server, uplink>>

-----------------------------------------------------------------------------
(* The network and time (external).                                        *)

\* The server, or the path to it, is gone without a word.
FallSilent ==
  /\ server
  /\ server' = FALSE
  /\ pending' = {}
  /\ UNCHANGED <<loop, cause, pinger, silence, ticker, uplink>>

UplinkChanges ==
  /\ uplink' = ~uplink
  /\ UNCHANGED <<loop, cause, pinger, silence, ticker, pending, server>>

\* Time passes, but neither beyond the firing of the ticker nor beyond the
\* arrival of a pong.
Tick ==
  /\ loop = "read"
  /\ ~(pinger = "wait" /\ ticker >= Ping)
  /\ Rtt \notin pending
  /\ silence' = IF silence < idle THEN silence + 1 ELSE silence
  /\ ticker' = IF pinger = "wait" THEN ticker + 1 ELSE ticker
  /\ pending' = {a + 1 : a \in pending}
  /\ UNCHANGED <<loop, cause, pinger, server, uplink>>

Next ==
  \/ PingTick \/ PingerDone \/ Pong
  \/ \E isPing \in BOOLEAN : ServerSends(isPing)
  \/ ServerCloses \/ ReadDeadline \/ FallSilent \/ UplinkChanges \/ Tick

Spec == Init /\ [][Next]_vars

\* Goroutines run, time passes, deadlines fire, and a live server's pongs
\* arrive; nothing else is assumed of the server.
Fairness ==
  /\ WF_vars(PingTick) /\ WF_vars(PingerDone) /\ WF_vars(Pong)
  /\ WF_vars(ReadDeadline) /\ WF_vars(Tick)

FairSpec == Spec /\ Fairness

-----------------------------------------------------------------------------

\* The idle deadline only ever cuts a session whose server has gone silent or
\* whose keepalive goroutine failed to write a ping.  A live server that
\* answers pings in less than two intervals keeps its session, even if it
\* sends nothing but pongs, and whatever the uplink does between two pings:
\* the deadline is renewed per frame, not per message (readFrame).
HealthyNotCut ==
  Ping > 0 /\ Rtt < 2 * Ping =>
    (cause = "idle" => ~server \/ pinger = "failed")

\* A server that has fallen silent is noticed, even when the keepalive
\* goroutine has given up after a failed ping: the session ends.
SilenceNoticed == ~server ~> loop = "over"
=============================================================================
