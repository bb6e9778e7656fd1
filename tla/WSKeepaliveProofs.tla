-------------------------- MODULE WSKeepaliveProofs --------------------------
(***************************************************************************)
(* The read deadline against the pings, for every ping interval and every  *)
(* answering time of the server: a healthy session is never cut.           *)
(***************************************************************************)
EXTENDS WSKeepalive, TLAPS

\* The pings are on and the server answers in less than two intervals.
Answering == Ping > 0 /\ Rtt < 2 * Ping

Types ==
  /\ loop \in {"read", "over"}
  /\ pinger \in {"wait", "off", "failed", "ended"}
  /\ silence \in Nat
  /\ ticker \in Nat
  /\ pending \subseteq 0 .. Rtt
  /\ server \in BOOLEAN

\* The inductive invariant.  All pings are answered, and then the last frame
\* is no older than the last ping; or some ping is under way, and the last
\* frame is at most one interval older than that one.
BeatInv ==
  /\ ticker <= Ping
  /\ pinger # "off"
  /\ pinger = "ended" => loop = "over"
  /\ loop = "read" => cause # "idle"
  /\ server /\ pinger = "wait" /\ loop = "read" =>
       \/ pending = {} /\ silence <= ticker
       \/ \E a \in pending : silence <= a + Ping
  /\ cause = "idle" => ~server \/ pinger = "failed"

\* A session begins without silence.
LEMMA InitBeat == Answering /\ Init => Types /\ BeatInv
BY WSKeepaliveAssumption DEF Answering, Init, Types, BeatInv

\* The ages of the pings when time passes.
LEMMA AgesGrow ==
  ASSUME Types, Tick
  PROVE  pending' \subseteq 0 .. Rtt /\ \A a \in pending : a + 1 \in pending'
<1>1. pending' = {a + 1 : a \in pending} /\ Rtt \notin pending
  BY DEF Tick
<1>2. \A a \in pending : a + 1 \in 0 .. Rtt
  BY <1>1, WSKeepaliveAssumption DEF Types
<1> QED
  BY <1>1, <1>2

\* Every step keeps the silence short.
LEMMA NextBeat ==
  Answering /\ Types /\ BeatInv /\ [Next]_vars => Types' /\ BeatInv'
<1> SUFFICES ASSUME Answering, Types, BeatInv, [Next]_vars
             PROVE  Types' /\ BeatInv'
  OBVIOUS
<1>a. Ping \in Nat /\ Ping > 0 /\ Rtt \in Nat /\ Rtt < 2 * Ping /\ idle = 3 * Ping
  BY WSKeepaliveAssumption DEF Answering, idle
<1>1. CASE PingTick
  <2>1. pending' \subseteq 0 .. Rtt
    <3>1. pending' \in {pending \cup {0}, pending}
      BY <1>1 DEF PingTick
    <3>2. 0 \in 0 .. Rtt
      BY <1>a
    <3> QED
      BY <3>1, <3>2 DEF Types
  <2>2. Types' /\ ticker' = 0
    BY <1>1, <2>1 DEF PingTick, Types
  <2>3. CASE uplink /\ loop = "read" /\ server /\ pinger' = "wait"
    <3>1. pending' = pending \cup {0} /\ 0 \in pending' /\ UNCHANGED silence
      BY <1>1, <2>3 DEF PingTick
    <3>2. \E a \in pending' : silence' <= a + Ping
      BY <1>1, <1>a, <2>3, <3>1 DEF PingTick, Types, BeatInv
    <3> QED
      BY <1>1, <1>a, <2>2, <2>3, <3>2 DEF PingTick, BeatInv
  <2>4. CASE ~(uplink /\ loop = "read" /\ server /\ pinger' = "wait")
    BY <1>1, <1>a, <2>2, <2>4 DEF PingTick, BeatInv, Types
  <2> QED
    BY <2>3, <2>4
<1>2. CASE PingerDone
  BY <1>2 DEF PingerDone, Types, BeatInv
<1>3. CASE Pong
  <2>1. pending' \subseteq pending /\ silence' = 0
    BY <1>3 DEF Pong, FrameArrives
  <2>2. \/ pending' = {} /\ silence' <= ticker
        \/ \E a \in pending' : silence' <= a + Ping
    BY <1>a, <2>1 DEF Types
  <2> QED
    BY <1>3, <2>1, <2>2 DEF Pong, Types, BeatInv
<1>4. ASSUME NEW isPing \in BOOLEAN, ServerSends(isPing)
      PROVE  Types' /\ BeatInv'
  <2>1. CASE silence' = 0 /\ UNCHANGED <<loop, cause>>
    <3>1. \/ pending = {} /\ silence' <= ticker
          \/ \E a \in pending : silence' <= a + Ping
      BY <1>a, <2>1 DEF Types
    <3> QED
      BY <1>4, <2>1, <3>1 DEF ServerSends, Types, BeatInv
  <2>2. CASE loop' = "over" /\ cause' = "write" /\ UNCHANGED silence
    BY <1>4, <2>2 DEF ServerSends, Types, BeatInv
  <2> QED
    BY <1>4, <2>1, <2>2 DEF ServerSends, FrameArrives, End
<1>5. CASE ServerCloses
  BY <1>5 DEF ServerCloses, End, Types, BeatInv
<1>6. CASE ReadDeadline
  <2>1. ~(server /\ pinger = "wait")
    <3> SUFFICES ASSUME server, pinger = "wait" PROVE FALSE
      OBVIOUS
    <3>1. loop = "read" /\ silence >= 3 * Ping
      BY <1>6, <1>a DEF ReadDeadline
    <3>2. CASE silence <= ticker
      BY <1>a, <3>1, <3>2 DEF Types, BeatInv
    <3>3. CASE \E a \in pending : silence <= a + Ping
      <4>1. PICK a \in pending : silence <= a + Ping
        BY <3>3
      <4>2. a \in Nat /\ a <= Rtt
        BY <1>a, <4>1 DEF Types
      <4> QED
        BY <1>a, <3>1, <4>1, <4>2 DEF Types
    <3> QED
      BY <3>1, <3>2, <3>3 DEF BeatInv
  <2>2. ~server \/ pinger = "failed"
    BY <1>6, <2>1 DEF ReadDeadline, BeatInv, Types
  <2> QED
    BY <1>6, <2>2 DEF ReadDeadline, End, Types, BeatInv
<1>7. CASE FallSilent
  BY <1>7 DEF FallSilent, Types, BeatInv
<1>8. CASE UplinkChanges
  BY <1>8 DEF UplinkChanges, Types, BeatInv
<1>9. CASE Tick
  <2>1. pending' \subseteq 0 .. Rtt /\ \A a \in pending : a + 1 \in pending'
    BY <1>9, AgesGrow
  <2>2. /\ silence' \in Nat /\ silence' <= silence + 1
        /\ ticker' \in Nat /\ ticker' <= Ping
        /\ pinger = "wait" => ticker' = ticker + 1
    BY <1>9, <1>a DEF Tick, Types, BeatInv
  <2>3. Types'
    BY <1>9, <2>1, <2>2 DEF Tick, Types
  <2>4. ASSUME server, pinger = "wait"
        PROVE  \/ pending' = {} /\ silence' <= ticker'
               \/ \E a \in pending' : silence' <= a + Ping
    <3>1. loop = "read"
      BY <1>9 DEF Tick
    <3>2. CASE pending = {} /\ silence <= ticker
      BY <1>9, <2>2, <2>4, <3>2 DEF Tick, Types
    <3>3. CASE \E a \in pending : silence <= a + Ping
      <4>1. PICK a \in pending : silence <= a + Ping
        BY <3>3
      <4>2. a \in Nat /\ a + 1 \in pending' /\ silence' <= (a + 1) + Ping
        BY <1>a, <2>1, <2>2, <4>1 DEF Types
      <4> QED
        BY <4>2
    <3> QED
      BY <2>4, <3>1, <3>2, <3>3 DEF BeatInv
  <2> QED
    BY <1>9, <2>2, <2>3, <2>4 DEF Tick, BeatInv
<1>10. CASE UNCHANGED vars
  BY <1>10 DEF vars, Types, BeatInv
<1> QED
  BY <1>1, <1>2, <1>3, <1>4, <1>5, <1>6, <1>7, <1>8, <1>9, <1>10 DEF Next

\* A server that answers pings in less than two intervals keeps its session,
\* as long as our pings can be written: for every -ws-ping, three intervals
\* (wsServe's idle) are enough.
THEOREM HealthySessionKept == Spec => []HealthyNotCut
<1>1. ASSUME Answering PROVE Spec => []HealthyNotCut
  <2>1. Init => Types /\ BeatInv
    BY <1>1, InitBeat
  <2>2. Types /\ BeatInv /\ [Next]_vars => Types' /\ BeatInv'
    BY <1>1, NextBeat
  <2>3. BeatInv => HealthyNotCut
    BY DEF BeatInv, HealthyNotCut
  <2> QED
    BY <2>1, <2>2, <2>3, PTL DEF Spec
<1>2. ASSUME ~Answering PROVE Spec => []HealthyNotCut
  <2>1. HealthyNotCut
    BY <1>2 DEF Answering, HealthyNotCut
  <2> QED
    BY <2>1, PTL
<1> QED
  BY <1>1, <1>2
=============================================================================
