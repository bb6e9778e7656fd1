----------------------------- MODULE ATSrvProofs -----------------------------
(***************************************************************************)
(* Proofs about ATSrv, for every timeout, gap, overrun of atserver and     *)
(* number of sessions.                                                     *)
(***************************************************************************)
EXTENDS ATSrv, SequenceTheorems, TLAPS

\* The inductive invariant behind SentMeansAccepted: a live request is the
\* newest one and the current command of the session that waits for it, and a
\* positive response to AT+CMGS has been preceded by the modem's acceptance.
AnswerInv ==
  /\ pc # "free" => ses \in Sessions
  /\ \A i \in 1 .. Len(queue) :
       queue[i].live => /\ i = Len(queue)
                        /\ pc = "await"
                        /\ reply = "none"
                        /\ queue[i].ses = ses
                        /\ queue[i].cmd = cmd
  /\ reply # "none" => pc = "await"
  /\ reply = "+cmgs" /\ cmd = "CMGS" => ses \in accepted
  /\ SentMeansAccepted

\* The initial states satisfy the invariant.
LEMMA InitAnswer == Init => ATSrvTypeOK /\ AnswerInv
  <1> SUFFICES ASSUME Init PROVE ATSrvTypeOK /\ AnswerInv
    OBVIOUS
  <1>1. queue \in Seq(Requests) /\ Len(queue) = 0
    BY DEF Init
  <1>2. /\ ses \in 0 .. MaxSessions
        /\ timer \in 0 .. Horizon
    BY ATSrvAssumption DEF Init, Horizon
  <1>3. ATSrvTypeOK
    BY <1>1, <1>2 DEF Init, ATSrvTypeOK, Commands, Replies
  <1>4. AnswerInv
    BY <1>1 DEF Init, AnswerInv, SentMeansAccepted
  <1>5. QED
    BY <1>3, <1>4

\* atserver's answers are answers.
LEMMA AnswersType ==
  ASSUME NEW r
  PROVE  Answers(r) \subseteq Replies \ {"none"}
  BY DEF Answers, Replies

\* Every step keeps the types.
LEMMA NextTypeOK == ATSrvTypeOK /\ AnswerInv /\ [Next]_vars => ATSrvTypeOK'
  <1> SUFFICES ASSUME ATSrvTypeOK, AnswerInv, [Next]_vars PROVE ATSrvTypeOK'
    OBVIOUS
  <1> USE ATSrvAssumption DEF ATSrvTypeOK, srvVars
  <1>0. pc # "free" => ses \in Sessions
    BY DEF AnswerInv
  <1>1. CASE StartSession
    BY <1>1 DEF StartSession, Commands
  <1>2. CASE FrameTooLong
    BY <1>2, <1>0 DEF FrameTooLong, Finish, Horizon
  <1>3. CASE DialFails
    BY <1>3, <1>0 DEF DialFails, Finish, Horizon
  <1>4. CASE Dial
    <2>1. [cmd |-> cmd, ses |-> ses, live |-> TRUE] \in Requests
      BY <1>4, <1>0 DEF Dial, Requests
    <2>2. queue' \in Seq(Requests)
      BY <1>4, <2>1 DEF Dial
    <2>3. QED
      BY <1>4, <2>2 DEF Dial, Replies, Horizon
  <1>5. CASE Receive
    BY <1>5, <1>0 DEF Receive, Finish, Horizon, Replies
  <1>6. CASE GiveUp
    <2>1. ASSUME NEW i \in DOMAIN queue PROVE Orphan(queue[i]) \in Requests
      <3>1. queue[i] \in Requests
        OBVIOUS
      <3>2. QED
        BY <3>1 DEF Requests, Orphan
    <2>2. queue' \in Seq(Requests)
      BY <1>6, <2>1 DEF GiveUp
    <2>3. QED
      BY <1>6, <1>0, <2>2 DEF GiveUp, Finish, Horizon
  <1>7. CASE Wake
    BY <1>7 DEF Wake, Commands, Horizon
  <1>8. CASE modemAccepts
    <2>1. Head(queue) \in Requests
      BY <1>8 DEF modemAccepts
    <2>2. Head(queue).ses \in Sessions
      BY <2>1 DEF Requests
    <2>3. QED
      BY <1>8, <2>2 DEF modemAccepts
  <1>9. CASE srvAnswers
    <2>1. reply' \in Replies
      BY <1>9, AnswersType DEF srvAnswers, Replies
    <2>2. queue' \in Seq(Requests)
      <3>1. queue' = Tail(queue) \/ queue' = <<>>
        BY <1>9 DEF srvAnswers
      <3>2. queue # <<>>
        BY <1>9 DEF srvAnswers
      <3>3. Tail(queue) \in Seq(Requests)
        BY <3>2, HeadTailProperties
      <3>4. <<>> \in Seq(Requests)
        OBVIOUS
      <3>5. QED
        BY <3>1, <3>3, <3>4
    <2>3. QED
      BY <1>9, <2>1, <2>2 DEF srvAnswers
  <1>10. CASE srvCrashes
    <2>1. reply' \in Replies
      BY <1>10, AnswersType DEF srvCrashes, Replies
    <2>2. queue' \in Seq(Requests)
      BY <1>10 DEF srvCrashes
    <2>3. QED
      BY <1>10, <2>1, <2>2 DEF srvCrashes
  <1>11. CASE watchdogLoop
    BY <1>11 DEF watchdogLoop
  <1>12. CASE Tick
    BY <1>12 DEF Tick, Horizon
  <1>13. CASE UNCHANGED vars
    BY <1>13 DEF vars
  <1>14. QED
    BY <1>1, <1>2, <1>3, <1>4, <1>5, <1>6, <1>7, <1>8, <1>9, <1>10, <1>11,
       <1>12, <1>13 DEF Next

\* Every step keeps the answers apart.
LEMMA NextAnswer == ATSrvTypeOK /\ AnswerInv /\ [Next]_vars => AnswerInv'
  <1> SUFFICES ASSUME ATSrvTypeOK, AnswerInv, [Next]_vars PROVE AnswerInv'
    OBVIOUS
  <1> USE ATSrvAssumption DEF AnswerInv, SentMeansAccepted, srvVars
  <1>0. /\ queue \in Seq(Requests)
        /\ ses \in 0 .. MaxSessions
        /\ result \in [Sessions -> {"none", "sent", "failed"}]
    BY DEF ATSrvTypeOK
  <1>1. CASE StartSession
    BY <1>1, <1>0 DEF StartSession, Sessions
  <1>2. CASE FrameTooLong
    BY <1>2, <1>0 DEF FrameTooLong, Finish
  <1>3. CASE DialFails
    BY <1>3, <1>0 DEF DialFails, Finish
  <1>4. CASE Dial
    BY <1>4, <1>0 DEF Dial
  <1>5. CASE Receive
    BY <1>5, <1>0 DEF Receive, SaysSent, Finish
  <1>6. CASE GiveUp
    BY <1>6, <1>0 DEF GiveUp, Orphan, Finish
  <1>7. CASE Wake
    BY <1>7 DEF Wake
  <1>8. CASE modemAccepts
    BY <1>8 DEF modemAccepts
  <1>9. CASE srvAnswers
    <2>0. /\ queue # <<>> /\ Head(queue) = queue[1] /\ 1 \in 1 .. Len(queue)
          /\ UNCHANGED <<ses, pc, cmd, result, accepted>>
      BY <1>9, <1>0 DEF srvAnswers
    <2>1. CASE Head(queue).live
      <3>1. queue' = Tail(queue) /\ reply' \in Answers(Head(queue))
        BY <1>9, <2>1 DEF srvAnswers
      <3>2. queue[1].live /\ Len(queue) = 1 /\ queue[1].ses = ses /\ pc = "await"
        BY <2>0, <2>1
      <3>3. Len(queue') = 0
        BY <1>0, <2>0, <3>1, <3>2, HeadTailProperties
      <3>4. reply' = "+cmgs" => ses \in accepted
        BY <2>0, <3>1, <3>2 DEF Answers
      <3>5. QED
        BY <2>0, <3>2, <3>3, <3>4
    <2>2. CASE ~Head(queue).live
      <3>1. queue' = <<>> /\ reply' = IF Awaited THEN "short" ELSE reply
        BY <1>9, <2>2 DEF srvAnswers
      <3>2. Awaited => pc = "await"
        BY <1>0 DEF Awaited
      <3>3. Len(queue') = 0
        BY <3>1
      <3>4. QED
        BY <2>0, <3>1, <3>2, <3>3
    <2>3. QED
      BY <2>1, <2>2
  <1>10. CASE srvCrashes
    <2>1. Len(queue') = 0
      BY <1>10 DEF srvCrashes
    <2>2. reply' # "none" => pc' = "await"
      BY <1>10, <1>0 DEF srvCrashes, Awaited
    <2>3. ASSUME reply' = "+cmgs", cmd' = "CMGS" PROVE ses' \in accepted'
      <3>1. UNCHANGED <<ses, cmd, accepted>>
        BY <1>10 DEF srvCrashes
      <3>2. CASE UNCHANGED reply
        BY <2>3, <3>1, <3>2
      <3>3. CASE Awaited /\ Head(queue).live /\ reply' \in Answers(Head(queue))
        <4>1. queue # <<>> /\ Head(queue) = queue[1] /\ 1 \in 1 .. Len(queue)
          BY <3>3, <1>0 DEF Awaited
        <4>2. queue[1].ses = ses
          BY <4>1, <3>3
        <4>3. QED
          BY <2>3, <3>1, <3>3, <4>1, <4>2 DEF Answers
      <3>4. QED
        BY <1>10, <2>3, <3>2, <3>3 DEF srvCrashes
    <2>4. QED
      BY <1>10, <2>1, <2>2, <2>3 DEF srvCrashes
  <1>11. CASE watchdogLoop
    BY <1>11 DEF watchdogLoop
  <1>12. CASE Tick
    BY <1>12 DEF Tick
  <1>13. CASE UNCHANGED vars
    BY <1>13 DEF vars
  <1>14. QED
    BY <1>1, <1>2, <1>3, <1>4, <1>5, <1>6, <1>7, <1>8, <1>9, <1>10, <1>11,
       <1>12, <1>13 DEF Next

\* Whatever atserver does to its connections, sendPDUviaATSrv reports "sent"
\* only for a PDU the modem has accepted.
THEOREM SentOnlyIfAccepted == Spec => []SentMeansAccepted
  <1>1. AnswerInv => SentMeansAccepted
    BY DEF AnswerInv
  <1>2. QED
    BY <1>1, InitAnswer, NextTypeOK, NextAnswer, PTL DEF Spec

\* Sessions, requests, responses and timers keep their types (atSrvCmd and
\* sendPDUviaATSrv).
THEOREM ATSrvTypeCorrect == Spec => []ATSrvTypeOK
  BY InitAnswer, NextTypeOK, NextAnswer, PTL DEF Spec

-----------------------------------------------------------------------------
(* The relay spares an atserver that keeps its word.                       *)

\* The inductive invariant: as long as atserver overruns by less than the
\* grace, the only request there can be is the one whose response is awaited,
\* and the wait for it has not lasted longer than atserver may take.
PunctualInv ==
  late < Grace =>
    /\ ~killed
    /\ Len(queue) <= 1
    /\ Len(queue) = 1 => queue[1].live /\ pc = "await" /\ reply = "none"
    /\ pc = "await" /\ reply = "none" =>
         up /\ Len(queue) = 1 /\ timer <= Timeout(cmd) + late

\* A natural number up to one is zero or one.
LEMMA AtMostOne == ASSUME NEW n \in Nat, n <= 1 PROVE n = 0 \/ n = 1
  OBVIOUS

\* Every step keeps the invariant: GiveUp is the only one that leaves a
\* request behind, and it has to wait longer.
LEMMA NextPunctual ==
  ATSrvTypeOK /\ PunctualInv /\ [Next]_vars => PunctualInv'
  <1> SUFFICES ASSUME ATSrvTypeOK, PunctualInv, [Next]_vars, late' < Grace
               PROVE  PunctualInv'
    BY DEF PunctualInv
  <1>t. /\ queue \in Seq(Requests) /\ Len(queue) \in Nat
        /\ timer \in Nat /\ late \in Nat /\ cmd \in Commands
        /\ Timeout(cmd) \in Nat /\ Grace \in Nat /\ MaxLate \in Nat
        /\ Grace <= MaxLate /\ up \in BOOLEAN /\ killed \in BOOLEAN
    BY ATSrvAssumption DEF ATSrvTypeOK, Timeout, Horizon
  <1>l. late' = late
    BY DEF Next, vars, StartSession, FrameTooLong, DialFails, Dial, Receive,
           GiveUp, Wake, modemAccepts, srvAnswers, srvCrashes, watchdogLoop,
           Tick, srvVars
  <1>p. /\ ~killed
        /\ Len(queue) <= 1
        /\ Len(queue) = 1 => queue[1].live /\ pc = "await" /\ reply = "none"
        /\ pc = "await" /\ reply = "none" =>
             up /\ Len(queue) = 1 /\ timer <= Timeout(cmd) + late
    BY <1>l DEF PunctualInv
  <1>n. Len(queue) = 0 \/ Len(queue) = 1
    <2>1. Len(queue) <= 1 /\ Len(queue) \in Nat
      BY <1>p, <1>t
    <2> QED BY <2>1, AtMostOne
  <1>1. CASE StartSession
    BY <1>1, <1>p DEF PunctualInv, StartSession, srvVars
  <1>2. CASE FrameTooLong \/ DialFails
    BY <1>2, <1>p DEF PunctualInv, FrameTooLong, DialFails, Finish, srvVars
  <1>4. CASE Dial
    <2>0. pc = "dial"
      BY <1>4 DEF Dial
    <2>1. Len(queue) = 0
      BY <1>n, <1>p, <2>0
    <2>2. PICK r : r = [cmd |-> cmd, ses |-> ses, live |-> TRUE]
      OBVIOUS
    <2>3. r.live
      BY <2>2
    <2>4. queue' = Append(queue, r)
      BY <1>4, <2>2 DEF Dial
    <2>5. Len(queue') = 1 /\ queue'[1] = r
      BY <1>t, <2>1, <2>4
    <2>6. Timeout(cmd)' = Timeout(cmd)
      BY <1>4 DEF Dial, Timeout
    <2> QED BY <1>4, <1>t, <1>p, <1>l, <2>3, <2>5, <2>6 DEF PunctualInv, Dial
  <1>5. CASE Receive
    BY <1>5, <1>p, <1>t DEF PunctualInv, Receive, Finish, srvVars
  <1>6. CASE GiveUp
    <2>1. timer <= Timeout(cmd) + late
      BY <1>6, <1>p DEF GiveUp
    <2>2. timer >= Timeout(cmd) + Grace
      BY <1>6 DEF GiveUp, ReadDeadline
    <2> QED BY <1>t, <1>l, <2>1, <2>2
  <1>7. CASE Wake
    BY <1>7, <1>p DEF PunctualInv, Wake, srvVars
  <1>8. CASE modemAccepts
    BY <1>8, <1>p DEF PunctualInv, modemAccepts, Timeout
  <1>9. CASE srvAnswers
    <2>0. Len(queue) # 0
      BY <1>9, <1>t, EmptySeq DEF srvAnswers
    <2>1. Len(queue) = 1 /\ queue[1].live
      BY <1>n, <1>p, <2>0
    <2>2. Head(queue).live
      BY <1>t, <2>1
    <2>3. /\ queue' = Tail(queue) /\ reply' \in Answers(Head(queue))
          /\ UNCHANGED <<up, killed>>
      BY <1>9, <2>2 DEF srvAnswers
    <2>4. Len(queue') = 0
      BY <1>t, <2>1, <2>3
    <2>5. reply' # "none"
      BY <2>3, AnswersType
    <2> QED BY <1>9, <1>p, <2>3, <2>4, <2>5 DEF PunctualInv, srvAnswers
  <1>10. CASE srvCrashes
    <2>1. Len(queue') = 0 /\ UNCHANGED <<pc, killed>>
      BY <1>10 DEF srvCrashes
    <2>2. pc = "await" => reply' # "none"
      <3> SUFFICES ASSUME pc = "await", UNCHANGED reply, reply = "none"
                   PROVE  FALSE
        BY <1>10, AnswersType DEF srvCrashes
      <3>1. Len(queue) = 1 /\ queue[1].live
        BY <1>p
      <3>2. Awaited
        BY <1>t, <3>1 DEF Awaited
      <3> QED BY <1>10, <3>2, AnswersType DEF srvCrashes
    <2> QED BY <1>p, <2>1, <2>2 DEF PunctualInv
  <1>11. CASE watchdogLoop
    BY <1>11, <1>p DEF PunctualInv, watchdogLoop, Timeout
  <1>12. CASE Tick
    <2>1. UNCHANGED <<pc, cmd, reply, late, up, queue, killed>>
      BY <1>12 DEF Tick, srvVars
    <2>2. pc = "await" /\ reply = "none" => timer' <= Timeout(cmd) + late
      <3> SUFFICES ASSUME pc = "await", reply = "none"
                   PROVE  timer' <= Timeout(cmd) + late
        OBVIOUS
      <3>1. ~(timer >= Timeout(cmd) + late)
        BY <1>12, <1>t, <1>p, <1>l DEF Tick, Due
      <3>2. timer' = timer + 1 \/ timer' = timer
        BY <1>12 DEF Tick
      <3> QED BY <1>t, <3>1, <3>2
    <2> QED BY <1>p, <2>1, <2>2 DEF PunctualInv, Timeout
  <1>13. CASE UNCHANGED vars
    BY <1>13, <1>p DEF PunctualInv, vars, Timeout
  <1> QED BY <1>1, <1>2, <1>4, <1>5, <1>6, <1>7, <1>8, <1>9, <1>10, <1>11,
             <1>12, <1>13 DEF Next

\* Whatever the timeouts: an atserver that overruns them by less than the
\* extra time of the read deadline never dies of the relay, and never finds
\* the request of an earlier session before the current one.
THEOREM PunctualSpared == Spec => []SparesAtserver
  <1>1. Init => PunctualInv
    BY DEF Init, PunctualInv
  <1>2. PunctualInv => SparesAtserver
    BY DEF PunctualInv, SparesAtserver
  <1> QED BY <1>1, <1>2, ATSrvTypeCorrect, NextPunctual, PTL DEF Spec
=============================================================================
