------------------------------- MODULE ATSrv --------------------------------
(***************************************************************************)
(* An AT session over the socket of the stock atserver (sendPDUviaATSrv    *)
(* and atSrvCmd): AT+CMEE=1, AT+CMGF=0 and AT+CMGS, each on a connection   *)
(* of its own, with atSrvGap of sleep in between.  Sessions follow each    *)
(* other under modemMu (Dispatch shows that they never overlap), so one    *)
(* session is enough state.                                                *)
(*                                                                         *)
(* atserver is external.  What the code says of it: it serves connections  *)
(* one by one, is told a timeout in each request, dies of SIGPIPE when it  *)
(* answers a connection that is gone, and stays dead until the watchdog    *)
(* restarts it.  A request it has not yet read survives the client that    *)
(* wrote it.                                                               *)
(***************************************************************************)
EXTENDS Naturals, Sequences

CONSTANTS
  Gap,          \* atSrvGap, in ticks
  ShortTO,      \* timeout told to atserver for AT+CMEE and AT+CMGF
  LongTO,       \* timeout told to atserver for AT+CMGS
  Grace,        \* what atSrvCmd adds to it for its own read deadline
  MaxLate,      \* bound: an atserver later than this may never answer
  MaxSessions   \* bound: sessions in one behaviour

ASSUME ATSrvAssumption ==
  /\ Gap \in Nat \ {0}
  /\ ShortTO \in Nat
  /\ LongTO \in Nat
  /\ ShortTO <= LongTO
  /\ Grace \in Nat
  /\ MaxLate \in Nat /\ Grace <= MaxLate
  /\ MaxSessions \in Nat

VARIABLES
  ses,       \* number of the current or last session
  pc,        \* where it is
  cmd,       \* the command it is at
  fits,      \* does its AT+CMGS string fit in a request?
  timer,     \* ticks since the current wait began
  reply,     \* what the open connection has received
  result,    \* result of every session
  late,      \* how far this atserver overruns; it never changes
  up,        \* is atserver running?
  queue,     \* requests atserver has not answered; it works on the first
  accepted,  \* sessions whose PDU the modem has accepted
  killed     \* has the relay made atserver die of SIGPIPE?

vars == <<ses, pc, cmd, fits, timer, reply, result, late, up, queue,
          accepted, killed>>

Sessions == 1 .. MaxSessions
Commands == {"CMEE", "CMGF", "CMGS"}
Requests == [cmd : Commands, ses : Sessions, live : BOOLEAN]
\* "cut" is a response of at least 8 bytes that broke off before its text,
\* "short" one of fewer than 8 bytes.
Replies == {"none", "ok", "error", "+cmgs", "cut", "short"}
\* Timers stop here: no wait is longer.
Horizon == LongTO + Grace + Gap

ATSrvTypeOK ==
  /\ ses \in 0 .. MaxSessions
  /\ pc \in {"free", "dial", "await", "sleep"}
  /\ cmd \in Commands
  /\ fits \in BOOLEAN
  /\ timer \in 0 .. Horizon
  /\ reply \in Replies
  /\ result \in [Sessions -> {"none", "sent", "failed"}]
  /\ late \in 0 .. MaxLate
  /\ up \in BOOLEAN
  /\ queue \in Seq(Requests)
  /\ accepted \subseteq Sessions
  /\ killed \in BOOLEAN

Init ==
  /\ ses = 0
  /\ pc = "free"
  /\ cmd = "CMEE"
  /\ fits = TRUE
  /\ timer = 0
  /\ reply = "none"
  /\ result = [s \in Sessions |-> "none"]
  /\ late \in 0 .. MaxLate
  /\ up \in BOOLEAN
  /\ queue = <<>>
  /\ accepted = {}
  /\ killed = FALSE

srvVars == <<late, up, queue, accepted, killed>>

-----------------------------------------------------------------------------
(* The relay.                                                              *)

Timeout(c) == IF c = "CMGS" THEN LongTO ELSE ShortTO

\* Mutant: the relay waits no longer than it told atserver.
ReadDeadlineTold(c) == Timeout(c)

\* The read deadline of atSrvCmd: the timeout atserver was told, and more.
ReadDeadline(c) == Timeout(c) + Grace

\* sendPDUviaATSrv returns; sendWorker releases modemMu.
Finish(r) ==
  /\ result' = [result EXCEPT ![ses] = r]
  /\ pc' = "free"
  /\ timer' = 0
  /\ UNCHANGED <<ses, cmd, fits>>

\* modemMu is handed to the next worker, at once or later.
StartSession ==
  /\ pc = "free"
  /\ ses < MaxSessions
  /\ ses' = ses + 1
  /\ pc' = "dial"
  /\ cmd' = "CMEE"
  /\ fits' \in BOOLEAN
  /\ UNCHANGED <<timer, reply, result, srvVars>>

\* atSrvFrame refuses a text that is too long: no connection is made.
FrameTooLong ==
  /\ pc = "dial"
  /\ cmd = "CMGS" /\ ~fits
  /\ Finish("failed")
  /\ UNCHANGED <<reply, srvVars>>

\* Nobody listens on the socket, its backlog is full, or the write fails.
DialFails ==
  /\ pc = "dial"
  /\ cmd = "CMGS" => fits
  /\ Finish("failed")
  /\ UNCHANGED <<reply, srvVars>>

\* Dial and write succeed; the request waits for its turn.
Dial ==
  /\ pc = "dial"
  /\ cmd = "CMGS" => fits
  /\ up
  /\ queue' = Append(queue, [cmd |-> cmd, ses |-> ses, live |-> TRUE])
  /\ pc' = "await"
  /\ timer' = 0
  /\ reply' = "none"
  /\ UNCHANGED <<ses, cmd, fits, result, late, up, accepted, killed>>

\* What sendPDUviaATSrv makes of a response.  Nothing is asked of the one to
\* AT+CMEE=1 but to be there.
GoesOn == reply # "short" /\ (cmd = "CMEE" \/ (cmd = "CMGF" /\ reply = "ok"))
\* Mutant: everything but an error counts as sent.
SaysSentUnlessError == cmd = "CMGS" /\ reply # "error"

SaysSent == cmd = "CMGS" /\ reply = "+cmgs"

\* ReadFull returns and the connection is closed.
Receive ==
  /\ pc = "await"
  /\ reply # "none"
  /\ \/ /\ GoesOn
        /\ pc' = "sleep"
        /\ timer' = 0
        /\ UNCHANGED <<ses, cmd, fits, result>>
     \/ /\ ~GoesOn
        /\ Finish(IF SaysSent THEN "sent" ELSE "failed")
  /\ reply' = "none"
  /\ UNCHANGED srvVars

Orphan(r) == [cmd |-> r.cmd, ses |-> r.ses, live |-> FALSE]

\* Mutant: no read deadline is set.
GiveUpNever == FALSE /\ UNCHANGED vars

\* The read deadline passes with nothing received: the connection is closed
\* under the request.
GiveUp ==
  /\ pc = "await"
  /\ reply = "none"
  /\ timer >= ReadDeadline(cmd)
  /\ Finish("failed")
  /\ queue' = [i \in DOMAIN queue |-> Orphan(queue[i])]
  /\ UNCHANGED <<reply, late, up, accepted, killed>>

\* time.Sleep(atSrvGap) ends.
Wake ==
  /\ pc = "sleep"
  /\ timer >= Gap
  /\ cmd' = IF cmd = "CMEE" THEN "CMGF" ELSE "CMGS"
  /\ pc' = "dial"
  /\ timer' = 0
  /\ UNCHANGED <<ses, fits, reply, result, srvVars>>

-----------------------------------------------------------------------------
(* atserver, the modem behind it, and its watchdog (external but for the   *)
(* last).                                                                  *)

\* The modem accepts the PDU of the AT+CMGS at work.
modemAccepts ==
  /\ up /\ queue # <<>>
  /\ Head(queue).cmd = "CMGS"
  /\ accepted' = accepted \cup {Head(queue).ses}
  /\ UNCHANGED <<ses, pc, cmd, fits, timer, reply, result, late, up,
                 queue, killed>>

Answers(r) ==
  {a \in {"ok", "error", "+cmgs"} :
     /\ a = "ok" => r.cmd # "CMGS"
     /\ a = "+cmgs" => r.cmd = "CMGS" /\ r.ses \in accepted}

Awaited == \E i \in DOMAIN queue : queue[i].live

\* atserver sends its response.  On a connection that is gone this is its
\* end, and the end of every connection it has not served.
srvAnswers ==
  /\ up /\ queue # <<>>
  /\ IF Head(queue).live
     THEN /\ reply' \in Answers(Head(queue))
          /\ queue' = Tail(queue)
          /\ UNCHANGED <<up, killed>>
     ELSE /\ reply' = IF Awaited THEN "short" ELSE reply
          /\ queue' = <<>>
          /\ up' = FALSE
          /\ killed' = TRUE
  /\ UNCHANGED <<ses, pc, cmd, fits, timer, result, late, accepted>>

\* atserver dies for a reason of its own, perhaps within a response.
srvCrashes ==
  /\ up
  /\ up' = FALSE
  /\ queue' = <<>>
  /\ \/ ~Awaited /\ UNCHANGED reply
     \/ Awaited /\ reply' = "short"
     \/ /\ Awaited /\ Head(queue).live
        /\ reply' \in Answers(Head(queue)) \cup {"cut"}
  /\ UNCHANGED <<ses, pc, cmd, fits, timer, result, late, accepted,
                 killed>>

\* A turn of watchdogLoop that finds atserver gone and revives it.
watchdogLoop ==
  /\ ~up
  /\ up' = TRUE
  /\ UNCHANGED <<ses, pc, cmd, fits, timer, reply, result, late, queue,
                 accepted, killed>>

\* This is the instant by which atserver answers.  One that is as late as can
\* be may hang for ever.
Due ==
  /\ late < MaxLate
  /\ pc = "await" /\ up /\ reply = "none" /\ timer >= Timeout(cmd) + late

Tick ==
  /\ ~Due
  /\ pc \in {"await", "sleep"} /\ timer < Horizon
  /\ timer' = timer + 1
  /\ UNCHANGED <<ses, pc, cmd, fits, reply, result, srvVars>>

Next ==
  \/ StartSession \/ FrameTooLong \/ DialFails \/ Dial \/ Receive \/ GiveUp
  \/ Wake \/ modemAccepts \/ srvAnswers \/ srvCrashes \/ watchdogLoop \/ Tick

Spec == Init /\ [][Next]_vars

\* The goroutine runs, its deadlines fire and time passes.  Of atserver only
\* what late says is assumed: time does not stand still when its answer is
\* due.
Fairness ==
  /\ WF_vars(FrameTooLong) /\ WF_vars(DialFails) /\ WF_vars(Dial)
  /\ WF_vars(Receive) /\ WF_vars(GiveUp) /\ WF_vars(Wake)
  /\ WF_vars(Tick \/ (Due /\ srvAnswers))

FairSpec == Spec /\ Fairness

-----------------------------------------------------------------------------

\* "sent" is reported only for a PDU the modem has accepted, however requests
\* of sessions that gave up, broken responses and restarts of atserver
\* interleave (the verdicts of sendPDUviaATSrv).
SentMeansAccepted ==
  \A s \in Sessions : result[s] = "sent" => s \in accepted

\* As long as atserver keeps the timeout it was told to within the extra time
\* of atSrvCmd's read deadline, the relay never kills it by closing early and
\* never leaves a request behind for a later session to collide with.
SparesAtserver ==
  late < Grace => ~killed /\ Len(queue) <= 1

\* Every session ends, whatever atserver does: each wait of atSrvCmd has a
\* deadline.
SessionsEnd == pc # "free" ~> pc = "free"
=============================================================================
