------------------------------ MODULE RawPort -------------------------------
(***************************************************************************)
(* AT sessions on the device node /dev/rpm30 (port_linux.go): openPort     *)
(* starts a reader goroutine, sendPDU or runSelfTest issues commands and   *)
(* polls the buffer the reader fills, close waits for the reader and       *)
(* leaves the descriptor open when it does not end.  Sessions follow each  *)
(* other (modemMu in the relay, the loop of runSelfTest).                  *)
(*                                                                         *)
(* The device is shared: every open descriptor and atserver take from one  *)
(* queue of answers, and Read blocks when the data that select announced   *)
(* has gone to somebody else.  The modem is external; one that is waiting  *)
(* for the text of an SMS takes command lines for that text, or aborts.    *)
(* A time limit that races an answer is a choice; what may go wrong in a   *)
(* behaviour is fixed by faults.                                           *)
(***************************************************************************)
EXTENDS Integers, Sequences

CONSTANTS
  SetSize,      \* descriptors an FdSet can hold (1024)
  MaxFd,        \* the process's limit on descriptors, minus one
  FaultSets,    \* the combinations of faults to consider
  MaxSessions,  \* bound: sessions in one behaviour
  MaxLag,       \* bound: lines unread by the modem; what comes on top is lost
  MaxPolls      \* bound: answers meant for atserver

\* "late": the modem and the scheduler overrun the limits of waitFor and
\* close; "shared": atserver polls and reads the device too; "readerr": select
\* or Read may fail; "write": a write may fail, which the code ignores.
Faults == {"late", "shared", "readerr", "write"}

ASSUME RawPortAssumption ==
  /\ SetSize \in Nat
  /\ MaxFd \in Nat
  /\ FaultSets \subseteq SUBSET Faults
  /\ MaxSessions \in Nat
  /\ MaxLag \in Nat \ {0}
  /\ MaxPolls \in Nat

VARIABLES
  mode,      \* "send", "report" (-report) or "selftest"
  faults,    \* what may go wrong in this behaviour
  ses,       \* number of the current or last session
  pc,        \* where it is
  step,      \* the command it is at
  buf,       \* buf of its port
  heard,     \* what the last waitFor returned
  fd,        \* descriptor of every port
  open,      \* ports whose descriptor is open
  reader,    \* where the reader goroutine of every port is
  taken,     \* descriptors of the relay's other components
  result,    \* verdict of every session
  by,        \* the acceptances whose "+CMGS" made it say "sent"
  line,      \* what the modem has not yet read
  dev,       \* what nobody has yet read from the modem
  text,      \* the modem waits for the text of an SMS
  dirty,     \* something else has gone into that text
  accepted,  \* sessions whose PDU the modem has accepted
  polls      \* answers meant for atserver so far

conf == <<mode, faults>>
sesVars == <<ses, pc, step, buf, heard, result, by>>
fdVars == <<fd, open, taken>>
smsVars == <<text, dirty, accepted, polls>>
vars == <<conf, sesVars, fdVars, reader, line, dev, smsVars>>

Fds == 0 .. MaxFd
Sessions == 1 .. MaxSessions
Commands == {"AT", "CSQ", "CMEE", "CMGF", "CNMI", "CMGS", "PDU"}
Tokens == {"OK", "ERROR", ">", "+CMGS", "+CDS"}
\* Whose command an answer belongs to; 0 is atserver.
Origins == 0 .. MaxSessions
Answers == [tok : Tokens, ses : Origins]

RawTypeOK ==
  /\ mode \in {"send", "report", "selftest"}
  /\ faults \in FaultSets
  /\ ses \in 0 .. MaxSessions
  /\ pc \in {"free", "wait", "next", "close"}
  /\ step \in Commands \cup {"CDS"}
  /\ buf \subseteq Answers
  /\ heard \subseteq Answers
  /\ fd \in [Sessions -> Fds]
  /\ open \subseteq Sessions
  /\ reader \in [Sessions -> {"none", "check", "select", "read", "ended"}]
  /\ taken \subseteq Fds
  /\ result \in [Sessions -> {"none", "ok", "sent", "failed"}]
  /\ by \in [Sessions -> SUBSET Origins]
  /\ line \in Seq([cmd : Commands, ses : Sessions])
  /\ dev \in Seq(Answers)
  /\ text \in BOOLEAN
  /\ dirty \in BOOLEAN
  /\ accepted \subseteq Sessions
  /\ polls \in 0 .. MaxPolls

Init ==
  /\ mode \in {"send", "report", "selftest"}
  /\ faults \in FaultSets
  /\ ses = 0
  /\ pc = "free"
  /\ step = "CMEE"
  /\ buf = {}
  /\ heard = {}
  /\ fd = [s \in Sessions |-> 0]
  /\ open = {}
  /\ reader = [s \in Sessions |-> "none"]
  /\ taken = {}
  /\ result = [s \in Sessions |-> "none"]
  /\ by = [s \in Sessions |-> {}]
  /\ line = <<>>
  /\ dev = <<>>
  /\ text = FALSE
  /\ dirty = FALSE
  /\ accepted = {}
  /\ polls = 0

-----------------------------------------------------------------------------
(* Descriptors.                                                            *)

FreeFds == {f \in Fds \ taken : \A s \in open : fd[s] # f}
\* open(2) and socket(2) return the lowest free descriptor.
Lowest(f) == f \in FreeFds /\ \A g \in FreeFds : f <= g

\* fdSet and fdIsSet ignore a descriptor beyond the set: its port is never read.
\* For such a descriptor select is told more bits than the set has and also
\* reads, and clears, memory behind it.  Of that the model has what the program
\* can notice: nothing (readerTicks) or an error (readerFails).
Watched(s) == fd[s] < SetSize

OtherOpens ==
  /\ \E f \in Fds : Lowest(f) /\ taken' = taken \cup {f}
  /\ UNCHANGED <<conf, sesVars, fd, open, reader, line, dev, smsVars>>

OtherCloses ==
  /\ \E f \in taken : taken' = taken \ {f}
  /\ UNCHANGED <<conf, sesVars, fd, open, reader, line, dev, smsVars>>

-----------------------------------------------------------------------------
(* The session: sendPDU, or one cycle of runSelfTest.                      *)

\* write: an error is ignored.
Write(s, c) ==
  \/ Len(line) < MaxLag /\ line' = Append(line, [cmd |-> c, ses |-> s])
  \/ ("write" \in faults \/ Len(line) >= MaxLag) /\ line' = line

\* Mutant: what an earlier wait has left in the buffer is not drained.
IssueUndrained(s, c) ==
  /\ step' = c
  /\ pc' = "wait"
  /\ buf' = buf
  /\ heard' = {}
  /\ Write(s, c)

\* drain, write, and the beginning of waitFor.
Issue(s, c) ==
  /\ step' = c
  /\ pc' = "wait"
  /\ buf' = {}
  /\ heard' = {}
  /\ Write(s, c)

openPort ==
  /\ pc = "free"
  /\ ses < MaxSessions
  /\ ses' = ses + 1
  /\ \E f \in Fds : Lowest(f) /\ fd' = [fd EXCEPT ![ses'] = f]
  /\ open' = open \cup {ses'}
  /\ reader' = [reader EXCEPT ![ses'] = "check"]
  /\ Issue(ses + 1, IF mode = "selftest" THEN "AT" ELSE "CMEE")
  /\ UNCHANGED <<conf, result, by, taken, dev, smsVars>>

\* No such device, or no descriptor left.
openFails ==
  /\ pc = "free"
  /\ ses < MaxSessions
  /\ ses' = ses + 1
  /\ result' = [result EXCEPT ![ses'] = "failed"]
  /\ UNCHANGED <<conf, pc, step, buf, heard, by, fdVars, reader, line, dev,
                 smsVars>>

AwaitedBy(c) ==
  CASE c = "CMGS" -> {">"}
    [] c = "PDU"  -> {"+CMGS", "ERROR"}
    [] c = "CDS"  -> {"+CDS"}
    [] OTHER      -> {"OK", "ERROR"}

Has(answers, tok) == \E a \in answers : a.tok = tok

\* An answer to this session is on its way to a reader that can hear it.
Coming ==
  \/ line # <<>>
  \/ /\ Watched(ses) /\ reader[ses] # "ended" /\ step # "CDS"
     /\ \E i \in DOMAIN dev : dev[i].ses = ses

\* waitFor finds a token, or its time is up.
waitFor ==
  /\ pc = "wait"
  /\ \/ \E t \in AwaitedBy(step) : Has(buf, t)
     \/ "late" \in faults
     \/ ~Coming
  /\ pc' = "next"
  /\ heard' = buf
  /\ UNCHANGED <<conf, ses, step, buf, result, by, fdVars, reader, line, dev,
                 smsVars>>

\* The function returns r; the deferred close sets stopped.  Nobody looks at
\* the buffer of a stopped port again.
Finish(r) ==
  /\ pc' = "close"
  /\ result' = [result EXCEPT ![ses] = r]
  /\ buf' = {}
  /\ heard' = {}
  /\ UNCHANGED <<step, by, line>>

\* runSelfTest counts the cycle if AT was answered OK, and goes on anyway.
selfTest ==
  /\ pc = "next"
  /\ \/ /\ step = "AT"
        /\ Issue(ses, "CSQ")
        /\ result' = [result EXCEPT ![ses] =
                        IF Has(heard, "OK") THEN "ok" ELSE "failed"]
        /\ UNCHANGED by
     \/ step = "CSQ" /\ Finish(result[ses])
  /\ UNCHANGED <<conf, ses, fdVars, reader, dev, smsVars>>

\* Mutant: whatever is not an error counts as sent.
SaysSentUnlessError(answers) == ~Has(answers, "ERROR")

SaysSent(answers) == Has(answers, "+CMGS")
Acceptances(answers) == {a.ses : a \in {b \in answers : b.tok = "+CMGS"}}

\* What sendPDU does with the answer to each command.
sendPDU ==
  /\ pc = "next"
  /\ \/ /\ step = "CMEE"
        /\ Issue(ses, "CMGF")
        /\ UNCHANGED <<result, by>>
     \/ /\ step = "CMGF" /\ Has(heard, "OK")
        /\ Issue(ses, IF mode = "report" THEN "CNMI" ELSE "CMGS")
        /\ UNCHANGED <<result, by>>
     \/ /\ step = "CNMI"
        /\ Issue(ses, "CMGS")
        /\ UNCHANGED <<result, by>>
     \/ /\ step = "CMGS" /\ Has(heard, ">")
        /\ Issue(ses, "PDU")
        /\ UNCHANGED <<result, by>>
     \/ /\ \/ step = "CMGF" /\ ~Has(heard, "OK")
           \/ step = "CMGS" /\ ~Has(heard, ">")
           \/ step = "PDU" /\ ~SaysSent(heard)
        /\ Finish("failed")
     \/ /\ step = "PDU" /\ SaysSent(heard)
        /\ result' = [result EXCEPT ![ses] = "sent"]
        /\ by' = [by EXCEPT ![ses] = Acceptances(heard)]
        /\ step' = "CDS"
        /\ pc' = IF mode = "report" THEN "wait" ELSE "close"
        /\ buf' = {}
        /\ heard' = {}
        /\ UNCHANGED line
     \/ step = "CDS" /\ Finish(result[ses])
  /\ UNCHANGED <<conf, ses, fdVars, reader, dev, smsVars>>

\* Mutant: the descriptor is not closed.
closeKeepsFd ==
  /\ pc = "close"
  /\ reader[ses] = "ended"
  /\ pc' = "free"
  /\ UNCHANGED <<conf, ses, step, buf, heard, result, by, fdVars, reader, line,
                 dev, smsVars>>

\* close: the reader has ended and the descriptor is closed.
close ==
  /\ pc = "close"
  /\ reader[ses] = "ended"
  /\ open' = open \ {ses}
  /\ pc' = "free"
  /\ UNCHANGED <<conf, ses, step, buf, heard, result, by, fd, taken, reader,
                 line, dev, smsVars>>

\* Mutant: the descriptor is closed under the reader.
closeTimesOutClosing ==
  /\ pc = "close"
  /\ "late" \in faults \/ (reader[ses] = "read" /\ dev = <<>>)
  /\ open' = open \ {ses}
  /\ pc' = "free"
  /\ UNCHANGED <<conf, ses, step, buf, heard, result, by, fd, taken, reader,
                 line, dev, smsVars>>

\* Mutant: close waits for the reader without a limit.
closeWaits == FALSE /\ UNCHANGED vars

\* close: two seconds are over and the descriptor stays open for good.  A
\* reader that is not stuck in Read needs a tenth of that.
closeTimesOut ==
  /\ pc = "close"
  /\ "late" \in faults \/ (reader[ses] = "read" /\ dev = <<>>)
  /\ pc' = "free"
  /\ UNCHANGED <<conf, ses, step, buf, heard, result, by, fdVars, reader, line,
                 dev, smsVars>>

-----------------------------------------------------------------------------
(* The reader goroutine of port s.                                         *)

Stopped(s) == s < ses \/ pc \in {"close", "free"}

ReaderGoes(s, to) ==
  /\ reader' = [reader EXCEPT ![s] = to]
  /\ UNCHANGED <<conf, ses, pc, step, heard, result, by, fdVars, line,
                 smsVars>>

readerChecks(s) ==
  /\ reader[s] = "check"
  /\ ReaderGoes(s, IF Stopped(s) THEN "ended" ELSE "select")
  /\ UNCHANGED <<buf, dev>>

\* select returns after a tick, or with EINTR.
readerTicks(s) ==
  /\ reader[s] = "select"
  /\ ReaderGoes(s, "check")
  /\ UNCHANGED <<buf, dev>>

\* select says that there is something to read.
readerSelects(s) ==
  /\ reader[s] = "select"
  /\ dev # <<>> /\ Watched(s)
  /\ ReaderGoes(s, "read")
  /\ UNCHANGED <<buf, dev>>

\* Read returns data; while there is none it blocks.
readerReads(s) ==
  /\ reader[s] = "read"
  /\ dev # <<>>
  /\ buf' = IF ~Stopped(s) THEN buf \cup {Head(dev)} ELSE buf
  /\ dev' = Tail(dev)
  /\ ReaderGoes(s, "check")

readerFails(s) ==
  /\ "readerr" \in faults
  /\ reader[s] \in {"select", "read"}
  /\ ReaderGoes(s, "ended")
  /\ UNCHANGED <<buf, dev>>

Reader(s) ==
  \/ readerChecks(s) \/ readerTicks(s) \/ readerSelects(s) \/ readerReads(s)

-----------------------------------------------------------------------------
(* The modem and atserver.                                                 *)

\* The modem reads a line, gives one of the answers, and waits for text or not.
ModemSays(toks, waits) ==
  /\ line' = Tail(line)
  /\ \E t \in toks : dev' = Append(dev, [tok |-> t, ses |-> Head(line).ses])
  /\ text' = waits
  /\ dirty' = FALSE

\* A line outside the text of an SMS.
modemObeys ==
  /\ line # <<>> /\ ~text
  /\ \/ ModemSays(IF Head(line).cmd \in {"CMGS", "PDU"}
                  THEN {"ERROR"} ELSE {"OK", "ERROR"}, FALSE)
     \/ Head(line).cmd = "CMGS" /\ ModemSays({">"}, TRUE)
  /\ UNCHANGED <<conf, sesVars, fdVars, reader, accepted, polls>>

\* A command taken for text, or for the end of it.
modemSwallows ==
  /\ line # <<>> /\ text /\ Head(line).cmd # "PDU"
  /\ \/ /\ line' = Tail(line)
        /\ dirty' = TRUE
        /\ UNCHANGED <<dev, text>>
     \/ ModemSays({"ERROR"}, FALSE)
  /\ UNCHANGED <<conf, sesVars, fdVars, reader, accepted, polls>>

\* The end of the text.
modemTakesPDU ==
  /\ line # <<>> /\ text /\ Head(line).cmd = "PDU"
  /\ \/ ModemSays({"ERROR"}, FALSE) /\ UNCHANGED accepted
     \/ /\ ~dirty
        /\ ModemSays({"+CMGS"}, FALSE)
        /\ accepted' = accepted \cup {Head(line).ses}
  /\ UNCHANGED <<conf, sesVars, fdVars, reader, polls>>

\* A status report for the SMS of this session; it is nobody's answer and may
\* be followed by another.
modemReports ==
  /\ pc = "wait" /\ step = "CDS" /\ ses \in accepted
  /\ ~Has(buf, "+CDS") /\ \A i \in DOMAIN dev : dev[i].tok # "+CDS"
  /\ dev' = Append(dev, [tok |-> "+CDS", ses |-> ses])
  /\ UNCHANGED <<conf, sesVars, fdVars, reader, line, smsVars>>

Modem == modemObeys \/ modemSwallows \/ modemTakesPDU

\* atserver polls the modem, and reads whatever comes first.
srvPolls ==
  /\ "shared" \in faults /\ polls < MaxPolls
  /\ polls' = polls + 1
  /\ \E t \in {"OK", "ERROR"} : dev' = Append(dev, [tok |-> t, ses |-> 0])
  /\ UNCHANGED <<conf, sesVars, fdVars, reader, line, text, dirty, accepted>>

srvReads ==
  /\ "shared" \in faults /\ dev # <<>>
  /\ dev' = Tail(dev)
  /\ UNCHANGED <<conf, sesVars, fdVars, reader, line, smsVars>>

Session == waitFor \/ selfTest \/ sendPDU \/ close \/ closeTimesOut

Next ==
  \/ openPort \/ openFails \/ Session
  \/ \E s \in Sessions : Reader(s) \/ readerFails(s)
  \/ Modem \/ modemReports \/ srvPolls \/ srvReads
  \/ OtherOpens \/ OtherCloses

Spec == Init /\ [][Next]_vars

\* Goroutines are scheduled and time limits fire; select does not overlook
\* for ever what is there to read; a modem that is not late reads what it is
\* sent.
Fairness ==
  /\ WF_vars(Session)
  /\ \A s \in Sessions : WF_vars(Reader(s)) /\ SF_vars(readerSelects(s))
  /\ WF_vars("late" \notin faults /\ Modem)

FairSpec == Spec /\ Fairness

-----------------------------------------------------------------------------
(* Properties.                                                             *)

Alive(s) == reader[s] \notin {"none", "ended"}

\* A reader goroutine that may still call select or Read holds a descriptor
\* of its own: it is open, no other port and no other component of the relay
\* has got the number since ("to prevent race conditions on reused fds", the
\* comment on close).
ReadersOwnTheirFd ==
  \A s \in Sessions : Alive(s) =>
    /\ s \in open
    /\ fd[s] \notin taken
    /\ \A t \in open \ {s} : fd[t] # fd[s]

\* However late, stolen or mixed up the answers are, every "sent" rests on an
\* SMS the modem did accept, and no acceptance serves for two: the relay
\* never reports more SMS than left (the verdict of sendPDU).
EverySentBacked ==
  \A s \in Sessions : result[s] = "sent" =>
    /\ by[s] # {}
    /\ by[s] \subseteq accepted
    /\ \A t \in Sessions \ {s} : by[s] \cap by[t] = {}

\* While atserver stays away, the limits are kept and the reader does not
\* break off, the verdict of a session is about its own SMS: "sent" is said of
\* every SMS that left and of no other, also when a write was lost or an
\* unwatched port has left its answers in the device.  (After a read error it
\* need not be: a later session can take the answers left behind, one by one,
\* for its own; EverySentBacked is what remains.)
VerdictsRight ==
  faults \subseteq {"write"} =>
    \A s \in Sessions :
      result[s] # "none" => (result[s] = "sent" <=> s \in accepted)

\* A session that ends leaves the modem ready for commands, every descriptor
\* closed and no goroutine behind, unless something fails or a port went
\* unwatched and left its answers in the device.
LeavesNothingBehind ==
  faults = {} /\ pc = "free" /\ (\A s \in Sessions : Watched(s)) =>
    /\ ~text /\ line = <<>>
    /\ open = {} /\ \A s \in Sessions : ~Alive(s)

\* Every session ends, whatever the modem, atserver and the reader do, and
\* also on a descriptor that select does not watch.
PortSessionsEnd == pc # "free" ~> pc = "free"
=============================================================================
