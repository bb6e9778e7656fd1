---------------------------- MODULE RawPortProofs ---------------------------
(***************************************************************************)
(* Proofs about RawPort, for any number of sessions and descriptors, any   *)
(* size of an FdSet and any combination of faults.                         *)
(***************************************************************************)
EXTENDS RawPort, TLAPS

USE RawPortAssumption DEF Sessions

-----------------------------------------------------------------------------
(* What the proofs need of sequences.                                      *)

\* The rest of a queue is the queue, one place further on.
LEMMA TailOf ==
  ASSUME NEW S, NEW q \in Seq(S), q # <<>>
  PROVE  /\ Head(q) = q[1] /\ Head(q) \in S /\ 1 \in DOMAIN q
         /\ Tail(q) \in Seq(S)
         /\ \A i \in DOMAIN Tail(q) :
              i + 1 \in DOMAIN q /\ i + 1 # 1 /\ Tail(q)[i] = q[i + 1]
OBVIOUS

\* An element appended comes last and moves nothing.
LEMMA AppendOf ==
  ASSUME NEW S, NEW q \in Seq(S), NEW e \in S
  PROVE  /\ Append(q, e) \in Seq(S)
         /\ \A i \in DOMAIN Append(q, e) :
              \/ i \in DOMAIN q /\ Append(q, e)[i] = q[i]
              \/ i = Len(q) + 1 /\ Append(q, e)[i] = e
OBVIOUS

-----------------------------------------------------------------------------
(* Types.                                                                  *)

Lines == [cmd : Commands, ses : Sessions]

\* A session that is under way has a number.
SesInv == pc # "free" => ses \in Sessions

\* What is written to the modem is a line.
LEMMA WriteType ==
  ASSUME line \in Seq(Lines), NEW s \in Sessions, NEW c \in Commands,
         Write(s, c)
  PROVE  line' \in Seq(Lines)
<1>1. [cmd |-> c, ses |-> s] \in Lines
  BY DEF Lines
<1>2. Append(line, [cmd |-> c, ses |-> s]) \in Seq(Lines)
  BY <1>1, AppendOf
<1> QED
  BY <1>2 DEF Write

\* The answers of the modem are answers.
LEMMA ModemType ==
  ASSUME RawTypeOK, line # <<>>, NEW toks \in SUBSET Tokens,
         NEW waits \in BOOLEAN, ModemSays(toks, waits)
  PROVE  /\ line' \in Seq(Lines) /\ dev' \in Seq(Answers)
         /\ text' \in BOOLEAN /\ dirty' \in BOOLEAN
<1>1. line \in Seq(Lines) /\ dev \in Seq(Answers)
  BY DEF RawTypeOK, Lines
<1>2. line' \in Seq(Lines) /\ Head(line) \in Lines
  BY <1>1, TailOf DEF ModemSays
<1>3. PICK t \in toks : dev' = Append(dev, [tok |-> t, ses |-> Head(line).ses])
  BY DEF ModemSays
<1>4. [tok |-> t, ses |-> Head(line).ses] \in Answers
  BY <1>2, <1>3 DEF Answers, Lines, Origins
<1>5. dev' \in Seq(Answers)
  BY <1>1, <1>3, <1>4, AppendOf
<1> QED
  BY <1>2, <1>5 DEF ModemSays

\* Every step keeps the types and the number of the session.
LEMMA TypeStep ==
  ASSUME RawTypeOK, SesInv, [Next]_vars
  PROVE  RawTypeOK' /\ SesInv'
<1> USE DEF RawTypeOK, SesInv, conf, sesVars, fdVars, smsVars, Commands
<1>a. line \in Seq(Lines)
  BY DEF Lines
<1>b. line # <<>> => Tail(line) \in Seq(Lines) /\ Head(line) \in Lines
  BY <1>a, TailOf
<1>c. dev # <<>> => Tail(dev) \in Seq(Answers) /\ Head(dev) \in Answers
  BY TailOf
<1>1. CASE openPort
  <2>1. ses + 1 \in Sessions
    BY <1>1 DEF openPort
  <2>2. line' \in Seq(Lines)
    BY <1>1, <1>a, <2>1, WriteType DEF openPort, Issue
  <2>3. fd' \in [Sessions -> Fds] /\ ses' \in Sessions
    BY <1>1, <2>1 DEF openPort
  <2> QED
    BY <1>1, <2>1, <2>2, <2>3 DEF openPort, Issue, Lines
<1>2. CASE openFails
  BY <1>2 DEF openFails
<1>3. CASE waitFor
  BY <1>3 DEF waitFor
<1>4. CASE selfTest
  <2>1. line' \in Seq(Lines)
    BY <1>4, <1>a, WriteType DEF selfTest, Issue, Finish
  <2> QED
    BY <1>4, <2>1 DEF selfTest, Issue, Finish, Lines
<1>5. CASE sendPDU
  <2>1. line' \in Seq(Lines)
    BY <1>5, <1>a, WriteType DEF sendPDU, Issue, Finish
  <2>2. \A a \in heard : a.ses \in Origins
    BY DEF Answers
  <2>3. Acceptances(heard) \in SUBSET Origins
    BY <2>2 DEF Acceptances
  <2>4. by' = by \/ by' = [by EXCEPT ![ses] = Acceptances(heard)]
    BY <1>5 DEF sendPDU, Issue, Finish
  <2>5. by' \in [Sessions -> SUBSET Origins]
    BY <2>3, <2>4
  <2> QED
    BY <1>5, <2>1, <2>5 DEF sendPDU, Issue, Finish, Lines
<1>6. CASE close \/ closeTimesOut
  BY <1>6 DEF close, closeTimesOut
<1>7. ASSUME NEW s \in Sessions, Reader(s) \/ readerFails(s)
      PROVE  RawTypeOK' /\ SesInv'
  <2>1. buf' \subseteq Answers /\ dev' \in Seq(Answers)
    BY <1>7, <1>c DEF Reader, readerFails, readerChecks, readerTicks,
       readerSelects, readerReads
  <2>2. PICK to \in {"check", "select", "read", "ended"} : ReaderGoes(s, to)
    BY <1>7 DEF Reader, readerFails, readerChecks, readerTicks,
       readerSelects, readerReads
  <2> QED
    BY <2>1, <2>2 DEF ReaderGoes
<1>8. CASE modemObeys
  <2>1. line' \in Seq(Lines) /\ dev' \in Seq(Answers) /\ text' \in BOOLEAN
        /\ dirty' \in BOOLEAN
    BY <1>8, ModemType DEF modemObeys, Tokens
  <2> QED
    BY <1>8, <2>1 DEF modemObeys, Lines
<1>9. CASE modemSwallows
  <2>1. line' \in Seq(Lines) /\ dev' \in Seq(Answers) /\ text' \in BOOLEAN
        /\ dirty' \in BOOLEAN
    BY <1>9, <1>a, <1>b, ModemType DEF modemSwallows, Tokens
  <2> QED
    BY <1>9, <2>1 DEF modemSwallows, Lines
<1>10. CASE modemTakesPDU
  <2>1. line' \in Seq(Lines) /\ dev' \in Seq(Answers) /\ text' \in BOOLEAN
        /\ dirty' \in BOOLEAN
    BY <1>10, ModemType DEF modemTakesPDU, Tokens
  <2>2. Head(line).ses \in Sessions
    BY <1>10, <1>b DEF modemTakesPDU, Lines
  <2> QED
    BY <1>10, <2>1, <2>2 DEF modemTakesPDU, Lines
<1>11. CASE modemReports
  <2>1. [tok |-> "+CDS", ses |-> ses] \in Answers
    BY DEF Answers, Tokens, Origins
  <2> QED
    BY <1>11, <2>1, AppendOf DEF modemReports
<1>12. CASE srvPolls
  <2>1. \A t \in {"OK", "ERROR"} : [tok |-> t, ses |-> 0] \in Answers
    BY DEF Answers, Tokens, Origins
  <2> QED
    BY <1>12, <2>1, AppendOf DEF srvPolls
<1>13. CASE srvReads
  BY <1>13, TailOf DEF srvReads
<1>14. CASE OtherOpens \/ OtherCloses
  <2>1. taken' \subseteq Fds
    BY <1>14 DEF OtherOpens, OtherCloses
  <2>2. UNCHANGED <<conf, sesVars, fd, open, reader, line, dev, smsVars>>
    BY <1>14 DEF OtherOpens, OtherCloses
  <2> QED
    BY <2>1, <2>2
<1>15. CASE UNCHANGED vars
  BY <1>15 DEF vars
<1> QED
  BY <1>1, <1>2, <1>3, <1>4, <1>5, <1>6, <1>7, <1>8, <1>9, <1>10, <1>11,
     <1>12, <1>13, <1>14, <1>15 DEF Next, Session, Modem

\* The initial states are well typed.
LEMMA TypeInit ==
  ASSUME Init
  PROVE  RawTypeOK /\ SesInv
<1> USE DEF Init
<1>1. fd \in [Sessions -> Fds] /\ polls \in 0 .. MaxPolls /\ ses \in 0 .. MaxSessions
  BY DEF Fds
<1>2. line \in Seq([cmd : Commands, ses : Sessions]) /\ dev \in Seq(Answers)
  OBVIOUS
<1>3. /\ buf \subseteq Answers /\ heard \subseteq Answers
      /\ open \subseteq Sessions /\ taken \subseteq Fds
      /\ accepted \subseteq Sessions
  OBVIOUS
<1>4. /\ by \in [Sessions -> SUBSET Origins]
      /\ result \in [Sessions -> {"none", "ok", "sent", "failed"}]
      /\ reader \in [Sessions -> {"none", "check", "select", "read", "ended"}]
  OBVIOUS
<1>5. step \in Commands \cup {"CDS"} /\ pc \in {"free", "wait", "next", "close"}
  BY DEF Commands
<1> QED
  BY <1>1, <1>2, <1>3, <1>4, <1>5 DEF RawTypeOK, SesInv

\* Every reachable state of the raw port is well typed (port_linux.go and
\* runSelfTest).
THEOREM RawTypeCorrect == Spec => []RawTypeOK
<1>1. Init => RawTypeOK /\ SesInv
  BY TypeInit
<1>2. RawTypeOK /\ SesInv /\ [Next]_vars => RawTypeOK' /\ SesInv'
  BY TypeStep
<1> QED
  BY <1>1, <1>2, PTL DEF Spec

-----------------------------------------------------------------------------
(* Descriptors and readers.                                                *)

\* Ports of the future own nothing; what is open is open once; a reader that
\* has not ended keeps its port open.
FdInv ==
  /\ \A s \in Sessions : s > ses => s \notin open /\ reader[s] = "none"
  /\ \A s \in open : fd[s] \notin taken
  /\ \A s, t \in open : s # t => fd[s] # fd[t]
  /\ \A s \in Sessions : Alive(s) => s \in open

\* Every step keeps the descriptors apart.
LEMMA FdStep ==
  ASSUME RawTypeOK, SesInv, FdInv, [Next]_vars
  PROVE  FdInv'
<1> USE DEF RawTypeOK, SesInv, FdInv, Alive, conf, sesVars, fdVars, smsVars
<1>1. CASE openPort
  <2>1. ses + 1 \in Sessions /\ ses + 1 \notin open
    BY <1>1 DEF openPort
  <2>2. PICK f \in Fds : f \in FreeFds /\ fd' = [fd EXCEPT ![ses + 1] = f]
    BY <1>1 DEF openPort, Lowest
  <2>3. f \notin taken /\ \A s \in open : fd[s] # f
    BY <2>2 DEF FreeFds
  <2> QED
    BY <1>1, <2>1, <2>2, <2>3 DEF openPort
<1>2. CASE close
  BY <1>2 DEF close
<1>3. ASSUME NEW s \in Sessions, Reader(s) \/ readerFails(s)
      PROVE  FdInv'
  <2>1. PICK to \in {"check", "select", "read", "ended"} : ReaderGoes(s, to)
    BY <1>3 DEF Reader, readerFails, readerChecks, readerTicks,
       readerSelects, readerReads
  <2>2. Alive(s)
    BY <1>3 DEF Reader, readerFails, readerChecks, readerTicks,
       readerSelects, readerReads
  <2> QED
    BY <2>1, <2>2 DEF ReaderGoes
<1>4. CASE OtherOpens
  <2>1. PICK f \in Fds : f \in FreeFds /\ taken' = taken \cup {f}
    BY <1>4 DEF OtherOpens, Lowest
  <2>2. \A s \in open : fd[s] # f
    BY <2>1 DEF FreeFds
  <2> QED
    BY <1>4, <2>1, <2>2 DEF OtherOpens
<1>5. CASE OtherCloses
  BY <1>5 DEF OtherCloses
<1>6. CASE openFails
  BY <1>6 DEF openFails
<1>7. CASE \/ waitFor \/ selfTest \/ sendPDU \/ closeTimesOut
           \/ Modem \/ modemReports \/ srvPolls \/ srvReads
           \/ UNCHANGED vars
  <2>1. UNCHANGED <<ses, fdVars, reader>>
    BY <1>7 DEF waitFor, selfTest, sendPDU, closeTimesOut, Modem, modemObeys,
       modemSwallows, modemTakesPDU, modemReports, srvPolls, srvReads, vars
  <2> QED
    BY <2>1
<1> QED
  BY <1>1, <1>2, <1>3, <1>4, <1>5, <1>6, <1>7 DEF Next, Session

\* A reader goroutine that is still running owns an open descriptor nobody
\* else has: close never frees the number under it, whatever times out.
THEOREM NoForeignReads == Spec => []ReadersOwnTheirFd
<1>1. Init => RawTypeOK /\ SesInv /\ FdInv
  BY TypeInit DEF Init, FdInv, Alive
<1>2. RawTypeOK /\ SesInv /\ FdInv /\ [Next]_vars
        => RawTypeOK' /\ SesInv' /\ FdInv'
  BY TypeStep, FdStep
<1>3. FdInv => ReadersOwnTheirFd
  BY DEF FdInv, ReadersOwnTheirFd
<1> QED
  BY <1>1, <1>2, <1>3, PTL DEF Spec

-----------------------------------------------------------------------------
(* Verdicts.                                                               *)

Plus(a) == a.tok = "+CMGS"
IsPDU(l) == l.cmd = "PDU"
BeforePDU == pc \in {"wait", "next"} /\ step \notin {"PDU", "CDS"}

\* A PDU is written once by each session and accepted at most once.
LineInv ==
  /\ \A i \in DOMAIN line :
       /\ line[i].ses <= ses
       /\ IsPDU(line[i]) => line[i].ses \notin accepted
       /\ IsPDU(line[i]) /\ BeforePDU => line[i].ses # ses
  /\ \A i, j \in DOMAIN line :
       IsPDU(line[i]) /\ IsPDU(line[j]) /\ i # j => line[i].ses # line[j].ses
  /\ \A s \in accepted : s <= ses
  /\ BeforePDU => ses \notin accepted

\* A "+CMGS" stands for one acceptance and is in one place only: in the
\* device, in the buffer (or what waitFor has copied of it), or in a verdict.
SentInv ==
  /\ \A i \in DOMAIN dev : Plus(dev[i]) =>
       /\ dev[i].ses \in accepted
       /\ \A j \in DOMAIN dev : Plus(dev[j]) /\ i # j => dev[i].ses # dev[j].ses
       /\ \A a \in buf \cup heard : Plus(a) => a.ses # dev[i].ses
       /\ \A s \in Sessions : dev[i].ses \notin by[s]
  /\ \A a \in buf \cup heard : Plus(a) =>
       a.ses \in accepted /\ \A s \in Sessions : a.ses \notin by[s]
  /\ \A s \in Sessions :
       /\ by[s] \subseteq accepted
       /\ result[s] = "sent" => by[s] # {}
       /\ \A t \in Sessions \ {s} : by[s] \cap by[t] = {}

\* The lines after a write.
LEMMA LineWrite ==
  ASSUME RawTypeOK, NEW s \in Sessions, NEW c \in Commands, Write(s, c)
  PROVE  /\ \A i \in DOMAIN line' :
              \/ i \in DOMAIN line /\ line'[i] = line[i]
              \/ i = Len(line) + 1 /\ line'[i] = [cmd |-> c, ses |-> s]
<1>1. line \in Seq(Lines) /\ [cmd |-> c, ses |-> s] \in Lines
  BY DEF RawTypeOK, Lines
<1> QED
  BY <1>1, AppendOf DEF Write

\* Every step keeps the order of the PDUs.
LEMMA LineStep ==
  ASSUME RawTypeOK, SesInv, LineInv, [Next]_vars
  PROVE  LineInv'
<1> USE DEF SesInv, LineInv, IsPDU, BeforePDU, conf, sesVars, fdVars, smsVars
<1>a. line \in Seq(Lines)
  BY DEF RawTypeOK, Lines
<1>b. /\ ses \in Nat
      /\ \A s \in accepted : s \in Nat
      /\ \A i \in DOMAIN line : line[i].ses \in Nat
      /\ \A i \in DOMAIN line : i \in Nat /\ i # Len(line) + 1
  <2>1. \A i \in DOMAIN line : line[i] \in Lines
    BY <1>a
  <2> QED
    BY <1>a, <2>1 DEF RawTypeOK, Lines
<1>1. CASE openPort
  <2>1. ses + 1 \in Sessions /\ ses' = ses + 1
    BY <1>1 DEF openPort, RawTypeOK
  <2>2. PICK c \in {"AT", "CMEE"} : Issue(ses + 1, c)
    BY <1>1 DEF openPort
  <2>3. \A i \in DOMAIN line' :
          \/ i \in DOMAIN line /\ line'[i] = line[i]
          \/ i = Len(line) + 1 /\ line'[i] = [cmd |-> c, ses |-> ses + 1]
    BY <2>1, <2>2, LineWrite DEF Issue, Commands
  <2>4. UNCHANGED accepted
    BY <1>1 DEF openPort
  <2> QED
    BY <1>b, <2>1, <2>2, <2>3, <2>4 DEF Issue
<1>2. ASSUME NEW c \in Commands \ {"PDU"}, Issue(ses, c), BeforePDU,
             pc # "free", UNCHANGED <<ses, accepted>>
      PROVE  LineInv'
  <2>1. \A i \in DOMAIN line' :
          \/ i \in DOMAIN line /\ line'[i] = line[i]
          \/ i = Len(line) + 1 /\ line'[i] = [cmd |-> c, ses |-> ses]
    BY <1>2, LineWrite DEF Issue
  <2> QED
    BY <1>b, <1>2, <2>1 DEF Issue
<1>3. ASSUME UNCHANGED <<line, ses, accepted>>, BeforePDU' => BeforePDU
      PROVE  LineInv'
  BY <1>3
<1>4. CASE selfTest
  BY <1>2, <1>3, <1>4 DEF selfTest, Finish, Commands
<1>5. CASE sendPDU
  <2>1. CASE step = "CMGS" /\ Issue(ses, "PDU")
    <3>1. \A i \in DOMAIN line' :
            \/ i \in DOMAIN line /\ line'[i] = line[i]
            \/ i = Len(line) + 1 /\ line'[i] = [cmd |-> "PDU", ses |-> ses]
      BY <1>5, <2>1, LineWrite DEF sendPDU, Issue, Commands
    <3>2. UNCHANGED <<ses, accepted>> /\ BeforePDU /\ ~BeforePDU'
      BY <1>5, <2>1 DEF sendPDU, Issue
    <3> QED
      BY <1>b, <3>1, <3>2
  <2> QED
    BY <1>2, <1>3, <1>5, <2>1 DEF sendPDU, Finish, Commands
<1>6. CASE \/ openFails \/ waitFor \/ close \/ closeTimesOut \/ modemReports
           \/ srvPolls \/ srvReads \/ OtherOpens \/ OtherCloses
           \/ UNCHANGED vars \/ \E s \in Sessions : Reader(s) \/ readerFails(s)
  <2>1. CASE openFails
    BY <1>b, <2>1 DEF openFails
  <2>2. CASE ~openFails
    BY <1>3, <1>6, <2>2 DEF waitFor, close, closeTimesOut, modemReports,
       srvPolls, srvReads, OtherOpens, OtherCloses, vars, Reader,
       readerFails, readerChecks, readerTicks, readerSelects, readerReads,
       ReaderGoes
  <2> QED
    BY <2>1, <2>2
<1>7. CASE Modem
  <2>1. line # <<>> /\ line' = Tail(line) /\ UNCHANGED <<ses, pc, step>>
    BY <1>7 DEF Modem, modemObeys, modemSwallows, modemTakesPDU, ModemSays
  <2>2. /\ Head(line) = line[1] /\ 1 \in DOMAIN line
        /\ \A i \in DOMAIN line' :
             i + 1 \in DOMAIN line /\ i + 1 # 1 /\ line'[i] = line[i + 1]
    BY <1>a, <2>1, TailOf
  <2>3. \/ UNCHANGED accepted
        \/ IsPDU(line[1]) /\ accepted' = accepted \cup {line[1].ses}
    BY <1>7, <2>2 DEF Modem, modemObeys, modemSwallows, modemTakesPDU
  <2>4. \A i, j \in DOMAIN line' : i # j => i + 1 # j + 1
    <3>1. line' \in Seq(Lines)
      BY <1>a, <2>1, TailOf
    <3> QED
      BY <3>1
  <2> QED
    BY <1>b, <2>1, <2>2, <2>3, <2>4
<1> QED
  BY <1>1, <1>4, <1>5, <1>6, <1>7 DEF Next, Session

\* Every step keeps each "+CMGS" in one place.
LEMMA SentStep ==
  ASSUME RawTypeOK, SesInv, LineInv, SentInv, [Next]_vars
  PROVE  SentInv'
<1> USE DEF SesInv, SentInv, conf, sesVars, fdVars, smsVars
<1>a. /\ dev \in Seq(Answers)
      /\ by \in [Sessions -> SUBSET Origins]
      /\ result \in [Sessions -> {"none", "ok", "sent", "failed"}]
  BY DEF RawTypeOK
<1>b. \A i \in DOMAIN dev : i \in Nat /\ i # Len(dev) + 1
  BY <1>a
<1>c. dev # <<>> =>
        /\ Head(dev) = dev[1] /\ 1 \in DOMAIN dev
        /\ \A i \in DOMAIN Tail(dev) :
             /\ i + 1 \in DOMAIN dev /\ i + 1 # 1 /\ Tail(dev)[i] = dev[i + 1]
             /\ \A j \in DOMAIN Tail(dev) : i # j => i + 1 # j + 1
  <2>1. dev # <<>> => Tail(dev) \in Seq(Answers)
    BY <1>a, TailOf
  <2> QED
    BY <1>a, <2>1, TailOf
\* The device gets an answer that is not a "+CMGS".
<1>1. ASSUME NEW t \in Tokens \ {"+CMGS"}, NEW o \in Origins,
             dev' = Append(dev, [tok |-> t, ses |-> o]),
             UNCHANGED <<buf, heard, by, result, accepted>>
      PROVE  SentInv'
  <2>1. [tok |-> t, ses |-> o] \in Answers
    BY DEF Answers
  <2>2. \A i \in DOMAIN dev' : Plus(dev'[i]) =>
          i \in DOMAIN dev /\ dev'[i] = dev[i]
    BY <1>1, <1>a, <2>1, AppendOf DEF Plus
  <2> QED
    BY <1>1, <2>2
\* The device keeps what it has and the session forgets what it likes.
<1>2. ASSUME UNCHANGED <<dev, by, accepted>>, buf' \subseteq buf,
             heard' \subseteq buf \cup heard,
             \A s \in Sessions : result'[s] = "sent" => result[s] = "sent"
      PROVE  SentInv'
  <2>1. \A a \in buf' \cup heard' : a \in buf \cup heard
    BY <1>2
  <2> QED
    BY <1>2, <2>1
\* Somebody takes the first answer from the device, and may keep it.
<1>3. ASSUME dev # <<>>, dev' = Tail(dev), UNCHANGED <<heard, by, result, accepted>>,
             buf' \subseteq buf \cup {Head(dev)}
      PROVE  SentInv'
  <2>1. \A i \in DOMAIN dev' :
          /\ i + 1 \in DOMAIN dev /\ i + 1 # 1 /\ dev'[i] = dev[i + 1]
          /\ \A j \in DOMAIN dev' : i # j => i + 1 # j + 1
    BY <1>3, <1>c
  <2>2. Head(dev) = dev[1] /\ 1 \in DOMAIN dev
    BY <1>3, <1>c
  <2>3. \A a \in buf' \cup heard' : a \in buf \cup heard \/ a = dev[1]
    BY <1>3, <2>2
  <2> QED
    BY <1>3, <2>1, <2>2, <2>3
<1>4. CASE openPort \/ openFails
  <2>1. ses' \in Sessions
    BY <1>4 DEF openPort, openFails, RawTypeOK
  <2>2. /\ UNCHANGED <<dev, by, accepted>>
        /\ buf' \subseteq buf /\ heard' \subseteq buf \cup heard
    BY <1>4 DEF openPort, openFails, Issue
  <2>3. \A s \in Sessions : result'[s] = "sent" => result[s] = "sent"
    BY <1>4, <1>a, <2>1 DEF openPort, openFails
  <2> QED
    BY <1>2, <2>2, <2>3
<1>5. CASE waitFor \/ selfTest \/ close \/ closeTimesOut \/ OtherOpens
           \/ OtherCloses \/ UNCHANGED vars
  <2>1. /\ UNCHANGED <<dev, by, accepted>>
        /\ buf' \subseteq buf /\ heard' \subseteq buf \cup heard
    BY <1>5 DEF waitFor, selfTest, close, closeTimesOut, OtherOpens,
       OtherCloses, vars, Issue, Finish
  <2>2. \A s \in Sessions : result'[s] = "sent" => result[s] = "sent"
    BY <1>5, <1>a DEF waitFor, selfTest, close, closeTimesOut, OtherOpens,
       OtherCloses, vars, Finish
  <2> QED
    BY <1>2, <2>1, <2>2
<1>6. CASE sendPDU
  <2>1. CASE step = "PDU" /\ SaysSent(heard)
    <3>1. /\ ses \in Sessions
          /\ by' = [by EXCEPT ![ses] = Acceptances(heard)]
          /\ result' = [result EXCEPT ![ses] = "sent"]
          /\ buf' = {} /\ heard' = {} /\ UNCHANGED <<dev, accepted>>
      BY <1>6, <2>1 DEF sendPDU
    <3>2. /\ Acceptances(heard) # {}
          /\ \A x \in Acceptances(heard) :
               \E a \in heard : Plus(a) /\ x = a.ses
      BY <2>1 DEF Acceptances, SaysSent, Has, Plus
    <3>3. \A x \in Acceptances(heard) :
            /\ x \in accepted
            /\ \A s \in Sessions : x \notin by[s]
            /\ \A i \in DOMAIN dev : Plus(dev[i]) => dev[i].ses # x
      BY <3>2
    <3>4. by'[ses] = Acceptances(heard) /\ \A s \in Sessions \ {ses} : by'[s] = by[s]
      BY <1>a, <3>1
    <3>5. \A i \in DOMAIN dev : Plus(dev[i]) =>
            \A s \in Sessions : dev[i].ses \notin by'[s]
      BY <3>3, <3>4
    <3>6. \A s \in Sessions :
            /\ by'[s] \subseteq accepted
            /\ result'[s] = "sent" => by'[s] # {}
            /\ \A t \in Sessions \ {s} : by'[s] \cap by'[t] = {}
      BY <1>a, <3>1, <3>2, <3>3, <3>4
    <3> QED
      BY <3>1, <3>5, <3>6
  <2>2. CASE ~(step = "PDU" /\ SaysSent(heard))
    <3>1. /\ UNCHANGED <<dev, by, accepted>>
          /\ buf' \subseteq buf /\ heard' \subseteq buf \cup heard
      BY <1>6, <2>2 DEF sendPDU, Issue, Finish
    <3>2. \A s \in Sessions : result'[s] = "sent" => result[s] = "sent"
      BY <1>6, <1>a, <2>2 DEF sendPDU, Finish
    <3> QED
      BY <1>2, <3>1, <3>2
  <2> QED
    BY <2>1, <2>2
<1>7. ASSUME NEW s \in Sessions, Reader(s) \/ readerFails(s)
      PROVE  SentInv'
  <2>1. CASE readerReads(s)
    BY <1>3, <2>1 DEF readerReads, ReaderGoes
  <2>2. CASE ~readerReads(s)
    <3>1. UNCHANGED <<dev, buf, heard, by, accepted, result>>
      BY <1>7, <2>2 DEF Reader, readerFails, readerChecks, readerTicks,
         readerSelects, ReaderGoes
    <3> QED
      BY <1>2, <3>1
  <2> QED
    BY <2>1, <2>2
<1>8. CASE srvReads
  BY <1>3, <1>8 DEF srvReads
<1>9. CASE srvPolls
  BY <1>1, <1>9 DEF srvPolls, Tokens, Origins
<1>10. CASE modemReports
  BY <1>1, <1>10 DEF modemReports, Tokens, Origins, RawTypeOK
<1>11. CASE Modem
  <2>1. line \in Seq(Lines) /\ line # <<>>
    BY <1>11 DEF RawTypeOK, Lines, Modem, modemObeys, modemSwallows,
       modemTakesPDU
  <2>2. Head(line) = line[1] /\ Head(line) \in Lines /\ 1 \in DOMAIN line
    BY <2>1, TailOf
  <2>3. Head(line).ses \in Origins
    BY <2>2 DEF Lines, Origins
  <2>4. ASSUME UNCHANGED <<buf, heard, by, result, accepted>>,
               NEW toks \in SUBSET (Tokens \ {"+CMGS"}), NEW waits,
               ModemSays(toks, waits)
        PROVE  SentInv'
    BY <1>1, <2>3, <2>4 DEF ModemSays
  <2>5. CASE modemObeys
    BY <2>4, <2>5 DEF modemObeys, Tokens
  <2>6. CASE modemSwallows
    BY <1>2, <2>4, <2>6 DEF modemSwallows, Tokens
  <2>7. CASE modemTakesPDU
    <3>1. CASE ModemSays({"ERROR"}, FALSE) /\ UNCHANGED accepted
      BY <2>4, <2>7, <3>1 DEF modemTakesPDU, Tokens
    <3>2. CASE ModemSays({"+CMGS"}, FALSE)
               /\ accepted' = accepted \cup {Head(line).ses}
      <4> DEFINE x == Head(line).ses
                 new == [tok |-> "+CMGS", ses |-> x]
      <4>1. x \notin accepted
        BY <2>2, <2>7 DEF LineInv, IsPDU, modemTakesPDU
      <4>2. new \in Answers /\ dev' = Append(dev, new)
        BY <2>3, <3>2 DEF Answers, Tokens, ModemSays
      <4>3. UNCHANGED <<buf, heard, by, result>>
        BY <2>7 DEF modemTakesPDU
      <4>4. \A i \in DOMAIN dev' :
              \/ i \in DOMAIN dev /\ dev'[i] = dev[i]
              \/ i = Len(dev) + 1 /\ dev'[i].ses = x
        BY <1>a, <4>2, AppendOf
      <4>5. accepted' = accepted \cup {x}
        BY <3>2
      <4> HIDE DEF x, new
      <4> QED
        BY <1>b, <4>1, <4>3, <4>4, <4>5
    <3> QED
      BY <2>7, <3>1, <3>2 DEF modemTakesPDU
  <2> QED
    BY <1>11, <2>5, <2>6, <2>7 DEF Modem
<1> QED
  BY <1>4, <1>5, <1>6, <1>7, <1>8, <1>9, <1>10, <1>11 DEF Next, Session

\* Each "sent" of sendPDU rests on SMS the modem accepted, and no two of them
\* on the same one, for all numbers of sessions and all faults.
THEOREM SentBacked == Spec => []EverySentBacked
<1> DEFINE Inv == RawTypeOK /\ SesInv /\ LineInv /\ SentInv
<1>1. Init => Inv
  <2>1. Init => LineInv /\ SentInv
    BY DEF Init, LineInv, SentInv, BeforePDU
  <2> QED
    BY <2>1, TypeInit
<1>2. Inv /\ [Next]_vars => Inv'
  BY TypeStep, LineStep, SentStep
<1>3. Inv => EverySentBacked
  BY DEF SentInv, EverySentBacked
<1> QED
  BY <1>1, <1>2, <1>3, PTL DEF Spec

-----------------------------------------------------------------------------
(* One reader, and the turns of a session.                                 *)

Quiet == faults \cap {"late", "shared"} = {}
Sound == faults \subseteq {"write"}
InSession == pc \in {"wait", "next"}

\* When nothing is late and atserver stays away, the only reader is that of
\* the current session: it is never stuck in Read, so no close gives up.
ReaderInv ==
  /\ Quiet =>
       /\ \A s \in Sessions : Alive(s) => s = ses /\ pc # "free"
       /\ \A s \in Sessions : reader[s] = "read" => dev # <<>>
       /\ \A s \in open : s = ses /\ pc # "free"
  /\ Sound /\ InSession => Alive(ses)

\* Every step keeps that.
LEMMA ReaderStep ==
  ASSUME RawTypeOK, SesInv, FdInv, ReaderInv, [Next]_vars
  PROVE  ReaderInv'
<1> USE DEF SesInv, ReaderInv, Alive, Quiet, Sound, InSession, conf,
            sesVars, fdVars, smsVars
<1>a. /\ ses \in Nat /\ dev \in Seq(Answers)
      /\ reader \in [Sessions -> {"none", "check", "select", "read", "ended"}]
      /\ open \subseteq Sessions
  BY DEF RawTypeOK
<1>1. CASE openPort
  <2>1. ses + 1 \in Sessions
    BY <1>1 DEF openPort, RawTypeOK
  <2>2. /\ ses' = ses + 1 /\ pc' = "wait" /\ pc = "free"
        /\ reader' = [reader EXCEPT ![ses + 1] = "check"]
        /\ open' = open \cup {ses + 1} /\ UNCHANGED <<faults, dev>>
    BY <1>1 DEF openPort, Issue
  <2> QED
    BY <1>a, <2>1, <2>2
<1>2. CASE openFails
  BY <1>2 DEF openFails
<1>3. CASE waitFor \/ selfTest \/ sendPDU
  <2>1. UNCHANGED <<faults, ses, reader, open, dev>> /\ pc # "free" /\ pc' # "free"
    BY <1>3 DEF waitFor, selfTest, sendPDU, Issue, Finish
  <2>2. InSession' => InSession
    BY <1>3 DEF waitFor, selfTest, sendPDU
  <2> QED
    BY <2>1, <2>2
<1>4. CASE close \/ closeTimesOut
  <2>1. Quiet => close
    BY <1>4 DEF closeTimesOut
  <2> QED
    BY <1>4, <2>1 DEF close, closeTimesOut
<1>5. ASSUME NEW s \in Sessions, Reader(s) \/ readerFails(s)
      PROVE  ReaderInv'
  <2>1. UNCHANGED <<faults, ses, pc, open>> /\ Alive(s)
    BY <1>5 DEF Reader, readerFails, readerChecks, readerTicks,
       readerSelects, readerReads, ReaderGoes
  <2>2. CASE readerReads(s)
    <3>1. reader' = [reader EXCEPT ![s] = "check"] /\ UNCHANGED faults
      BY <2>2 DEF readerReads, ReaderGoes
    <3> QED
      BY <1>a, <2>1, <3>1
  <2>3. CASE readerFails(s)
    BY <1>a, <2>1, <2>3 DEF readerFails, ReaderGoes
  <2>4. CASE readerChecks(s)
    <3>1. Sound => s = ses
      BY <2>1
    <3>2. InSession => ~Stopped(ses)
      BY <1>a DEF Stopped
    <3> QED
      BY <1>a, <2>1, <2>4, <3>1, <3>2 DEF readerChecks, ReaderGoes
  <2>5. CASE readerTicks(s) \/ readerSelects(s)
    <3>1. UNCHANGED dev /\ \/ reader' = [reader EXCEPT ![s] = "check"]
                           \/ reader' = [reader EXCEPT ![s] = "read"] /\ dev # <<>>
      BY <2>5 DEF readerTicks, readerSelects, ReaderGoes
    <3> QED
      BY <1>a, <2>1, <3>1
  <2> QED
    BY <1>5, <2>2, <2>3, <2>4, <2>5 DEF Reader
<1>6. CASE Modem \/ modemReports \/ srvPolls \/ srvReads
  <2>1. UNCHANGED <<faults, ses, pc, reader, open>>
    BY <1>6 DEF Modem, modemObeys, modemSwallows, modemTakesPDU,
       modemReports, srvPolls, srvReads
  <2>2. Quiet /\ dev # <<>> => dev' # <<>>
    <3>1. ASSUME NEW e, dev' = Append(dev, e)
          PROVE  dev' # <<>>
      BY <1>a, <3>1
    <3> QED
      BY <1>6, <3>1 DEF Modem, modemObeys, modemSwallows, modemTakesPDU,
         modemReports, srvPolls, srvReads, ModemSays
  <2> QED
    BY <2>1, <2>2
<1>7. CASE OtherOpens \/ OtherCloses \/ UNCHANGED vars
  <2>1. UNCHANGED <<faults, ses, pc, reader, open, dev>>
    BY <1>7 DEF OtherOpens, OtherCloses, vars
  <2> QED
    BY <2>1
<1> QED
  BY <1>1, <1>2, <1>3, <1>4, <1>5, <1>6, <1>7 DEF Next, Session

\* A session on a descriptor that select does not watch hears nothing and
\* never gets as far as AT+CMGS.
UnheardInv ==
  InSession /\ ~Watched(ses) =>
    /\ reader[ses] # "read" /\ buf = {} /\ heard = {}
    /\ step \in {"AT", "CSQ", "CMEE", "CMGF"}

\* AT+CMGS and the PDU are written only by the session that is at them and
\* come last; so does the prompt, and whoever has read it has read everything.
PromptInv ==
  /\ \A i \in DOMAIN line : line[i].cmd \in {"CMGS", "PDU"} =>
       /\ line[i].ses = ses /\ step = line[i].cmd /\ pc = "wait"
       /\ i = Len(line)
  /\ \A i \in DOMAIN dev : dev[i].tok = ">" =>
       /\ dev[i].ses = ses /\ step = "CMGS" /\ pc = "wait"
       /\ i = Len(dev) /\ line = <<>>
  /\ \A a \in buf \cup heard : a.tok = ">" =>
       step = "CMGS" /\ InSession /\ dev = <<>> /\ line = <<>>

\* From the prompt on, question and answer alternate: the PDU is unread, or
\* its answer is in the device, or it has been read or was lost.
PDUInv ==
  /\ \A i \in DOMAIN dev : Plus(dev[i]) =>
       dev[i].ses = ses /\ step = "PDU" /\ pc = "wait"
  /\ \A a \in buf \cup heard : Plus(a) =>
       a.ses = ses /\ step = "PDU" /\ InSession
  /\ step = "PDU" /\ pc = "wait" =>
       /\ heard = {}
       /\ \/ /\ Len(line) = 1 /\ line[1] = [cmd |-> "PDU", ses |-> ses]
             /\ dev = <<>> /\ buf = {}
          \/ line = <<>> /\ dev = <<>>
          \/ line = <<>> /\ Len(dev) = 1 /\ dev[1].ses = ses /\ buf = {}
       /\ ses \in accepted =>
            (\E a \in buf : Plus(a)) \/ \E i \in DOMAIN dev : Plus(dev[i])
  /\ step = "PDU" /\ pc = "next" =>
       /\ line = <<>> /\ dev = <<>>
       /\ ses \in accepted => \E a \in heard : Plus(a)

SoundInv == Sound => UnheardInv /\ PromptInv /\ PDUInv

\* What the modem does with a line.
LEMMA ModemStep ==
  ASSUME RawTypeOK, Modem
  PROVE  /\ line # <<>> /\ line' = Tail(line)
         /\ UNCHANGED <<conf, sesVars, fdVars, reader>>
         /\ \/ UNCHANGED <<dev, accepted>> /\ line[1].cmd # "PDU" /\ text
            \/ \E t \in Tokens \ {"+CDS"} :
                 /\ dev' = Append(dev, [tok |-> t, ses |-> line[1].ses])
                 /\ t = ">" => line[1].cmd = "CMGS" /\ ~text
                 /\ IF t = "+CMGS"
                    THEN /\ line[1].cmd = "PDU" /\ text
                         /\ accepted' = accepted \cup {line[1].ses}
                    ELSE UNCHANGED accepted
                 /\ text' => t = ">"
<1>1. line \in Seq(Lines) /\ line # <<>> /\ line' = Tail(line)
      /\ UNCHANGED <<conf, sesVars, fdVars, reader>>
  BY DEF RawTypeOK, Lines, Modem, modemObeys, modemSwallows, modemTakesPDU,
     ModemSays
<1>2. Head(line) = line[1]
  BY <1>1, TailOf
<1>3. CASE modemObeys
  BY <1>1, <1>2, <1>3 DEF modemObeys, ModemSays, Tokens
<1>4. CASE modemSwallows
  BY <1>1, <1>2, <1>4 DEF modemSwallows, ModemSays, Tokens
<1>5. CASE modemTakesPDU
  BY <1>1, <1>2, <1>5 DEF modemTakesPDU, ModemSays, Tokens
<1> QED
  BY <1>3, <1>4, <1>5 DEF Modem

\* An unwatched session stays deaf.
LEMMA UnheardStep ==
  ASSUME RawTypeOK, SesInv, ReaderInv, Sound, UnheardInv, [Next]_vars
  PROVE  UnheardInv'
<1> USE DEF SesInv, UnheardInv, InSession, Watched, conf, sesVars, fdVars,
            smsVars
<1>a. /\ ses \in Nat
      /\ reader \in [Sessions -> {"none", "check", "select", "read", "ended"}]
  BY DEF RawTypeOK
<1>1. CASE openPort
  <2>1. ses + 1 \in Sessions
    BY <1>1 DEF openPort, RawTypeOK
  <2>2. /\ ses' = ses + 1 /\ reader' = [reader EXCEPT ![ses + 1] = "check"]
        /\ buf' = {} /\ heard' = {} /\ step' \in {"AT", "CMEE"}
    BY <1>1 DEF openPort, Issue
  <2> QED
    BY <1>a, <2>1, <2>2
<1>2. CASE openFails \/ close \/ closeTimesOut
  BY <1>2 DEF openFails, close, closeTimesOut
<1>3. CASE waitFor
  BY <1>3 DEF waitFor
<1>4. CASE selfTest
  BY <1>4 DEF selfTest, Issue, Finish
<1>5. CASE sendPDU
  BY <1>5 DEF sendPDU, Issue, Finish, Has
<1>6. ASSUME NEW s \in Sessions, Reader(s) \/ readerFails(s)
      PROVE  UnheardInv'
  <2>1. UNCHANGED <<ses, pc, step, heard, fd>> /\ Alive(s)
    BY <1>6 DEF Reader, readerFails, readerChecks, readerTicks,
       readerSelects, readerReads, ReaderGoes, Alive
  <2>2. s = ses
    BY <2>1 DEF ReaderInv, Quiet, Sound
  <2>3. CASE readerSelects(s) \/ readerReads(s)
    BY <2>1, <2>2, <2>3 DEF readerSelects, readerReads
  <2>4. CASE readerChecks(s) \/ readerTicks(s) \/ readerFails(s)
    <3>1. UNCHANGED buf /\ reader'[s] # "read"
      BY <1>a, <2>4 DEF readerChecks, readerTicks, readerFails, ReaderGoes
    <3> QED
      BY <2>1, <2>2, <3>1
  <2> QED
    BY <1>6, <2>3, <2>4 DEF Reader
<1>7. CASE Modem \/ modemReports \/ srvPolls \/ srvReads \/ OtherOpens
           \/ OtherCloses \/ UNCHANGED vars
  <2>1. UNCHANGED <<sesVars, fd, reader>>
    BY <1>7 DEF Modem, modemObeys, modemSwallows, modemTakesPDU,
       modemReports, srvPolls, srvReads, OtherOpens, OtherCloses, vars
  <2> QED
    BY <2>1
<1> QED
  BY <1>1, <1>2, <1>3, <1>4, <1>5, <1>6, <1>7 DEF Next, Session

\* A sound wait ends with the awaited token, or with every line read and no
\* answer to this session left that it could still hear.
LEMMA SoundWait ==
  ASSUME RawTypeOK, SesInv, ReaderInv, Sound, UnheardInv, waitFor
  PROVE  \/ \E a \in buf : a.tok \in AwaitedBy(step)
         \/ /\ line = <<>>
            /\ step \in {"CMGS", "PDU"} => \A i \in DOMAIN dev : dev[i].ses # ses
<1>1. pc = "wait" /\ Alive(ses)
  BY DEF waitFor, ReaderInv, InSession
<1>2. step \in {"CMGS", "PDU"} => Watched(ses)
  BY <1>1 DEF UnheardInv, InSession
<1>3. (\E a \in buf : a.tok \in AwaitedBy(step)) \/ ~Coming
  BY DEF waitFor, Sound, Has
<1> QED
  BY <1>1, <1>2, <1>3 DEF Coming, Alive

\* Every step keeps the prompt last.
LEMMA PromptStep ==
  ASSUME RawTypeOK, SesInv, ReaderInv, Sound, UnheardInv, PromptInv, PDUInv,
         [Next]_vars
  PROVE  PromptInv'
<1> USE DEF SesInv, PromptInv, InSession, conf, sesVars, fdVars, smsVars
<1>a. /\ ses \in Nat /\ line \in Seq(Lines) /\ dev \in Seq(Answers)
  BY DEF RawTypeOK, Lines
\* A line is written, and nothing of a prompt was there before.
<1>1. ASSUME NEW s \in Sessions, NEW c \in Commands, Issue(s, c), ses' = s,
             pc # "wait", UNCHANGED dev
      PROVE  PromptInv'
  <2>1. CASE line' = line
    BY <1>1, <2>1 DEF Issue
  <2>2. CASE line' = Append(line, [cmd |-> c, ses |-> s])
    <3>1. [cmd |-> c, ses |-> s] \in Lines
      BY DEF Lines
    <3>2. Len(line') = Len(line) + 1 /\ \A i \in DOMAIN line' :
            \/ i \in DOMAIN line /\ line'[i] = line[i]
            \/ i = Len(line) + 1 /\ line'[i] = [cmd |-> c, ses |-> s]
      BY <1>a, <2>2, <3>1, AppendOf
    <3> QED
      BY <1>1, <3>2 DEF Issue
  <2> QED
    BY <1>1, <2>1, <2>2 DEF Issue, Write
\* Nothing of a prompt is there, and nothing comes.
<1>2. ASSUME UNCHANGED <<line, dev>>, pc # "wait",
             buf' \cup heard' = {} \/ (~InSession /\ UNCHANGED <<buf, heard>>)
      PROVE  PromptInv'
  BY <1>2
<1>3. CASE openPort
  <2>1. ses + 1 \in Sessions /\ ses' = ses + 1 /\ pc = "free"
    BY <1>3 DEF openPort, RawTypeOK
  <2> QED
    BY <1>1, <1>3, <2>1 DEF openPort, Commands
<1>4. CASE openFails \/ close \/ closeTimesOut
  BY <1>2, <1>4 DEF openFails, close, closeTimesOut
<1>5. CASE waitFor
  <2>1. /\ pc = "wait" /\ pc' = "next" /\ heard' = buf
        /\ UNCHANGED <<ses, step, buf, line, dev>>
    BY <1>5 DEF waitFor
  <2>2. step = "CMGS" => line = <<>> /\ \A i \in DOMAIN dev : dev[i].tok # ">"
    BY <1>5, SoundWait DEF AwaitedBy
  <2>3. step = "PDU" => line = <<>>
    BY <1>5, <2>1, SoundWait DEF PDUInv
  <2> QED
    BY <2>1, <2>2, <2>3
<1>6. CASE selfTest
  <2>1. ses \in Sessions /\ pc = "next" /\ UNCHANGED <<ses, dev>>
    BY <1>6 DEF selfTest
  <2> QED
    BY <1>1, <1>2, <1>6, <2>1 DEF selfTest, Finish, Commands
<1>7. CASE sendPDU
  <2>1. ses \in Sessions /\ pc = "next" /\ UNCHANGED <<ses, dev>>
    BY <1>7 DEF sendPDU
  <2>2. \/ \E c \in {"CMGF", "CNMI", "CMGS", "PDU"} : Issue(ses, c)
        \/ UNCHANGED line /\ buf' = {} /\ heard' = {}
    BY <1>7, Zenon DEF sendPDU, Finish
  <2> QED
    BY <1>1, <1>2, <2>1, <2>2 DEF Commands
<1>8. ASSUME NEW s \in Sessions, Reader(s) \/ readerFails(s)
      PROVE  PromptInv'
  <2>1. UNCHANGED <<ses, pc, step, heard, line>>
    BY <1>8 DEF Reader, readerFails, readerChecks, readerTicks,
       readerSelects, readerReads, ReaderGoes
  <2>2. CASE ~readerReads(s)
    <3>1. UNCHANGED <<buf, dev>>
      BY <1>8, <2>2 DEF Reader, readerFails, readerChecks, readerTicks,
         readerSelects
    <3> QED
      BY <2>1, <3>1
  <2>3. CASE readerReads(s)
    <3>1. dev # <<>> /\ dev' = Tail(dev) /\ buf' \subseteq buf \cup {dev[1]}
      BY <1>a, <2>3, TailOf DEF readerReads
    <3>2. /\ 1 \in DOMAIN dev /\ Len(dev') = Len(dev) - 1
          /\ \A i \in DOMAIN dev' :
               i + 1 \in DOMAIN dev /\ i \in Nat /\ dev'[i] = dev[i + 1]
      BY <1>a, <3>1
    <3>3. dev[1].tok = ">" => dev' = <<>>
      <4>1. SUFFICES ASSUME Len(dev) = 1
                     PROVE  dev' = <<>>
        BY <3>2
      <4> QED
        BY <1>a, <3>1, <4>1
    <3>4. Len(dev) \in Nat
      BY <1>a
    <3> QED
      BY <2>1, <3>1, <3>2, <3>3, <3>4
  <2> QED
    BY <2>2, <2>3
<1>9. CASE Modem
  <2>1. /\ line # <<>> /\ line' = Tail(line)
        /\ UNCHANGED <<ses, pc, step, buf, heard>>
    BY <1>9, ModemStep
  <2>2. /\ 1 \in DOMAIN line /\ Len(line') = Len(line) - 1 /\ Len(line) \in Nat
        /\ \A i \in DOMAIN line' :
             i + 1 \in DOMAIN line /\ i \in Nat /\ line'[i] = line[i + 1]
    BY <1>a, <2>1
  <2>3. \A i \in DOMAIN line' : line'[i].cmd \in {"CMGS", "PDU"} =>
          /\ line'[i].ses = ses /\ step = line'[i].cmd /\ pc = "wait"
          /\ i = Len(line')
    BY <2>2
  <2> DEFINE LastPrompt(i) ==
        dev'[i].tok = ">" => /\ dev'[i].ses = ses /\ step = "CMGS" /\ pc = "wait"
                             /\ i = Len(dev') /\ line' = <<>>
  <2>4. \A i \in DOMAIN dev' : LastPrompt(i)
    <3>1. CASE UNCHANGED dev
      BY <2>1, <3>1
    <3>2. ASSUME NEW t \in Tokens, t = ">" => line[1].cmd = "CMGS",
                 dev' = Append(dev, [tok |-> t, ses |-> line[1].ses])
          PROVE  \A i \in DOMAIN dev' : LastPrompt(i)
      <4>1. [tok |-> t, ses |-> line[1].ses] \in Answers
        <5>1. line[1] \in Lines
          BY <1>a, <2>2
        <5> QED
          BY <5>1 DEF Answers, Lines, Origins
      <4>2. Len(dev') = Len(dev) + 1 /\ \A i \in DOMAIN dev' :
              \/ i \in DOMAIN dev /\ dev'[i] = dev[i]
              \/ i = Len(dev) + 1 /\ dev'[i] = [tok |-> t, ses |-> line[1].ses]
        BY <1>a, <3>2, <4>1, AppendOf
      <4>3. \A i \in DOMAIN dev : dev[i].tok # ">"
        BY <2>1
      <4>4. line[1].cmd = "CMGS" => line' = <<>>
        <5>1. SUFFICES ASSUME Len(line) = 1
                       PROVE  line' = <<>>
          BY <2>2
        <5> QED
          BY <1>a, <2>1, <5>1
      <4> QED
        BY <2>2, <3>2, <4>2, <4>3, <4>4
    <3> QED
      BY <1>9, <3>1, <3>2, ModemStep
  <2> QED
    BY <2>1, <2>3, <2>4
<1>10. CASE modemReports
  <2>1. /\ step = "CDS" /\ UNCHANGED <<ses, pc, step, buf, heard, line>>
        /\ dev' = Append(dev, [tok |-> "+CDS", ses |-> ses])
    BY <1>10 DEF modemReports
  <2>2. [tok |-> "+CDS", ses |-> ses] \in Answers
    BY DEF Answers, Tokens, Origins, RawTypeOK
  <2>3. \A i \in DOMAIN dev' :
          (i \in DOMAIN dev /\ dev'[i] = dev[i]) \/ dev'[i].tok = "+CDS"
    BY <1>a, <2>1, <2>2, AppendOf
  <2> QED
    BY <2>1, <2>3
<1>11. CASE srvPolls \/ srvReads
  BY <1>11 DEF srvPolls, srvReads, Sound
<1>12. CASE OtherOpens \/ OtherCloses \/ UNCHANGED vars
  <2>1. UNCHANGED <<sesVars, line, dev>>
    BY <1>12 DEF OtherOpens, OtherCloses, vars
  <2> QED
    BY <2>1
<1> QED
  BY <1>3, <1>4, <1>5, <1>6, <1>7, <1>8, <1>9, <1>10, <1>11, <1>12
     DEF Next, Session

\* Every step keeps the alternation from the prompt on.
LEMMA PDUStep ==
  ASSUME RawTypeOK, SesInv, LineInv, ReaderInv, Sound, UnheardInv, PromptInv,
         PDUInv, [Next]_vars
  PROVE  PDUInv'
<1> USE DEF SesInv, PDUInv, InSession, Plus, conf, sesVars, fdVars, smsVars
<1>a. /\ ses \in Nat /\ line \in Seq(Lines) /\ dev \in Seq(Answers)
  BY DEF RawTypeOK, Lines
\* Outside a wait there is no acceptance in the device, and none comes.
<1>1. ASSUME UNCHANGED dev, pc # "wait", step' # "PDU" \/ pc' \notin {"wait", "next"},
             (buf' = {} /\ heard' = {}) \/ (~InSession /\ UNCHANGED <<buf, heard>>)
      PROVE  PDUInv'
  BY <1>1
<1>2. CASE openPort
  BY <1>1, <1>2 DEF openPort, Issue
<1>3. CASE openFails \/ close \/ closeTimesOut
  BY <1>1, <1>3 DEF openFails, close, closeTimesOut
<1>4. CASE waitFor
  <2>1. /\ pc = "wait" /\ pc' = "next" /\ heard' = buf
        /\ UNCHANGED <<ses, step, buf, line, dev, accepted>>
    BY <1>4 DEF waitFor
  <2>2. step = "PDU" => line = <<>> /\ dev = <<>>
    <3>1. 1 \in DOMAIN dev \/ Len(dev) # 1
      BY <1>a
    <3> QED
      BY <1>4, <2>1, <3>1, SoundWait
  <2>3. \A i \in DOMAIN dev : ~Plus(dev[i])
    BY <2>1, <2>2
  <2>4. step = "PDU" /\ ses \in accepted => \E a \in heard' : Plus(a)
    BY <2>1, <2>3
  <2> QED
    BY <2>1, <2>2, <2>3, <2>4
<1>5. CASE selfTest
  BY <1>1, <1>5 DEF selfTest, Issue, Finish
<1>6. CASE sendPDU
  <2>1. CASE step = "CMGS" /\ Has(heard, ">") /\ Issue(ses, "PDU")
    <3>1. dev = <<>> /\ line = <<>>
      BY <2>1 DEF PromptInv, Has
    <3>2. ses \notin accepted
      BY <1>6, <2>1 DEF LineInv, BeforePDU, sendPDU
    <3>3. /\ pc' = "wait" /\ step' = "PDU" /\ buf' = {} /\ heard' = {}
          /\ UNCHANGED <<ses, dev, accepted>>
      BY <1>6, <2>1 DEF sendPDU, Issue
    <3>4. \/ line' = <<>>
          \/ Len(line') = 1 /\ line'[1] = [cmd |-> "PDU", ses |-> ses]
      <4>1. CASE line' = line
        BY <3>1, <4>1
      <4>2. CASE line' = Append(<<>>, [cmd |-> "PDU", ses |-> ses])
        BY <4>2
      <4> QED
        BY <2>1, <3>1, <4>1, <4>2 DEF Issue, Write
    <3> QED
      BY <3>1, <3>2, <3>3, <3>4
  <2>2. CASE ~(step = "CMGS" /\ Has(heard, ">"))
    <3>1. UNCHANGED dev /\ pc = "next" /\ buf' = {} /\ heard' = {}
      BY <1>6, <2>2, Zenon DEF sendPDU, Issue, Finish
    <3>2. step' # "PDU" \/ pc' = "close"
      BY <1>6, <2>2 DEF sendPDU, Issue, Finish
    <3> QED
      BY <1>1, <3>1, <3>2
  <2> QED
    BY <1>6, <2>1, <2>2 DEF sendPDU
<1>7. ASSUME NEW s \in Sessions, Reader(s) \/ readerFails(s)
      PROVE  PDUInv'
  <2>1. UNCHANGED <<ses, pc, step, heard, line, accepted>>
    BY <1>7 DEF Reader, readerFails, readerChecks, readerTicks,
       readerSelects, readerReads, ReaderGoes
  <2>2. CASE ~readerReads(s)
    <3>1. UNCHANGED <<buf, dev>>
      BY <1>7, <2>2 DEF Reader, readerFails, readerChecks, readerTicks,
         readerSelects
    <3> QED
      BY <2>1, <3>1
  <2>3. CASE readerReads(s)
    <3>1. dev # <<>> /\ dev' = Tail(dev) /\ buf' \subseteq buf \cup {dev[1]}
      BY <1>a, <2>3, TailOf DEF readerReads
    <3>2. /\ 1 \in DOMAIN dev
          /\ \A i \in DOMAIN dev' : i + 1 \in DOMAIN dev /\ dev'[i] = dev[i + 1]
      BY <1>a, <3>1
    <3>3. s = ses
      BY <2>3 DEF ReaderInv, Quiet, Sound, Alive, readerReads
    <3>4. CASE step = "PDU" /\ pc = "wait"
      <4>1. line = <<>> /\ Len(dev) = 1 /\ buf = {}
        BY <3>1, <3>4
      <4>2. dev' = <<>>
        BY <1>a, <3>1, <4>1
      <4>3. \A i \in DOMAIN dev : i = 1
        BY <1>a, <4>1
      <4>4. buf' = {dev[1]}
        <5>1. ~Stopped(ses)
          BY <1>a, <3>4 DEF Stopped
        <5>2. Head(dev) = dev[1]
          BY <1>a, <3>1, TailOf
        <5> QED
          BY <2>3, <3>3, <4>1, <5>1, <5>2 DEF readerReads
      <4> QED
        BY <2>1, <3>2, <3>4, <4>1, <4>2, <4>3, <4>4
    <3>5. CASE ~(step = "PDU" /\ pc = "wait")
      BY <2>1, <3>1, <3>2, <3>5
    <3> QED
      BY <3>4, <3>5
  <2> QED
    BY <2>2, <2>3
<1>8. CASE Modem
  <2>1. /\ line # <<>> /\ line' = Tail(line) /\ 1 \in DOMAIN line
        /\ UNCHANGED <<ses, pc, step, buf, heard>>
    BY <1>8, <1>a, ModemStep
  <2>2. CASE UNCHANGED <<dev, accepted>> /\ line[1].cmd # "PDU"
    BY <2>1, <2>2
  <2>3. ASSUME NEW t \in Tokens,
               dev' = Append(dev, [tok |-> t, ses |-> line[1].ses]),
               IF t = "+CMGS"
               THEN /\ line[1].cmd = "PDU"
                    /\ accepted' = accepted \cup {line[1].ses}
               ELSE UNCHANGED accepted
        PROVE  PDUInv'
    <3>1. [tok |-> t, ses |-> line[1].ses] \in Answers
      <4>1. line[1] \in Lines
        BY <1>a, <2>1
      <4> QED
        BY <4>1 DEF Answers, Lines, Origins
    <3>2. Len(dev') = Len(dev) + 1 /\ \A i \in DOMAIN dev' :
            \/ i \in DOMAIN dev /\ dev'[i] = dev[i]
            \/ i = Len(dev) + 1 /\ dev'[i] = [tok |-> t, ses |-> line[1].ses]
      BY <1>a, <2>3, <3>1, AppendOf
    <3>3. t = "+CMGS" => line[1].ses = ses /\ step = "PDU" /\ pc = "wait"
      BY <2>1, <2>3 DEF PromptInv
    <3>4. \A i \in DOMAIN dev' : Plus(dev'[i]) =>
            dev'[i].ses = ses /\ step = "PDU" /\ pc = "wait"
      BY <3>2, <3>3
    <3>5. CASE step = "PDU" /\ pc = "wait"
      <4>1. /\ Len(line) = 1 /\ line[1] = [cmd |-> "PDU", ses |-> ses]
            /\ dev = <<>> /\ buf = {}
        BY <2>1, <3>5
      <4>2. line' = <<>>
        BY <1>a, <2>1, <4>1
      <4>3. Len(dev') = 1 /\ dev'[1] = [tok |-> t, ses |-> ses] /\ 1 \in DOMAIN dev'
        BY <2>3, <4>1
      <4>4. ses \notin accepted
        BY <2>1, <4>1 DEF LineInv, IsPDU
      <4>5. ses \in accepted' => Plus(dev'[1])
        BY <2>3, <4>3, <4>4
      <4> QED
        BY <2>1, <3>4, <3>5, <4>1, <4>2, <4>3, <4>5
    <3>6. CASE ~(step = "PDU" /\ pc = "wait")
      BY <2>1, <3>4, <3>6
    <3> QED
      BY <3>5, <3>6
  <2> QED
    BY <1>8, <2>2, <2>3, ModemStep
<1>9. CASE modemReports
  <2>1. /\ step = "CDS" /\ UNCHANGED <<ses, pc, step, buf, heard, line>>
        /\ dev' = Append(dev, [tok |-> "+CDS", ses |-> ses])
    BY <1>9 DEF modemReports
  <2>2. [tok |-> "+CDS", ses |-> ses] \in Answers
    BY DEF Answers, Tokens, Origins, RawTypeOK
  <2>3. \A i \in DOMAIN dev' :
          (i \in DOMAIN dev /\ dev'[i] = dev[i]) \/ dev'[i].tok = "+CDS"
    BY <1>a, <2>1, <2>2, AppendOf
  <2> QED
    BY <2>1, <2>3
<1>10. CASE srvPolls \/ srvReads
  BY <1>10 DEF srvPolls, srvReads, Sound
<1>11. CASE OtherOpens \/ OtherCloses \/ UNCHANGED vars
  <2>1. UNCHANGED <<sesVars, line, dev, accepted>>
    BY <1>11 DEF OtherOpens, OtherCloses, vars
  <2> QED
    BY <2>1
<1> QED
  BY <1>2, <1>3, <1>4, <1>5, <1>6, <1>7, <1>8, <1>9, <1>10, <1>11
     DEF Next, Session

\* A verdict is given once, when the modem has decided.
VerdictInv ==
  /\ \A s \in Sessions : s > ses => result[s] = "none"
  /\ InSession /\ step \notin {"CSQ", "CDS"} => result[ses] = "none"
  /\ Sound => \A s \in Sessions :
       result[s] # "none" => (result[s] = "sent" <=> s \in accepted)

\* Every step keeps the verdicts.
LEMMA VerdictStep ==
  ASSUME RawTypeOK, SesInv, LineInv, SentInv, SoundInv, VerdictInv, [Next]_vars
  PROVE  VerdictInv'
<1> USE DEF SesInv, VerdictInv, InSession, Sound, conf, sesVars, fdVars, smsVars
<1>a. /\ ses \in Nat
      /\ result \in [Sessions -> {"none", "ok", "sent", "failed"}]
  BY DEF RawTypeOK
\* A verdict that agrees with the modem is given to the current session.
<1>1. ASSUME ses \in Sessions, NEW r, result' = [result EXCEPT ![ses] = r],
             Sound => (r = "sent" <=> ses \in accepted),
             UNCHANGED <<faults, ses, accepted>>,
             pc' = "close" \/ step' \in {"CSQ", "CDS"}
      PROVE  VerdictInv'
  BY <1>1, <1>a
\* No verdict is given.
<1>2. ASSUME UNCHANGED <<faults, ses, result, accepted>>,
             InSession' /\ step' \notin {"CSQ", "CDS"}
               => InSession /\ step \notin {"CSQ", "CDS"}
      PROVE  VerdictInv'
  BY <1>2
<1>3. CASE openPort
  <2>1. ses + 1 \in Sessions
    BY <1>3 DEF openPort, RawTypeOK
  <2>2. ses' = ses + 1 /\ UNCHANGED <<faults, result, accepted>>
    BY <1>3 DEF openPort
  <2> QED
    BY <1>a, <2>1, <2>2
<1>4. CASE openFails
  <2>1. ses + 1 \in Sessions
    BY <1>4 DEF openFails, RawTypeOK
  <2>2. /\ ses' = ses + 1 /\ pc' = "free" /\ UNCHANGED <<faults, accepted>>
        /\ result' = [result EXCEPT ![ses + 1] = "failed"]
    BY <1>4 DEF openFails
  <2>3. ses + 1 \notin accepted
    BY <1>a DEF LineInv
  <2> QED
    BY <1>a, <2>1, <2>2, <2>3
<1>5. CASE selfTest
  <2>1. CASE step = "AT"
    <3>1. ses \notin accepted
      BY <1>5, <2>1 DEF selfTest, LineInv, BeforePDU
    <3>2. PICK r \in {"ok", "failed"} : result' = [result EXCEPT ![ses] = r]
      BY <1>5, <2>1 DEF selfTest
    <3> QED
      BY <1>1, <1>5, <2>1, <3>1, <3>2 DEF selfTest, Issue
  <2>2. CASE step = "CSQ"
    BY <1>2, <1>5, <1>a, <2>2 DEF selfTest, Finish
  <2> QED
    BY <1>5, <2>1, <2>2 DEF selfTest
<1>6. CASE sendPDU
  <2>1. /\ ses \in Sessions /\ pc = "next" /\ UNCHANGED <<faults, ses, accepted>>
    BY <1>6 DEF sendPDU
  <2>2. CASE step = "PDU" /\ SaysSent(heard)
    <3>1. Sound => ses \in accepted
      BY <2>2 DEF SentInv, SoundInv, PDUInv, SaysSent, Has, Plus
    <3>2. result' = [result EXCEPT ![ses] = "sent"] /\ step' = "CDS"
      BY <1>6, <2>2 DEF sendPDU
    <3> QED
      BY <1>1, <2>1, <3>1, <3>2
  <2>3. CASE /\ \/ step = "CMGF" /\ ~Has(heard, "OK")
                \/ step = "CMGS" /\ ~Has(heard, ">")
                \/ step = "PDU" /\ ~SaysSent(heard)
             /\ Finish("failed")
    <3>1. Sound => ses \notin accepted
      BY <2>1, <2>3 DEF LineInv, BeforePDU, SoundInv, PDUInv, SaysSent, Has, Plus
    <3> QED
      BY <1>1, <2>1, <2>3, <3>1 DEF Finish
  <2>4. CASE step = "CDS" /\ Finish(result[ses])
    BY <1>2, <1>a, <2>1, <2>4 DEF Finish
  <2>5. CASE UNCHANGED result /\ step \in {"CMEE", "CMGF", "CNMI", "CMGS"}
    BY <1>2, <2>1, <2>5
  <2> QED
    BY <1>6, <2>2, <2>3, <2>4, <2>5 DEF sendPDU
<1>7. CASE Modem
  <2>1. line # <<>> /\ UNCHANGED <<faults, ses, pc, step, result>>
    BY <1>7, ModemStep
  <2>2. 1 \in DOMAIN line
    BY <2>1 DEF RawTypeOK
  <2>3. CASE UNCHANGED accepted
    BY <1>2, <2>1, <2>3
  <2>4. CASE line[1].cmd = "PDU" /\ accepted' = accepted \cup {line[1].ses}
    <3>1. Sound => line[1].ses = ses /\ result[ses] = "none"
      BY <2>2, <2>4 DEF SoundInv, PromptInv
    <3> QED
      BY <2>1, <2>4, <3>1
  <2> QED
    BY <1>7, <2>3, <2>4, ModemStep
<1>8. CASE waitFor \/ close \/ closeTimesOut \/ modemReports \/ srvPolls
           \/ srvReads \/ OtherOpens \/ OtherCloses \/ UNCHANGED vars
           \/ \E s \in Sessions : Reader(s) \/ readerFails(s)
  BY <1>2, <1>8 DEF waitFor, close, closeTimesOut, modemReports, srvPolls,
     srvReads, OtherOpens, OtherCloses, vars, Reader, readerFails,
     readerChecks, readerTicks, readerSelects, readerReads, ReaderGoes
<1> QED
  BY <1>3, <1>4, <1>5, <1>6, <1>7, <1>8 DEF Next, Session

\* A step changes nothing about what may go wrong in a behaviour.
LEMMA FaultsFixed ==
  ASSUME [Next]_vars
  PROVE  UNCHANGED faults
BY DEF Next, Session, Modem, vars, conf, openPort, openFails, waitFor,
   selfTest, sendPDU, close, closeTimesOut, Reader, readerFails, readerChecks,
   readerTicks, readerSelects, readerReads, ReaderGoes, modemObeys,
   modemSwallows, modemTakesPDU, modemReports, srvPolls, srvReads, OtherOpens,
   OtherCloses

\* While only writes may fail, "sent" is said of every SMS that left over
\* /dev/rpm30 and of no other, for any number of sessions and descriptors,
\* watched by select or not.
THEOREM VerdictsExact == Spec => []VerdictsRight
<1> DEFINE Inv == /\ RawTypeOK /\ SesInv /\ FdInv /\ LineInv /\ SentInv
                  /\ ReaderInv /\ SoundInv /\ VerdictInv
<1>1. Init => Inv
  <2>1. Init => FdInv /\ LineInv /\ SentInv
    BY DEF Init, FdInv, Alive, LineInv, SentInv, BeforePDU
  <2>2. Init => ReaderInv /\ VerdictInv
    BY DEF Init, ReaderInv, VerdictInv, InSession, Alive
  <2>3. Init => SoundInv
    BY DEF Init, SoundInv, UnheardInv, PromptInv, PDUInv, InSession
  <2> QED
    BY <2>1, <2>2, <2>3, TypeInit
<1>2. Inv /\ [Next]_vars => Inv'
  <2> SUFFICES ASSUME Inv, [Next]_vars
               PROVE  Inv'
    OBVIOUS
  <2>1. RawTypeOK' /\ SesInv' /\ FdInv' /\ LineInv' /\ SentInv'
    BY TypeStep, FdStep, LineStep, SentStep
  <2>2. ReaderInv' /\ VerdictInv'
    BY ReaderStep, VerdictStep
  <2>3. Sound' => Sound
    BY FaultsFixed DEF Sound
  <2>4. SoundInv'
    BY <2>3, UnheardStep, PromptStep, PDUStep DEF SoundInv
  <2> QED
    BY <2>1, <2>2, <2>4
<1>3. Inv => VerdictsRight
  BY DEF VerdictInv, VerdictsRight, Sound
<1> QED
  BY <1>1, <1>2, <1>3, PTL DEF Spec

-----------------------------------------------------------------------------
(* What a session leaves behind when nothing fails.                        *)

Strict == faults = {} /\ \A s \in Sessions : Watched(s)
Report(a) == a.tok = "+CDS"
Answered == line = <<>> /\ \A i \in DOMAIN dev : Report(dev[i])

\* Question and answer alternate; status reports apart, there is one line or
\* one answer on its way at most.
TurnInv ==
  /\ pc # "wait" \/ step = "CDS" => Answered
  /\ pc = "wait" /\ step # "CDS" =>
       \/ /\ Len(line) = 1 /\ line[1] = [cmd |-> step, ses |-> ses]
          /\ \A i \in DOMAIN dev : Report(dev[i])
          /\ \A a \in buf : Report(a)
       \/ /\ line = <<>>
          /\ \A i \in DOMAIN dev : ~Report(dev[i]) =>
               /\ dev[i].ses = ses
               /\ \A j \in DOMAIN dev : ~Report(dev[j]) => i = j
               /\ \A a \in buf : Report(a)

\* The modem waits for text only between its prompt and the PDU.
TextInv ==
  text => \/ /\ step = "CMGS" /\ pc = "wait" /\ line = <<>>
             /\ \/ \E a \in buf : a.tok = ">"
                \/ \E i \in DOMAIN dev : dev[i].tok = ">"
          \/ step = "CMGS" /\ pc = "next" /\ \E a \in heard : a.tok = ">"
          \/ step = "PDU" /\ pc = "wait" /\ line # <<>>

StrictInv == Strict => TurnInv /\ TextInv

\* A write without faults to a modem that has read everything.
LEMMA StrictWrite ==
  ASSUME RawTypeOK, Strict, line = <<>>, NEW s, NEW c, Issue(s, c)
  PROVE  /\ Len(line') = 1 /\ line'[1] = [cmd |-> c, ses |-> s]
         /\ line' # <<>>
<1>1. line' = Append(<<>>, [cmd |-> c, ses |-> s])
  BY DEF Issue, Write, Strict
<1> QED
  BY <1>1

\* Every step keeps the turns.
LEMMA StrictStep ==
  ASSUME RawTypeOK, SesInv, ReaderInv, Strict, TurnInv, TextInv, [Next]_vars
  PROVE  TurnInv' /\ TextInv'
<1> USE DEF SesInv, TurnInv, TextInv, Answered, conf, sesVars, fdVars, smsVars
<1>a. /\ ses \in Nat /\ line \in Seq(Lines) /\ dev \in Seq(Answers)
  BY DEF RawTypeOK, Lines
\* The next question, after the last answer.
<1>1. ASSUME NEW s, NEW c \in Commands, Issue(s, c), ses' = s, pc # "wait",
             UNCHANGED <<dev, text>>, text => c = "PDU"
      PROVE  TurnInv' /\ TextInv'
  <2>1. Len(line') = 1 /\ line'[1] = [cmd |-> c, ses |-> s] /\ line' # <<>>
    BY <1>1, StrictWrite
  <2>2. /\ pc' = "wait" /\ step' = c /\ c # "CDS" /\ buf' = {}
        /\ \A i \in DOMAIN dev : Report(dev[i])
    BY <1>1 DEF Issue, Commands
  <2> QED
    BY <1>1, <2>1, <2>2
\* No question, and the modem is done with the last one.
<1>2. ASSUME pc # "wait", ~text, pc' # "wait" \/ step' = "CDS",
             UNCHANGED <<line, dev, text>>
      PROVE  TurnInv' /\ TextInv'
  BY <1>2
<1>3. CASE openPort
  BY <1>1, <1>3 DEF openPort, Commands
<1>4. CASE openFails \/ close \/ closeTimesOut
  BY <1>2, <1>4 DEF openFails, close, closeTimesOut
<1>5. CASE waitFor
  <2>1. /\ pc = "wait" /\ pc' = "next" /\ heard' = buf
        /\ UNCHANGED <<ses, step, buf, line, dev, text>>
    BY <1>5 DEF waitFor
  <2>2. Watched(ses) /\ Alive(ses)
    BY <2>1 DEF Strict, ReaderInv, Sound, InSession
  <2>3. CASE step # "CDS"
    <3>1. (\E a \in buf : ~Report(a)) \/ ~Coming
      BY <1>5, <2>3 DEF waitFor, Strict, Has, Report, AwaitedBy
    <3>2. ~Coming => line = <<>> /\ \A i \in DOMAIN dev : dev[i].ses # ses
      BY <2>2, <2>3 DEF Coming, Alive
    <3>3. Answered
      BY <2>1, <2>3, <3>1, <3>2
    <3>4. \A i \in DOMAIN dev : dev[i].tok # ">"
      BY <3>3 DEF Report
    <3> QED
      BY <2>1, <3>3, <3>4
  <2>4. CASE step = "CDS"
    BY <2>1, <2>4
  <2> QED
    BY <2>3, <2>4
<1>6. CASE selfTest
  <2>1. CASE step = "AT"
    BY <1>1, <1>6, <2>1 DEF selfTest, Commands
  <2>2. CASE step = "CSQ" /\ Finish(result[ses])
    BY <1>2, <1>6, <2>2 DEF selfTest, Finish
  <2> QED
    BY <1>6, <2>1, <2>2 DEF selfTest
<1>7. CASE sendPDU
  <2>1. pc = "next" /\ UNCHANGED <<ses, dev, text>>
    BY <1>7 DEF sendPDU
  <2>2. text => step = "CMGS" /\ Has(heard, ">")
    BY <2>1 DEF Has
  <2>3. CASE step = "CMGS" /\ Has(heard, ">") /\ Issue(ses, "PDU")
    BY <1>1, <2>1, <2>3 DEF Commands
  <2>4. CASE \E c \in {"CMGF", "CNMI", "CMGS"} :
               Issue(ses, c) /\ step # "CMGS"
    BY <1>1, <2>1, <2>2, <2>4 DEF Commands
  <2>5. CASE /\ ~(step = "CMGS" /\ Has(heard, ">"))
             /\ pc' # "wait" \/ step' = "CDS"
             /\ UNCHANGED line
    BY <1>2, <2>1, <2>2, <2>5
  <2> QED
    BY <1>7, <2>3, <2>4, <2>5, Zenon DEF sendPDU, Finish
<1>8. ASSUME NEW s \in Sessions, Reader(s) \/ readerFails(s)
      PROVE  TurnInv' /\ TextInv'
  <2>1. UNCHANGED <<ses, pc, step, heard, line, text>>
    BY <1>8 DEF Reader, readerFails, readerChecks, readerTicks,
       readerSelects, readerReads, ReaderGoes
  <2>2. CASE ~readerReads(s)
    <3>1. UNCHANGED <<buf, dev>>
      BY <1>8, <2>2 DEF Reader, readerFails, readerChecks, readerTicks,
         readerSelects
    <3> QED
      BY <2>1, <3>1
  <2>3. CASE readerReads(s)
    <3>1. dev # <<>> /\ dev' = Tail(dev) /\ Head(dev) = dev[1]
      BY <1>a, <2>3, TailOf DEF readerReads
    <3>2. /\ 1 \in DOMAIN dev
          /\ \A i \in DOMAIN dev' :
               /\ i + 1 \in DOMAIN dev /\ i + 1 # 1 /\ dev'[i] = dev[i + 1]
               /\ \A j \in DOMAIN dev' : i + 1 = j + 1 => i = j
          /\ \A i \in DOMAIN dev : i = 1 \/ \E j \in DOMAIN dev' : dev'[j] = dev[i]
      <4>1. Len(dev') = Len(dev) - 1 /\ Len(dev) \in Nat /\ 1 \in DOMAIN dev
            /\ DOMAIN dev' = 1 .. Len(dev') /\ DOMAIN dev = 1 .. Len(dev)
            /\ \A i \in DOMAIN dev' : dev'[i] = dev[i + 1]
        BY <1>a, <3>1
      <4>2. \A i \in DOMAIN dev : i = 1 \/ (i - 1 \in DOMAIN dev' /\ dev'[i - 1] = dev[i])
        BY <4>1
      <4> QED
        BY <4>1, <4>2
    <3>3. buf' \subseteq buf \cup {dev[1]} /\ (pc = "wait" => buf' = buf \cup {dev[1]})
      <4>1. s = ses
        BY <2>3 DEF ReaderInv, Quiet, Strict, Alive, readerReads
      <4>2. pc = "wait" => ~Stopped(s)
        BY <1>a, <4>1 DEF Stopped
      <4> QED
        BY <2>3, <3>1, <4>2 DEF readerReads
    <3>4. TurnInv'
      BY <2>1, <3>2, <3>3
    <3>5. TextInv'
      BY <2>1, <3>2, <3>3
    <3> QED
      BY <3>4, <3>5
  <2> QED
    BY <2>2, <2>3
<1>9. CASE Modem
  <2>1. /\ line # <<>> /\ line' = Tail(line)
        /\ UNCHANGED <<ses, pc, step, buf, heard>>
    BY <1>9, ModemStep
  <2>2. /\ pc = "wait" /\ step # "CDS"
        /\ Len(line) = 1 /\ line[1] = [cmd |-> step, ses |-> ses]
        /\ \A i \in DOMAIN dev : Report(dev[i])
        /\ \A a \in buf : Report(a)
    BY <2>1
  <2>3. line' = <<>>
    BY <1>a, <2>1, <2>2
  <2>4. text => line[1].cmd = "PDU"
    BY <2>1, <2>2
  <2>5. PICK t \in Tokens \ {"+CDS"} :
          /\ dev' = Append(dev, [tok |-> t, ses |-> ses])
          /\ text' => t = ">"
          /\ t = ">" => step = "CMGS"
    <3>1. line[1].ses = ses /\ line[1].cmd = step
      BY <2>2
    <3>2. PICK t \in Tokens \ {"+CDS"} :
            /\ dev' = Append(dev, [tok |-> t, ses |-> line[1].ses])
            /\ t = ">" => line[1].cmd = "CMGS"
            /\ text' => t = ">"
      BY <1>9, <2>4, ModemStep
    <3> QED
      BY <3>1, <3>2
  <2>6. [tok |-> t, ses |-> ses] \in Answers
    BY DEF Answers, Origins, RawTypeOK
  <2>7. /\ Len(dev) + 1 \in DOMAIN dev'
        /\ dev'[Len(dev) + 1] = [tok |-> t, ses |-> ses]
        /\ \A i \in DOMAIN dev' :
             (i \in DOMAIN dev /\ dev'[i] = dev[i]) \/ i = Len(dev) + 1
    BY <1>a, <2>5, <2>6
  <2>8. TurnInv'
    <3>1. \A i \in DOMAIN dev' : ~Report(dev'[i]) => i = Len(dev) + 1
      BY <2>2, <2>7
    <3> QED
      BY <2>1, <2>2, <2>3, <2>7, <3>1
  <2>9. TextInv'
    BY <2>1, <2>2, <2>3, <2>5, <2>7
  <2> QED
    BY <2>8, <2>9
<1>10. CASE modemReports
  <2>1. /\ step = "CDS" /\ UNCHANGED <<ses, pc, step, buf, heard, line, text>>
        /\ dev' = Append(dev, [tok |-> "+CDS", ses |-> ses])
    BY <1>10 DEF modemReports
  <2>2. [tok |-> "+CDS", ses |-> ses] \in Answers
    BY DEF Answers, Tokens, Origins, RawTypeOK
  <2>3. \A i \in DOMAIN dev' :
          (i \in DOMAIN dev /\ dev'[i] = dev[i]) \/ Report(dev'[i])
    BY <1>a, <2>1, <2>2, AppendOf DEF Report
  <2> QED
    BY <2>1, <2>3
<1>11. CASE srvPolls \/ srvReads
  BY <1>11 DEF srvPolls, srvReads, Strict
<1>12. CASE OtherOpens \/ OtherCloses \/ UNCHANGED vars
  <2>1. UNCHANGED <<sesVars, line, dev, text>>
    BY <1>12 DEF OtherOpens, OtherCloses, vars
  <2> QED
    BY <2>1
<1> QED
  BY <1>3, <1>4, <1>5, <1>6, <1>7, <1>8, <1>9, <1>10, <1>11, <1>12
     DEF Next, Session

\* Ports of the future have no descriptor yet.
FutureInv == \A s \in Sessions : s > ses => fd[s] = 0

\* What a step does to the descriptors of the ports.
LEMMA PortStep ==
  ASSUME [Next]_vars
  PROVE  \/ /\ ses < MaxSessions /\ ses' = ses + 1
            /\ \E f \in Fds : fd' = [fd EXCEPT ![ses + 1] = f]
         \/ UNCHANGED fd /\ ses' \in {ses, ses + 1}
BY Zenon DEF Next, Session, Modem, vars, conf, sesVars, fdVars, smsVars,
   openPort, openFails, waitFor, selfTest, sendPDU, close, closeTimesOut,
   Reader, readerFails, readerChecks, readerTicks, readerSelects, readerReads,
   ReaderGoes, modemObeys, modemSwallows, modemTakesPDU, modemReports,
   srvPolls, srvReads, OtherOpens, OtherCloses

\* A port that is watched now was watched before.
LEMMA StrictBefore ==
  ASSUME RawTypeOK, FutureInv, [Next]_vars
  PROVE  FutureInv' /\ (Strict' => Strict)
<1> USE DEF FutureInv, Strict, Watched
<1>1. UNCHANGED faults /\ ses \in Nat /\ fd \in [Sessions -> Fds]
  BY FaultsFixed DEF RawTypeOK
<1>2. ASSUME ses < MaxSessions, ses' = ses + 1, NEW f \in Fds,
             fd' = [fd EXCEPT ![ses + 1] = f]
      PROVE  FutureInv' /\ (Strict' => Strict)
  <2>1. ses + 1 \in Sessions /\ fd[ses + 1] = 0 /\ f \in Nat
    BY <1>1, <1>2 DEF Fds
  <2>2. fd'[ses + 1] = f /\ \A s \in Sessions : s # ses + 1 => fd'[s] = fd[s]
    BY <1>1, <1>2, <2>1
  <2> QED
    BY <1>1, <1>2, <2>1, <2>2
<1>3. CASE UNCHANGED fd /\ ses' \in {ses, ses + 1}
  BY <1>1, <1>3
<1> QED
  BY <1>2, <1>3, PortStep

\* If nothing fails and every port is watched, a session that has ended leaves
\* the modem ready for commands, every descriptor closed and no goroutine,
\* for any number of sessions.
THEOREM NothingLeft == Spec => []LeavesNothingBehind
<1> DEFINE Inv == /\ RawTypeOK /\ SesInv /\ FdInv /\ ReaderInv /\ FutureInv
                  /\ StrictInv
<1>1. Init => Inv
  <2>1. Init => FdInv /\ ReaderInv /\ FutureInv
    BY DEF Init, FdInv, ReaderInv, FutureInv, InSession, Alive
  <2>2. Init => StrictInv
    BY DEF Init, StrictInv, TurnInv, TextInv, Answered
  <2> QED
    BY <2>1, <2>2, TypeInit
<1>2. Inv /\ [Next]_vars => Inv'
  <2> SUFFICES ASSUME Inv, [Next]_vars
               PROVE  Inv'
    OBVIOUS
  <2>1. RawTypeOK' /\ SesInv' /\ FdInv' /\ ReaderInv'
    BY TypeStep, FdStep, ReaderStep
  <2>2. FutureInv' /\ (Strict' => Strict)
    BY StrictBefore
  <2>3. StrictInv'
    BY <2>2, StrictStep DEF StrictInv
  <2> QED
    BY <2>1, <2>2, <2>3
<1>3. Inv => LeavesNothingBehind
  <2> SUFFICES ASSUME Inv, Strict, pc = "free"
               PROVE  /\ ~text /\ line = <<>>
                      /\ open = {} /\ \A s \in Sessions : ~Alive(s)
    BY DEF LeavesNothingBehind, Strict
  <2>1. ~text /\ line = <<>>
    BY DEF StrictInv, TurnInv, TextInv, Answered
  <2>2. open = {} /\ \A s \in Sessions : ~Alive(s)
    BY DEF ReaderInv, Quiet, Strict
  <2> QED
    BY <2>1, <2>2
<1> QED
  BY <1>1, <1>2, <1>3, PTL DEF Spec
=============================================================================
