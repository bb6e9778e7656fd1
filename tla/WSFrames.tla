------------------------------ MODULE WSFrames ------------------------------
(***************************************************************************)
(* The frames of one WebSocket session.  The read loop of wsServe takes in *)
(* frames, reassembles messages and answers pings (readFrame, readMessage),*)
(* while the keepalive goroutine writes pings of its own; both write       *)
(* through writeFrame, which puts the header and the payload on the wire   *)
(* with two calls of Write under wmu.                                      *)
(*                                                                         *)
(* Payloads are abstracted to their length, and data frames to the order   *)
(* in which the server sent them.  Time is in WSKeepalive.                 *)
(***************************************************************************)
EXTENDS Integers, Sequences

CONSTANTS
  Hello,       \* is -ws-hello given?
  Lengths,     \* payload lengths the server may announce
  MaxPayload,  \* wsMaxPayload
  MaxFrames,   \* bound: data frames the server sends
  MaxPings     \* bound: pings of the keepalive goroutine

ASSUME WSFramesAssumption ==
  /\ Hello \in BOOLEAN
  /\ Lengths \subseteq Nat
  /\ MaxPayload \in Nat
  /\ MaxFrames \in Nat
  /\ MaxPings \in Nat

Writers == {"loop", "pinger"}
DataOps == {"text", "binary"}
ControlOps == {"ping", "pong", "close", "reserved"}
\* end is the number of payload bytes in all data frames up to this one.
DataFrames ==
  [op : DataOps \cup {"continuation"}, fin : BOOLEAN, len : Lengths, end : Nat]

VARIABLES
  loop,       \* where the read loop is
  pinger,     \* where the keepalive goroutine is
  step,       \* where each of them is inside writeFrame
  body,       \* does the frame it writes have a payload?
  wmu,        \* holder of the write mutex
  open,       \* writer whose frame is on the wire without its payload
  mixed,      \* has a frame begun inside another one?
  writeErr,   \* has a Write failed?
  msgOp,      \* readMessage: opcode of the message being assembled
  buf,        \* readMessage: its fragments, by number
  size,       \* readMessage: len(buf)
  data,       \* every data frame the server sent, in order
  delivered,  \* fragments of the last message readMessage returned
  pings       \* pings begun by the keepalive goroutine

writeVars == <<step, body, wmu, open, mixed, writeErr>>
readVars == <<msgOp, buf, size, data, delivered>>
vars == <<loop, pinger, writeVars, readVars, pings>>

FramesTypeOK ==
  /\ loop \in {"hello", "read", "pong", "closing", "over"}
  /\ pinger \in {"wait", "ping", "ended"}
  /\ step \in [Writers -> {"none", "lock", "header", "payload"}]
  /\ body \in [Writers -> BOOLEAN]
  /\ wmu \in Writers \cup {"free"}
  /\ open \in Writers \cup {"none"}
  /\ mixed \in BOOLEAN
  /\ writeErr \in BOOLEAN
  /\ msgOp \in DataOps \cup {"none"}
  /\ data \in Seq(DataFrames)
  /\ buf \in Seq(1 .. Len(data))
  /\ size \in Nat
  /\ delivered \in Seq(1 .. Len(data))
  /\ pings \in 0 .. MaxPings

\* A frame is about to be written by w, with a payload or without.
StartWrite(w, hasBody) ==
  /\ step' = [step EXCEPT ![w] = "lock"]
  /\ body' = [body EXCEPT ![w] = hasBody]

Init ==
  /\ loop = IF Hello THEN "hello" ELSE "read"
  /\ pinger = "wait"
  /\ step = [w \in Writers |-> IF w = "loop" /\ Hello THEN "lock" ELSE "none"]
  /\ body = [w \in Writers |-> w = "loop" /\ Hello]
  /\ wmu = "free"
  /\ open = "none"
  /\ mixed = FALSE
  /\ writeErr = FALSE
  /\ msgOp = "none"
  /\ buf = <<>>
  /\ size = 0
  /\ data = <<>>
  /\ delivered = <<>>
  /\ pings = 0

-----------------------------------------------------------------------------
(* writeFrame.                                                             *)

\* The caller goes on after writeFrame: the pinger waits for its ticker or,
\* after an error, ends; the read loop reads on or returns its error.
Return(w, err) ==
  IF w = "pinger"
  THEN /\ pinger' = IF err THEN "ended" ELSE "wait"
       /\ UNCHANGED loop
  ELSE /\ loop' = IF err THEN "closing" ELSE "read"
       /\ UNCHANGED pinger

\* Mutant: writeFrame does not take wmu.
LockWriteNot(w) ==
  /\ step[w] = "lock"
  /\ wmu' = w
  /\ step' = [step EXCEPT ![w] = "header"]
  /\ UNCHANGED <<loop, pinger, body, open, mixed, writeErr, readVars, pings>>

LockWrite(w) ==
  /\ step[w] = "lock"
  /\ wmu = "free"
  /\ wmu' = w
  /\ step' = [step EXCEPT ![w] = "header"]
  /\ UNCHANGED <<loop, pinger, body, open, mixed, writeErr, readVars, pings>>

\* writeFrame is done and its deferred Unlock runs.
Unlock(w) ==
  /\ wmu' = "free"
  /\ step' = [step EXCEPT ![w] = "none"]

WriteHeader(w) ==
  /\ step[w] = "header"
  /\ loop # "over"
  /\ mixed' = (mixed \/ open # "none")
  /\ open' = IF body[w] THEN w ELSE "none"
  /\ IF body[w]
     THEN /\ step' = [step EXCEPT ![w] = "payload"]
          /\ UNCHANGED <<wmu, loop, pinger>>
     ELSE Unlock(w) /\ Return(w, FALSE)
  /\ UNCHANGED <<body, writeErr, readVars, pings>>

WritePayload(w) ==
  /\ step[w] = "payload"
  /\ loop # "over"
  /\ mixed' = (mixed \/ open # w)
  /\ open' = "none"
  /\ Unlock(w)
  /\ Return(w, FALSE)
  /\ UNCHANGED <<body, writeErr, readVars, pings>>

\* Mutant: the error returns of writeFrame leave wmu locked.
WriteFailsLocked(w) ==
  /\ step[w] \in {"header", "payload"}
  /\ writeErr' = TRUE
  /\ step' = [step EXCEPT ![w] = "none"]
  /\ Return(w, TRUE)
  /\ UNCHANGED <<wmu, body, open, mixed, readVars, pings>>

\* randRead or a Write fails: no room within 10 s, or the connection is gone.
WriteFails(w) ==
  /\ step[w] \in {"header", "payload"}
  /\ writeErr' = TRUE
  /\ Unlock(w)
  /\ Return(w, TRUE)
  /\ UNCHANGED <<body, open, mixed, readVars, pings>>

writeFrame(w) ==
  LockWrite(w) \/ WriteHeader(w) \/ WritePayload(w) \/ WriteFails(w)

-----------------------------------------------------------------------------
(* The keepalive goroutine.                                                *)

PingTick ==
  /\ pinger = "wait"
  /\ pings < MaxPings
  /\ pings' = pings + 1
  /\ pinger' = "ping"
  /\ StartWrite("pinger", FALSE)
  /\ UNCHANGED <<loop, wmu, open, mixed, writeErr, readVars>>

\* done is closed by the return of wsServe.
PingerDone ==
  /\ pinger = "wait"
  /\ loop \in {"closing", "over"}
  /\ pinger' = "ended"
  /\ UNCHANGED <<loop, writeVars, readVars, pings>>

-----------------------------------------------------------------------------
(* The read loop: what readMessage does with each frame.                   *)

\* The payload bytes of the first n data frames.
Upto(n) == IF n = 0 THEN 0 ELSE data[n].end

\* readMessage returns an error, and so does wsServe.
Abort == loop' = "closing" /\ UNCHANGED <<msgOp, buf, size, delivered>>

\* The message is complete: wsServe handles it and calls readMessage afresh.
Deliver(frags) ==
  /\ delivered' = frags
  /\ msgOp' = "none"
  /\ buf' = <<>>
  /\ size' = 0
  /\ UNCHANGED loop

\* Mutant: a start frame is appended to the message under assembly.
TakeDataAppends(op, fin, len) ==
  LET frags == Append(buf, Len(data) + 1)
      mop == IF op \in DataOps THEN op ELSE msgOp
  IN  IF mop = "none" \/ size + len > MaxPayload THEN Abort
      ELSE IF fin THEN Deliver(frags)
      ELSE /\ msgOp' = mop /\ buf' = frags /\ size' = size + len
           /\ UNCHANGED <<loop, delivered>>

\* Mutant: only single frames are held against the cap.
TakeDataUncapped(op, fin, len) ==
  LET n == Len(data) + 1
      start == op \in DataOps
      frags == IF start THEN <<n>> ELSE Append(buf, n)
      mop == IF start THEN op ELSE msgOp
  IN  IF len > MaxPayload \/ mop = "none" THEN Abort
      ELSE IF fin THEN Deliver(frags)
      ELSE /\ msgOp' = mop /\ buf' = frags
           /\ size' = IF start THEN len ELSE size + len
           /\ UNCHANGED <<loop, delivered>>

\* Mutant: the opcode of a continuation becomes that of the message.
TakeDataRetypes(op, fin, len) ==
  LET n == Len(data) + 1
      start == op \in DataOps
      frags == IF start THEN <<n>> ELSE Append(buf, n)
  IN  IF \/ len > MaxPayload
         \/ ~start /\ (msgOp = "none" \/ size + len > MaxPayload)
      THEN Abort
      ELSE IF fin THEN Deliver(frags)
      ELSE /\ msgOp' = op /\ buf' = frags
           /\ size' = IF start THEN len ELSE size + len
           /\ UNCHANGED <<loop, delivered>>

\* A data frame is complete.  A start frame replaces what was assembled so
\* far; a continuation needs a start frame and room.
TakeData(op, fin, len) ==
  LET n == Len(data) + 1
      start == op \in DataOps
      frags == IF start THEN <<n>> ELSE Append(buf, n)
      mop == IF start THEN op ELSE msgOp
  IN  IF \/ len > MaxPayload
         \/ ~start /\ (msgOp = "none" \/ size + len > MaxPayload)
      THEN Abort
      ELSE IF fin THEN Deliver(frags)
      ELSE /\ msgOp' = mop
           /\ buf' = frags
           /\ size' = IF start THEN len ELSE size + len
           /\ UNCHANGED <<loop, delivered>>

ReadData(op, fin, len) ==
  /\ loop = "read"
  /\ Len(data) < MaxFrames
  /\ data' = Append(data, [op |-> op, fin |-> fin, len |-> len,
                           end |-> Upto(Len(data)) + len])
  /\ TakeData(op, fin, len)
  /\ UNCHANGED <<pinger, writeVars, pings>>

\* Control frames may come between fragments.  A ping is answered with its
\* own payload before the next frame is read.
ReadControl(op, len) ==
  /\ loop = "read"
  /\ \/ /\ op = "ping" /\ len <= MaxPayload
        /\ loop' = "pong"
        /\ StartWrite("loop", len > 0)
     \/ /\ op = "pong" /\ len <= MaxPayload
        /\ UNCHANGED <<loop, step, body>>
     \/ /\ op \in {"close", "reserved"} \/ len > MaxPayload
        /\ loop' = "closing"
        /\ UNCHANGED <<step, body>>
  /\ UNCHANGED <<pinger, wmu, open, mixed, writeErr, readVars, pings>>

\* readFrame fails: the peer is gone, or idle for too long.
ReadFails ==
  /\ loop = "read"
  /\ loop' = "closing"
  /\ UNCHANGED <<pinger, writeVars, readVars, pings>>

\* wsServe has returned; runWS closes the connection.
CloseConn ==
  /\ loop = "closing"
  /\ loop' = "over"
  /\ UNCHANGED <<pinger, writeVars, readVars, pings>>

readMessage ==
  \/ \E op \in DataOps \cup {"continuation"}, fin \in BOOLEAN, len \in Lengths :
       ReadData(op, fin, len)
  \/ \E op \in ControlOps, len \in Lengths : ReadControl(op, len)
  \/ ReadFails

Next ==
  \/ \E w \in Writers : writeFrame(w)
  \/ PingTick \/ PingerDone \/ readMessage \/ CloseConn

Spec == Init /\ [][Next]_vars

\* Both goroutines run; a Write ends, with success or at its deadline.
Fairness ==
  /\ \A w \in Writers : WF_vars(writeFrame(w))
  /\ WF_vars(PingerDone) /\ WF_vars(CloseConn)

FairSpec == Spec /\ Fairness

-----------------------------------------------------------------------------

\* As long as no Write has failed, the frames of the read loop and of the
\* keepalive goroutine never run into each other on the wire (wmu).
FramesApart == ~writeErr => ~mixed

\* readMessage returns exactly the fragments of one message: from a start
\* frame to the first final frame, without a gap, whatever control frames and
\* abandoned messages come in between.
DeliveredWhole ==
  delivered # <<>> =>
    /\ \A i \in DOMAIN delivered : delivered[i] = delivered[1] + i - 1
    /\ data[delivered[1]].op \in DataOps
    /\ \A i \in DOMAIN delivered :
         /\ data[delivered[i]].fin <=> i = Len(delivered)
         /\ i > 1 => data[delivered[i]].op = "continuation"

\* The payload bytes from the first fragment to the last.
Extent(frags) ==
  IF frags = <<>> THEN 0 ELSE Upto(frags[Len(frags)]) - Upto(frags[1] - 1)

\* Neither a message under assembly nor one that is returned exceeds the cap
\* ("a hostile or confused server must not be able to balloon us"), counted
\* by what the server has sent and not by len(buf).
Bounded == Extent(buf) <= MaxPayload /\ Extent(delivered) <= MaxPayload

\* When the session is over the keepalive goroutine ends: it is not left
\* behind waiting for wmu or for its ticker.
PingerEnds == loop = "over" ~> pinger = "ended"
=============================================================================
