--------------------------- MODULE WSFramesProofs ---------------------------
(***************************************************************************)
(* The frames of a session, for every cap, every set of frame lengths and  *)
(* any number of frames and pings: the two writers do not mix their        *)
(* frames, and readMessage returns whole messages within the cap.          *)
(***************************************************************************)
EXTENDS WSFrames, TLAPS

\* The initial states are well typed.
LEMMA InitTypes == Init => FramesTypeOK
<1> SUFFICES ASSUME Init PROVE FramesTypeOK
  OBVIOUS
<1>1. /\ loop \in {"hello", "read", "pong", "closing", "over"}
      /\ pinger \in {"wait", "ping", "ended"}
      /\ wmu \in Writers \cup {"free"} /\ open \in Writers \cup {"none"}
      /\ mixed \in BOOLEAN /\ writeErr \in BOOLEAN
      /\ msgOp \in DataOps \cup {"none"}
  BY DEF Init
<1>2. step \in [Writers -> {"none", "lock", "header", "payload"}]
  BY DEF Init
<1>3. body \in [Writers -> BOOLEAN]
  <2>1. \A w \in Writers : (w = "loop" /\ Hello) \in BOOLEAN
    OBVIOUS
  <2> QED
    BY <2>1, Zenon DEF Init
<1>4. size \in Nat /\ pings \in 0 .. MaxPings
  BY WSFramesAssumption DEF Init
<1>5. data = <<>> /\ buf = <<>> /\ delivered = <<>>
  BY DEF Init
<1>6. data \in Seq(DataFrames) /\ buf \in Seq(1 .. Len(data))
      /\ delivered \in Seq(1 .. Len(data))
  BY <1>5
<1> QED
  BY <1>1, <1>2, <1>3, <1>4, <1>6 DEF FramesTypeOK

\* One more data frame at the end of data.
LEMMA DataGrows ==
  ASSUME FramesTypeOK, NEW op \in DataOps \cup {"continuation"},
         NEW fin \in BOOLEAN, NEW len \in Lengths, ReadData(op, fin, len)
  PROVE  /\ data' \in Seq(DataFrames)
         /\ Len(data) \in Nat
         /\ Len(data') = Len(data) + 1
         /\ \A i \in 1 .. Len(data) : data'[i] = data[i] /\ data[i] \in DataFrames
         /\ data'[Len(data) + 1] = [op |-> op, fin |-> fin, len |-> len,
                                    end |-> Upto(Len(data)) + len]
<1>1. data \in Seq(DataFrames) /\ Len(data) \in Nat
  BY DEF FramesTypeOK
<1>2. Upto(Len(data)) \in Nat
  <2>1. CASE Len(data) = 0
    BY <2>1 DEF Upto
  <2>2. CASE Len(data) # 0
    <3>1. data[Len(data)] \in DataFrames
      BY <1>1, <2>2
    <3>2. data[Len(data)].end \in Nat
      BY <3>1 DEF DataFrames
    <3> QED
      BY <2>2, <3>2 DEF Upto
  <2> QED
    BY <2>1, <2>2
<1> DEFINE e == [op |-> op, fin |-> fin, len |-> len, end |-> Upto(Len(data)) + len]
<1>3. e \in DataFrames
  <2>1. len \in Nat
    BY WSFramesAssumption
  <2> QED
    BY <1>2, <2>1 DEF DataFrames
<1>4. data' = Append(data, e)
  BY DEF ReadData
<1> HIDE DEF e
<1>5. /\ data' \in Seq(DataFrames) /\ Len(data') = Len(data) + 1
      /\ \A i \in 1 .. Len(data) : data'[i] = data[i] /\ data[i] \in DataFrames
      /\ data'[Len(data) + 1] = e
  BY <1>1, <1>3, <1>4
<1> QED
  BY <1>1, <1>5 DEF e

\* What becomes of the fragments, and of their size, when a frame fits.
Frags(op) ==
  IF op \in DataOps THEN <<Len(data) + 1>> ELSE Append(buf, Len(data) + 1)

Total(op, len) == IF op \in DataOps THEN len ELSE size + len

\* The cases of TakeData.
LEMMA DataTaken ==
  ASSUME FramesTypeOK, NEW op \in DataOps \cup {"continuation"},
         NEW fin \in BOOLEAN, NEW len \in Lengths, ReadData(op, fin, len)
  PROVE  \/ /\ loop' = "closing"
            /\ UNCHANGED <<msgOp, buf, size, delivered>>
         \/ /\ Total(op, len) <= MaxPayload
            /\ op \in DataOps \/ msgOp # "none"
            /\ UNCHANGED loop
            /\ \/ /\ fin
                  /\ delivered' = Frags(op)
                  /\ msgOp' = "none" /\ buf' = <<>> /\ size' = 0
               \/ /\ ~fin
                  /\ msgOp' = IF op \in DataOps THEN op ELSE msgOp
                  /\ buf' = Frags(op) /\ size' = Total(op, len)
                  /\ UNCHANGED delivered
<1>1. len \in Nat /\ size \in Nat /\ MaxPayload \in Nat
  BY WSFramesAssumption DEF FramesTypeOK
<1>2. TakeData(op, fin, len)
  BY DEF ReadData
<1> QED
  BY <1>1, <1>2 DEF TakeData, Abort, Deliver, Frags, Total

\* Every step keeps the types.
LEMMA NextTypes == FramesTypeOK /\ [Next]_vars => FramesTypeOK'
<1> SUFFICES ASSUME FramesTypeOK, [Next]_vars PROVE FramesTypeOK'
  OBVIOUS
<1> USE WSFramesAssumption
<1>1. ASSUME NEW w \in Writers, writeFrame(w) PROVE FramesTypeOK'
  <2>1. CASE LockWrite(w)
    BY <1>1, <2>1 DEF LockWrite, FramesTypeOK, readVars
  <2>2. CASE WriteHeader(w)
    BY <1>1, <2>2 DEF WriteHeader, Unlock, Return, FramesTypeOK, readVars, Writers
  <2>3. CASE WritePayload(w)
    BY <1>1, <2>3 DEF WritePayload, Unlock, Return, FramesTypeOK, readVars, Writers
  <2>4. CASE WriteFails(w)
    BY <1>1, <2>4 DEF WriteFails, Unlock, Return, FramesTypeOK, readVars, Writers
  <2> QED
    BY <1>1, <2>1, <2>2, <2>3, <2>4 DEF writeFrame
<1>2. CASE PingTick
  <2>1. step' = [step EXCEPT !["pinger"] = "lock"]
        /\ body' = [body EXCEPT !["pinger"] = FALSE]
    BY <1>2 DEF PingTick, StartWrite
  <2>2. /\ step' \in [Writers -> {"none", "lock", "header", "payload"}]
        /\ body' \in [Writers -> BOOLEAN]
    BY <2>1 DEF FramesTypeOK
  <2>3. pings' \in 0 .. MaxPings
    BY <1>2 DEF PingTick, FramesTypeOK
  <2> QED
    BY <1>2, <2>2, <2>3 DEF PingTick, FramesTypeOK, readVars
<1>6. CASE PingerDone \/ CloseConn \/ ReadFails
  BY <1>6 DEF PingerDone, CloseConn, ReadFails, FramesTypeOK, writeVars, readVars
<1>3. ASSUME NEW op \in DataOps \cup {"continuation"}, NEW fin \in BOOLEAN,
             NEW len \in Lengths, ReadData(op, fin, len)
      PROVE  FramesTypeOK'
  <2> DEFINE n == Len(data) + 1
             frags == Frags(op)
             sum == Total(op, len)
  <2>1. /\ data' \in Seq(DataFrames) /\ Len(data) \in Nat /\ Len(data') = n
    BY <1>3, DataGrows
  <2>2. buf \in Seq(1 .. n) /\ delivered \in Seq(1 .. n) /\ n \in 1 .. n
    BY <2>1 DEF FramesTypeOK
  <2>3. frags \in Seq(1 .. n)
    <3>1. <<n>> \in Seq(1 .. n) /\ Append(buf, n) \in Seq(1 .. n)
      BY <2>2
    <3> QED
      BY <3>1 DEF Frags
  <2>4. sum \in Nat
    BY DEF FramesTypeOK, Total
  <2> HIDE DEF n, frags, sum
  <2>5. /\ buf' \in Seq(1 .. n) /\ delivered' \in Seq(1 .. n)
        /\ size' \in Nat /\ msgOp' \in DataOps \cup {"none"}
        /\ loop' \in {loop, "closing"}
    <3>1. \/ /\ loop' = "closing"
             /\ UNCHANGED <<msgOp, buf, size, delivered>>
          \/ /\ UNCHANGED loop
             /\ \/ /\ delivered' = frags
                   /\ msgOp' = "none" /\ buf' = <<>> /\ size' = 0
                \/ /\ msgOp' = IF op \in DataOps THEN op ELSE msgOp
                   /\ buf' = frags /\ size' = sum
                   /\ UNCHANGED delivered
      BY <1>3, DataTaken DEF n, frags, sum
    <3>2. size \in Nat /\ msgOp \in DataOps \cup {"none"}
      BY DEF FramesTypeOK
    <3>3. <<>> \in Seq(1 .. n)
      OBVIOUS
    <3>4. msgOp' \in DataOps \cup {"none"} /\ loop' \in {loop, "closing"}
      BY <3>1, <3>2
    <3>5. buf' \in {buf, <<>>, frags} /\ delivered' \in {delivered, frags}
          /\ size' \in {size, 0, sum}
      BY <3>1
    <3>6. buf' \in Seq(1 .. n) /\ delivered' \in Seq(1 .. n)
      BY <2>2, <2>3, <3>3, <3>5, Zenon
    <3>7. size' \in Nat
      BY <2>4, <3>2, <3>5
    <3> QED
      BY <3>4, <3>6, <3>7
  <2>6. UNCHANGED <<pinger, step, body, wmu, open, mixed, writeErr, pings>>
    BY <1>3 DEF ReadData, writeVars
  <2> QED
    BY <2>1, <2>5, <2>6 DEF FramesTypeOK
<1>4. ASSUME NEW op \in ControlOps, NEW len \in Lengths, ReadControl(op, len)
      PROVE  FramesTypeOK'
  <2>1. "loop" \in Writers /\ (len > 0) \in BOOLEAN
    BY DEF Writers
  <2>2. /\ step' \in [Writers -> {"none", "lock", "header", "payload"}]
        /\ loop' \in {"hello", "read", "pong", "closing", "over"}
    BY <1>4, <2>1 DEF ReadControl, StartWrite, FramesTypeOK
  <2>3. body' \in [Writers -> BOOLEAN]
    <3>1. body \in [Writers -> BOOLEAN]
      BY DEF FramesTypeOK
    <3>2. body' = body \/ body' = [body EXCEPT !["loop"] = (len > 0)]
      BY <1>4, Zenon DEF ReadControl, StartWrite
    <3> QED
      BY <2>1, <3>1, <3>2
  <2> QED
    BY <1>4, <2>2, <2>3 DEF ReadControl, FramesTypeOK, readVars
<1>5. CASE UNCHANGED vars
  BY <1>5 DEF vars, writeVars, readVars, FramesTypeOK
<1> QED
  BY <1>1, <1>2, <1>3, <1>4, <1>5, <1>6 DEF Next, readMessage

\* Every reachable state of a session is well typed: in particular the
\* fragments readMessage keeps and returns are frames the server has sent.
THEOREM FramesTypeCorrect == Spec => []FramesTypeOK
BY InitTypes, NextTypes, PTL DEF Spec

-----------------------------------------------------------------------------
(* The wire.                                                               *)

\* The inductive invariant: whoever is between its header and the end of its
\* frame holds wmu, and as long as no Write has failed the wire agrees.
WireInv ==
  /\ pinger # "ping" => step["pinger"] = "none"
  /\ loop \notin {"hello", "pong"} => step["loop"] = "none"
  /\ \A w \in Writers : step[w] \in {"header", "payload"} <=> wmu = w
  /\ ~writeErr => /\ ~mixed
                  /\ \A w \in Writers : open = w <=> step[w] = "payload"

\* Every step keeps the writers apart.
LEMMA NextWire == FramesTypeOK /\ WireInv /\ [Next]_vars => WireInv'
<1> SUFFICES ASSUME FramesTypeOK, WireInv, [Next]_vars PROVE WireInv'
  OBVIOUS
<1> USE DEF WireInv, Writers
<1>t. /\ step \in [Writers -> {"none", "lock", "header", "payload"}]
      /\ body \in [Writers -> BOOLEAN]
      /\ wmu \in Writers \cup {"free"} /\ open \in Writers \cup {"none"}
      /\ mixed \in BOOLEAN /\ writeErr \in BOOLEAN
  BY DEF FramesTypeOK
<1>1. ASSUME NEW w \in Writers, writeFrame(w) PROVE WireInv'
  <2>1. CASE LockWrite(w)
    BY <1>1, <1>t, <2>1 DEF LockWrite
  <2>2. CASE WriteHeader(w)
    BY <1>1, <1>t, <2>2 DEF WriteHeader, Unlock, Return
  <2>3. CASE WritePayload(w)
    BY <1>1, <1>t, <2>3 DEF WritePayload, Unlock, Return
  <2>4. CASE WriteFails(w)
    BY <1>1, <1>t, <2>4 DEF WriteFails, Unlock, Return
  <2> QED
    BY <1>1, <2>1, <2>2, <2>3, <2>4 DEF writeFrame
<1>2. CASE PingTick \/ PingerDone \/ CloseConn \/ ReadFails
  BY <1>2, <1>t DEF PingTick, PingerDone, CloseConn, ReadFails, StartWrite,
     writeVars
<1>3. ASSUME NEW op, NEW fin, NEW len, ReadData(op, fin, len) PROVE WireInv'
  BY <1>3, <1>t DEF ReadData, TakeData, Abort, Deliver, writeVars
<1>4. ASSUME NEW op, NEW len, ReadControl(op, len) PROVE WireInv'
  BY <1>4, <1>t DEF ReadControl, StartWrite
<1>5. CASE UNCHANGED vars
  BY <1>5 DEF vars, writeVars
<1> QED
  BY <1>1, <1>2, <1>3, <1>4, <1>5 DEF Next, readMessage

\* The read loop and the keepalive goroutine never write into each other's
\* frames, as long as no Write has failed (wmu in writeFrame).
THEOREM WritersApart == Spec => []FramesApart
<1>1. Init => WireInv
  BY DEF Init, WireInv, Writers
<1>2. WireInv => FramesApart
  BY DEF WireInv, FramesApart
<1> QED
  BY <1>1, <1>2, FramesTypeCorrect, NextWire, PTL DEF Spec

-----------------------------------------------------------------------------
(* Reassembly.  The operators of the properties, with the data frames as a *)
(* parameter: what they say of old fragments outlives a new frame.         *)

UptoIn(d, n) == IF n = 0 THEN 0 ELSE d[n].end

ExtentIn(d, frags) ==
  IF frags = <<>> THEN 0
  ELSE UptoIn(d, frags[Len(frags)]) - UptoIn(d, frags[1] - 1)

\* Consecutive frames: a start frame and its continuations.
Run(d, frags) ==
  \A i \in 1 .. Len(frags) :
    /\ frags[i] = frags[1] + i - 1
    /\ i = 1 => d[frags[i]].op \in DataOps
    /\ i > 1 => d[frags[i]].op = "continuation"

Unfinished(d, frags) == \A i \in 1 .. Len(frags) : ~d[frags[i]].fin

Finished(d, frags) ==
  \A i \in 1 .. Len(frags) : d[frags[i]].fin <=> i = Len(frags)

\* The inductive invariant.  While the loop reads on, what is in buf are the
\* latest data frames, and size counts their bytes.
ReassemblyInv ==
  /\ \A i \in 1 .. Len(data) : data[i].end = UptoIn(data, i - 1) + data[i].len
  /\ msgOp # "none" => buf # <<>>
  /\ Run(data, buf) /\ Unfinished(data, buf)
  /\ ExtentIn(data, buf) <= MaxPayload
  /\ loop \notin {"closing", "over"} =>
       /\ size = ExtentIn(data, buf)
       /\ buf # <<>> => buf[Len(buf)] = Len(data)
  /\ Run(data, delivered) /\ Finished(data, delivered)
  /\ ExtentIn(data, delivered) <= MaxPayload

\* A new frame changes nothing for the fragments of earlier ones.
LEMMA OldFragments ==
  ASSUME NEW d, NEW e, Len(d) \in Nat,
         \A i \in 1 .. Len(d) : e[i] = d[i],
         NEW frags \in Seq(1 .. Len(d))
  PROVE  /\ ExtentIn(e, frags) = ExtentIn(d, frags)
         /\ Run(d, frags) => Run(e, frags)
         /\ Unfinished(d, frags) => Unfinished(e, frags)
         /\ Finished(d, frags) => Finished(e, frags)
<1>1. \A i \in 1 .. Len(frags) : frags[i] \in 1 .. Len(d)
  OBVIOUS
<1>2. \A i \in 1 .. Len(frags) : e[frags[i]] = d[frags[i]]
  BY <1>1
<1>3. ExtentIn(e, frags) = ExtentIn(d, frags)
  <2>1. CASE frags = <<>>
    BY <2>1 DEF ExtentIn
  <2>2. CASE frags # <<>>
    <3>1. 1 \in 1 .. Len(frags) /\ Len(frags) \in 1 .. Len(frags)
      BY <2>2
    <3>2. frags[1] \in 1 .. Len(d) /\ frags[Len(frags)] \in 1 .. Len(d)
      BY <1>1, <3>1
    <3>3. UptoIn(e, frags[Len(frags)]) = UptoIn(d, frags[Len(frags)])
      BY <1>2, <3>1 DEF UptoIn
    <3>4. UptoIn(e, frags[1] - 1) = UptoIn(d, frags[1] - 1)
      BY <3>2 DEF UptoIn
    <3> QED
      BY <2>2, <3>3, <3>4 DEF ExtentIn
  <2> QED
    BY <2>1, <2>2
<1>4. Run(d, frags) => Run(e, frags)
  BY <1>2 DEF Run
<1>5. /\ Unfinished(d, frags) => Unfinished(e, frags)
      /\ Finished(d, frags) => Finished(e, frags)
  BY <1>2 DEF Unfinished, Finished
<1> QED
  BY <1>3, <1>4, <1>5

\* What the frame just read makes of the fragments.
LEMMA NewFragments ==
  ASSUME FramesTypeOK, ReassemblyInv,
         NEW op \in DataOps \cup {"continuation"},
         NEW fin \in BOOLEAN, NEW len \in Lengths, ReadData(op, fin, len),
         op \in DataOps \/ msgOp # "none"
  PROVE  /\ Frags(op) # <<>> /\ Frags(op)[Len(Frags(op))] = Len(data) + 1
         /\ ExtentIn(data', Frags(op)) = Total(op, len)
         /\ Run(data', Frags(op))
         /\ fin => Finished(data', Frags(op))
         /\ ~fin => Unfinished(data', Frags(op))
<1> DEFINE d == data
           e == data'
           n == Len(data) + 1
           frags == Frags(op)
           sum == Total(op, len)
<1>0. /\ n = Len(d) + 1
      /\ frags = IF op \in DataOps THEN <<n>> ELSE Append(buf, n)
      /\ sum = IF op \in DataOps THEN len ELSE size + len
  BY DEF Frags, Total
<1>1. /\ Len(d) \in Nat /\ Len(e) = n
      /\ \A i \in 1 .. Len(d) : e[i] = d[i] /\ d[i] \in DataFrames
      /\ e[n] = [op |-> op, fin |-> fin, len |-> len, end |-> Upto(Len(d)) + len]
  BY DataGrows
<1> HIDE DEF n, frags, sum
<1>2. len \in Nat
  BY WSFramesAssumption
<1>3. UptoIn(d, Len(d)) \in Nat /\ UptoIn(e, Len(d)) = UptoIn(d, Len(d))
  <2>1. CASE Len(d) = 0
    BY <2>1 DEF UptoIn
  <2>2. CASE Len(d) # 0
    BY <1>1, <2>2 DEF UptoIn, DataFrames
  <2> QED
    BY <2>1, <2>2
<1>4. UptoIn(e, n) = UptoIn(d, Len(d)) + len
  BY <1>0, <1>1 DEF UptoIn, Upto
<1>5. /\ e[n].op = op /\ e[n].fin = fin
  BY <1>1
<1>6. CASE op \in DataOps
  <2>1. frags = <<n>> /\ sum = len
    BY <1>0, <1>6
  <2>2. frags # <<>> /\ Len(frags) = 1 /\ frags[1] = n
    BY <2>1
  <2>3. ExtentIn(e, frags) = sum
    BY <1>0, <1>1, <1>2, <1>3, <1>4, <2>1, <2>2 DEF ExtentIn
  <2>4. Run(e, frags)
    BY <1>0, <1>1, <1>5, <1>6, <2>2 DEF Run
  <2>5. /\ fin => Finished(e, frags)
        /\ ~fin => Unfinished(e, frags)
    BY <1>5, <2>2 DEF Finished, Unfinished
  <2> QED
    BY <2>2, <2>3, <2>4, <2>5 DEF n, frags, sum
<1>7. CASE op \notin DataOps
  <2>1. /\ op = "continuation" /\ frags = Append(buf, n) /\ sum = size + len
        /\ buf # <<>>
    BY <1>0, <1>7 DEF ReassemblyInv
  <2>2. buf \in Seq(1 .. Len(d)) /\ n \in Nat
    BY <1>0, <1>1 DEF FramesTypeOK
  <2>3. /\ Len(buf) \in Nat /\ Len(buf) > 0
        /\ Len(frags) = Len(buf) + 1
        /\ \A i \in 1 .. Len(buf) : frags[i] = buf[i] /\ buf[i] \in 1 .. Len(d)
        /\ frags[Len(buf) + 1] = n
    <3>1. buf \in Seq(Nat)
      BY <1>1, <2>2
    <3> QED
      BY <2>1, <2>2, <3>1
  <2>4. loop = "read"
    BY DEF ReadData
  <2>5. /\ size = ExtentIn(d, buf) /\ buf[Len(buf)] = Len(d)
        /\ Run(d, buf) /\ Unfinished(d, buf)
    BY <2>1, <2>4 DEF ReassemblyInv
  <2>6. frags # <<>> /\ frags[Len(frags)] = n /\ frags[1] = buf[1]
    BY <2>1, <2>2, <2>3
  <2>7. \A i \in 1 .. Len(buf) : e[frags[i]] = d[buf[i]]
    BY <1>1, <2>3
  <2>8. ExtentIn(e, frags) = sum
    <3>1. buf[1] \in 1 .. Len(d)
      BY <2>3
    <3>2. UptoIn(e, buf[1] - 1) = UptoIn(d, buf[1] - 1)
          /\ UptoIn(d, buf[1] - 1) \in Nat
      <4>1. CASE buf[1] = 1
        BY <4>1 DEF UptoIn
      <4>2. CASE buf[1] # 1
        <5>1. buf[1] - 1 \in 1 .. Len(d)
          BY <1>1, <3>1, <4>2
        <5> QED
          BY <1>1, <5>1 DEF UptoIn, DataFrames
      <4> QED
        BY <4>1, <4>2
    <3>3. ExtentIn(d, buf) = UptoIn(d, Len(d)) - UptoIn(d, buf[1] - 1)
      BY <2>1, <2>5 DEF ExtentIn
    <3>4. ExtentIn(e, frags) = UptoIn(e, n) - UptoIn(e, buf[1] - 1)
      BY <2>6 DEF ExtentIn
    <3> QED
      BY <1>2, <1>3, <1>4, <2>1, <2>5, <3>2, <3>3, <3>4
  <2>9. Run(e, frags)
    <3> SUFFICES ASSUME NEW i \in 1 .. Len(frags)
                 PROVE  /\ frags[i] = frags[1] + i - 1
                        /\ i = 1 => e[frags[i]].op \in DataOps
                        /\ i > 1 => e[frags[i]].op = "continuation"
      BY DEF Run
    <3>1. CASE i <= Len(buf)
      <4>1. i \in 1 .. Len(buf)
        BY <2>3, <3>1
      <4>2. frags[i] = buf[i] /\ e[frags[i]] = d[buf[i]]
        BY <2>3, <2>7, <4>1
      <4>3. /\ buf[i] = buf[1] + i - 1
            /\ i = 1 => d[buf[i]].op \in DataOps
            /\ i > 1 => d[buf[i]].op = "continuation"
        BY <2>5, <4>1 DEF Run
      <4> QED
        BY <2>6, <4>2, <4>3
    <3>2. CASE i > Len(buf)
      <4>1. i = Len(buf) + 1 /\ i > 1
        BY <2>3, <3>2
      <4>2. buf[Len(buf)] = buf[1] + Len(buf) - 1
        BY <2>3, <2>5 DEF Run
      <4>3. buf[1] \in Nat
        BY <2>3
      <4> QED
        BY <1>0, <1>1, <1>5, <2>1, <2>3, <2>5, <2>6, <4>1, <4>2, <4>3
    <3> QED
      BY <2>3, <3>1, <3>2
  <2>10. /\ fin => Finished(e, frags)
         /\ ~fin => Unfinished(e, frags)
    <3>1. \A i \in 1 .. Len(buf) : ~e[frags[i]].fin
      BY <2>5, <2>7 DEF Unfinished
    <3>2. e[frags[Len(frags)]].fin = fin
      BY <1>5, <2>6
    <3>3. \A i \in 1 .. Len(frags) : i \in 1 .. Len(buf) \/ i = Len(frags)
      BY <2>3
    <3>4. \A i \in 1 .. Len(buf) : i # Len(frags)
      BY <2>3
    <3> QED
      BY <3>1, <3>2, <3>3, <3>4 DEF Finished, Unfinished
  <2> QED
    BY <2>6, <2>8, <2>9, <2>10 DEF n, frags, sum
<1> QED
  BY <1>6, <1>7

\* Every step keeps the fragments in order.
LEMMA NextReassembly ==
  FramesTypeOK /\ WireInv /\ ReassemblyInv /\ [Next]_vars => ReassemblyInv'
<1> SUFFICES ASSUME FramesTypeOK, WireInv, ReassemblyInv, [Next]_vars
             PROVE  ReassemblyInv'
  OBVIOUS
<1>1. ASSUME NEW op \in DataOps \cup {"continuation"}, NEW fin \in BOOLEAN,
             NEW len \in Lengths, ReadData(op, fin, len)
      PROVE  ReassemblyInv'
  <2> DEFINE n == Len(data) + 1
             frags == Frags(op)
             sum == Total(op, len)
  <2>1. /\ Len(data) \in Nat /\ Len(data') = n
        /\ \A i \in 1 .. Len(data) : data'[i] = data[i] /\ data[i] \in DataFrames
        /\ data'[n] = [op |-> op, fin |-> fin, len |-> len,
                       end |-> Upto(Len(data)) + len]
    BY <1>1, DataGrows
  <2>2. \A i \in 1 .. Len(data') : data'[i].end = UptoIn(data', i - 1) + data'[i].len
    <3> SUFFICES ASSUME NEW i \in 1 .. n
                 PROVE  data'[i].end = UptoIn(data', i - 1) + data'[i].len
      BY <2>1
    <3>1. UptoIn(data', i - 1) = UptoIn(data, i - 1)
      <4>1. CASE i = 1
        BY <4>1 DEF UptoIn
      <4>2. CASE i # 1
        <5>1. i - 1 \in 1 .. Len(data)
          BY <2>1, <4>2
        <5> QED
          BY <2>1, <5>1 DEF UptoIn
      <4> QED
        BY <4>1, <4>2
    <3>2. CASE i = n
      <4>1. UptoIn(data, n - 1) = Upto(Len(data))
        BY <2>1 DEF UptoIn, Upto
      <4> QED
        BY <2>1, <3>1, <3>2, <4>1
    <3>3. CASE i # n
      <4>1. i \in 1 .. Len(data)
        BY <2>1, <3>3
      <4> QED
        BY <2>1, <3>1, <4>1 DEF ReassemblyInv
    <3> QED
      BY <3>2, <3>3
  <2>3. /\ buf \in Seq(1 .. Len(data)) /\ delivered \in Seq(1 .. Len(data))
    BY DEF FramesTypeOK
  <2>4. /\ ExtentIn(data', buf) <= MaxPayload
        /\ Run(data', buf) /\ Unfinished(data', buf)
    BY <2>1, <2>3, OldFragments DEF ReassemblyInv
  <2>5. /\ ExtentIn(data', delivered) <= MaxPayload
        /\ Run(data', delivered) /\ Finished(data', delivered)
    BY <2>1, <2>3, OldFragments DEF ReassemblyInv
  <2>6. ASSUME op \in DataOps \/ msgOp # "none"
        PROVE  /\ frags # <<>> /\ frags[Len(frags)] = n
               /\ ExtentIn(data', frags) = sum
               /\ Run(data', frags)
               /\ fin => Finished(data', frags)
               /\ ~fin => Unfinished(data', frags)
    BY <1>1, <2>6, NewFragments
  <2>7. \/ /\ loop' = "closing"
           /\ UNCHANGED <<msgOp, buf, size, delivered>>
        \/ /\ sum <= MaxPayload
           /\ op \in DataOps \/ msgOp # "none"
           /\ UNCHANGED loop
           /\ \/ /\ fin
                 /\ delivered' = frags
                 /\ msgOp' = "none" /\ buf' = <<>> /\ size' = 0
              \/ /\ ~fin
                 /\ msgOp' = IF op \in DataOps THEN op ELSE msgOp
                 /\ buf' = frags /\ size' = sum
                 /\ UNCHANGED delivered
    BY <1>1, DataTaken
  <2> HIDE DEF n, frags, sum
  <2>8. CASE loop' = "closing" /\ UNCHANGED <<msgOp, buf, size, delivered>>
    BY <2>2, <2>4, <2>5, <2>8 DEF ReassemblyInv
  <2>9. CASE /\ sum <= MaxPayload
             /\ op \in DataOps \/ msgOp # "none"
             /\ fin /\ delivered' = frags
             /\ msgOp' = "none" /\ buf' = <<>> /\ size' = 0
    <3>1. /\ Run(data', <<>>) /\ Unfinished(data', <<>>)
          /\ ExtentIn(data', <<>>) = 0 /\ 0 <= MaxPayload
      BY WSFramesAssumption DEF Run, Unfinished, ExtentIn
    <3> QED
      BY <2>2, <2>6, <2>9, <3>1 DEF ReassemblyInv
  <2>10. CASE /\ sum <= MaxPayload
              /\ op \in DataOps \/ msgOp # "none"
              /\ ~fin
              /\ buf' = frags /\ size' = sum
              /\ UNCHANGED delivered
    BY <2>1, <2>2, <2>5, <2>6, <2>10 DEF ReassemblyInv
  <2> QED
    BY <2>7, <2>8, <2>9, <2>10
<1>2. ASSUME UNCHANGED readVars, loop' \in {"closing", "over"} \/ loop' = loop
                                \/ loop \notin {"closing", "over"}
      PROVE  ReassemblyInv'
  BY <1>2 DEF ReassemblyInv, readVars
<1>3. ASSUME NEW w \in Writers, writeFrame(w) PROVE ReassemblyInv'
  <2>1. UNCHANGED readVars
    BY <1>3 DEF writeFrame, LockWrite, WriteHeader, WritePayload, WriteFails
  <2>2. loop' = loop \/ loop' = "closing" \/ loop \notin {"closing", "over"}
    <3>1. CASE w = "pinger"
      BY <1>3, <3>1 DEF writeFrame, LockWrite, WriteHeader, WritePayload,
         WriteFails, Return
    <3>2. CASE w = "loop"
      <4>1. step["loop"] # "none"
        BY <1>3, <3>2 DEF writeFrame, LockWrite, WriteHeader, WritePayload,
           WriteFails
      <4> QED
        BY <4>1 DEF WireInv
    <3> QED
      BY <3>1, <3>2 DEF Writers
  <2> QED
    BY <1>2, <2>1, <2>2
<1>4. CASE PingTick \/ PingerDone \/ CloseConn \/ ReadFails
  <2>1. UNCHANGED readVars
    BY <1>4 DEF PingTick, PingerDone, CloseConn, ReadFails
  <2>2. loop' = loop \/ loop' \in {"closing", "over"}
    BY <1>4 DEF PingTick, PingerDone, CloseConn, ReadFails
  <2> QED
    BY <1>2, <2>1, <2>2
<1>5. ASSUME NEW op, NEW len, ReadControl(op, len) PROVE ReassemblyInv'
  <2>1. UNCHANGED readVars /\ loop = "read"
    BY <1>5 DEF ReadControl
  <2> QED
    BY <1>2, <2>1
<1>6. CASE UNCHANGED vars
  BY <1>2, <1>6 DEF vars
<1> QED
  BY <1>1, <1>3, <1>4, <1>5, <1>6 DEF Next, readMessage

\* So the fragments are always in order.
LEMMA SessionReassembles == Spec => []ReassemblyInv
<1>1. Init => WireInv
  BY DEF Init, WireInv, Writers
<1>2. Init => ReassemblyInv
  <2> SUFFICES ASSUME Init PROVE ReassemblyInv
    OBVIOUS
  <2>1. data = <<>> /\ buf = <<>> /\ delivered = <<>> /\ size = 0 /\ msgOp = "none"
    BY DEF Init
  <2>2. /\ Run(<<>>, <<>>) /\ Unfinished(<<>>, <<>>) /\ Finished(<<>>, <<>>)
        /\ ExtentIn(<<>>, <<>>) = 0 /\ 0 <= MaxPayload
    BY WSFramesAssumption DEF Run, Unfinished, Finished, ExtentIn
  <2> QED
    BY <2>1, <2>2 DEF ReassemblyInv
<1> QED
  BY <1>1, <1>2, FramesTypeCorrect, NextWire, NextReassembly, PTL DEF Spec

\* readMessage only ever returns whole messages: a start frame and all its
\* continuations up to the first final one, without a gap.
THEOREM MessagesWhole == Spec => []DeliveredWhole
<1>1. FramesTypeOK /\ ReassemblyInv => DeliveredWhole
  <2> SUFFICES ASSUME FramesTypeOK, ReassemblyInv, delivered # <<>>
               PROVE  /\ \A i \in DOMAIN delivered : delivered[i] = delivered[1] + i - 1
                      /\ data[delivered[1]].op \in DataOps
                      /\ \A i \in DOMAIN delivered :
                           /\ data[delivered[i]].fin <=> i = Len(delivered)
                           /\ i > 1 => data[delivered[i]].op = "continuation"
    BY DEF DeliveredWhole
  <2>1. DOMAIN delivered = 1 .. Len(delivered) /\ 1 \in 1 .. Len(delivered)
    BY DEF FramesTypeOK
  <2>2. Run(data, delivered) /\ Finished(data, delivered)
    BY DEF ReassemblyInv
  <2> QED
    BY <2>1, <2>2 DEF Run, Finished
<1> QED
  BY <1>1, FramesTypeCorrect, SessionReassembles, PTL

\* Whatever the server sends, readMessage neither keeps nor returns more
\* bytes than wsMaxPayload.
THEOREM MessagesBounded == Spec => []Bounded
<1>1. ReassemblyInv => Bounded
  BY DEF ReassemblyInv, Bounded, Extent, ExtentIn, Upto, UptoIn
<1> QED
  BY <1>1, SessionReassembles, PTL
=============================================================================
