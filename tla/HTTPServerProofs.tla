-------------------------- MODULE HTTPServerProofs --------------------------
(***************************************************************************)
(* What the HTTP engine promises for every number of connections, every    *)
(* limit of descriptors and every delay.                                   *)
(***************************************************************************)
EXTENDS HTTPServer, FiniteSetTheorems, TLAPS

\* Why a PDU is only taken from a whole body: a body that json.Unmarshal
\* accepts is there after a ReadFull that got all of the declared bytes, and
\* what has been taken over is not read any more.
BodyInv ==
  /\ \A c \in Conns :
       Unmarshals(req[c]) =>
         req[c].declared = "exact" /\ phase[c] \in {"route", "respond"}
  /\ \A c \in dispatched : phase[c] = "respond"

HTTPInv == HTTPTypeOK /\ NoDescriptorLeaked /\ BodyInv /\ DispatchedWhole

\* NextDelay stays within the longest delay.
LEMMA DelayCapped ==
  ASSUME tempDelay \in 0 .. MaxDelay
  PROVE  NextDelay \in 0 .. MaxDelay
BY HTTPAssumption DEF NextDelay

\* Closing a connection gives its descriptor back; none is counted twice.
LEMMA CloseCounts ==
  ASSUME NEW c \in Conns, open \subseteq Conns, Cardinality(open) <= FdLimit
  PROVE  Cardinality(open \ {c}) <= FdLimit
<1>1. IsFiniteSet(open)
  BY HTTPAssumption, FS_Subset
<1>2. Cardinality(open) \in Nat
  BY <1>1, FS_CardinalityType
<1>3. Cardinality(open \ {c}) \in {Cardinality(open), Cardinality(open) - 1}
  BY <1>1, FS_RemoveElement
<1> QED BY <1>2, <1>3, HTTPAssumption

\* Accepting a connection while a descriptor is free keeps to the limit.
LEMMA AcceptCounts ==
  ASSUME NEW c \in Conns, open \subseteq Conns, Cardinality(open) < FdLimit
  PROVE  Cardinality(open \cup {c}) <= FdLimit
<1>1. IsFiniteSet(open)
  BY HTTPAssumption, FS_Subset
<1>2. Cardinality(open) \in Nat
  BY <1>1, FS_CardinalityType
<1>3. Cardinality(open \cup {c}) \in {Cardinality(open), Cardinality(open) + 1}
  BY <1>1, FS_AddElement
<1> QED BY <1>2, <1>3, HTTPAssumption

\* Nothing is open, read or taken over at the start.
LEMMA InitHTTP == Init => HTTPInv
<1> SUFFICES ASSUME Init PROVE HTTPInv
  OBVIOUS
<1> USE DEF Init
<1>1. Cardinality({}) = 0
  BY FS_EmptySet
<1>2. NoRequest \in Requests
  BY DEF NoRequest, Requests
<1>3. HTTPTypeOK
  BY <1>1, <1>2, HTTPAssumption DEF HTTPTypeOK
<1>4. NoDescriptorLeaked
  BY DEF NoDescriptorLeaked, Serving
<1>5. BodyInv
  BY DEF BodyInv, Unmarshals, NoRequest
<1>6. DispatchedWhole
  BY DEF DispatchedWhole
<1> QED BY <1>3, <1>4, <1>5, <1>6 DEF HTTPInv

\* Every return of serve keeps the invariant.
LEMMA CloseKeeps ==
  ASSUME HTTPInv, NEW c \in Conns, phase[c] \in Serving, Close(c),
         UNCHANGED <<logURL, loop, tempDelay>>
  PROVE  HTTPInv'
<1> USE DEF Close, Goes, HTTPInv, HTTPTypeOK
<1>1. NoRequest \in Requests
  BY DEF NoRequest, Requests
<1>2. Cardinality(open') <= FdLimit
  BY CloseCounts
<1>3. HTTPTypeOK'
  BY <1>1, <1>2
<1>4. NoDescriptorLeaked'
  BY DEF NoDescriptorLeaked, Serving
<1>5. ~Unmarshals(NoRequest)
  BY DEF Unmarshals, NoRequest
<1>6. \A d \in Conns : d # c => req'[d] = req[d] /\ phase'[d] = phase[d]
  OBVIOUS
<1>7. BodyInv'
  BY <1>5, <1>6 DEF BodyInv, Unmarshals
<1>8. DispatchedWhole'
  BY <1>6 DEF DispatchedWhole, ReachesHook
<1> QED BY <1>3, <1>4, <1>7, <1>8

\* A step that moves one connection along, within its serve goroutine, keeps
\* the invariant when its request is well-formed and, if readable, whole.
LEMMA StepKeeps ==
  ASSUME HTTPInv, NEW c \in Conns, NEW p \in Serving, NEW r \in Requests,
         phase[c] \in Serving, c \notin dispatched,
         Goes(c, p), req' = [req EXCEPT ![c] = r],
         Unmarshals(r) => r.declared = "exact" /\ p \in {"route", "respond"},
         UNCHANGED <<logURL, loop, tempDelay, open>>,
         \/ UNCHANGED dispatched
         \/ /\ dispatched' = dispatched \cup {c}
            /\ p = "respond" /\ ReachesHook(r) /\ Unmarshals(r)
  PROVE  HTTPInv'
<1> USE DEF Goes, HTTPInv, HTTPTypeOK
<1>1. HTTPTypeOK'
  BY DEF Serving
<1>2. NoDescriptorLeaked'
  BY DEF NoDescriptorLeaked
<1>3. /\ req'[c] = r /\ phase'[c] = p
      /\ \A d \in Conns : d # c => req'[d] = req[d] /\ phase'[d] = phase[d]
  OBVIOUS
<1>4. BodyInv'
  BY <1>3 DEF BodyInv, Unmarshals
<1>5. DispatchedWhole'
  BY <1>3 DEF DispatchedWhole, ReachesHook, Unmarshals
<1> QED BY <1>1, <1>2, <1>4, <1>5

\* Every step of the accept loop and of the goroutines keeps the invariant.
LEMMA NextHTTP == HTTPInv /\ [Next]_vars => HTTPInv'
<1> SUFFICES ASSUME HTTPInv, [Next]_vars PROVE HTTPInv'
  OBVIOUS
<1>t. /\ req \in [Conns -> Requests]
      /\ \A d \in dispatched : phase[d] = "respond"
  BY DEF HTTPInv, HTTPTypeOK, BodyInv
<1>1. CASE UNCHANGED vars
  BY <1>1 DEF vars, HTTPInv, HTTPTypeOK, NoDescriptorLeaked, BodyInv,
              DispatchedWhole, Unmarshals, ReachesHook
<1>2. CASE AcceptFails \/ WakeUp
  <2>1. tempDelay' \in 0 .. MaxDelay
    BY <1>2, DelayCapped DEF AcceptFails, WakeUp, HTTPInv, HTTPTypeOK
  <2> QED BY <1>2, <2>1 DEF AcceptFails, WakeUp, HTTPInv, HTTPTypeOK,
             NoDescriptorLeaked, BodyInv, DispatchedWhole, Unmarshals,
             ReachesHook
<1>3. ASSUME NEW c \in Conns, Connect(c) PROVE HTTPInv'
  <2> USE <1>3 DEF Connect, Goes, HTTPInv, HTTPTypeOK
  <2>1. HTTPTypeOK'
    OBVIOUS
  <2>2. NoDescriptorLeaked'
    BY DEF NoDescriptorLeaked, Serving
  <2>3. BodyInv'
    BY DEF BodyInv, Unmarshals
  <2>4. DispatchedWhole'
    BY DEF DispatchedWhole, ReachesHook
  <2> QED BY <2>1, <2>2, <2>3, <2>4
<1>4. ASSUME NEW c \in Conns, Accept(c) PROVE HTTPInv'
  <2> USE <1>4 DEF Accept, Goes, HTTPInv, HTTPTypeOK
  <2>1. Cardinality(open') <= FdLimit
    BY AcceptCounts
  <2>2. HTTPTypeOK'
    BY <2>1, HTTPAssumption DEF Serving
  <2>3. NoDescriptorLeaked'
    BY DEF NoDescriptorLeaked, Serving
  <2>4. BodyInv'
    BY DEF BodyInv, Unmarshals
  <2>5. DispatchedWhole'
    BY DEF DispatchedWhole, ReachesHook
  <2> QED BY <2>2, <2>3, <2>4, <2>5
<1>5. ASSUME NEW c \in Conns, ReadLine(c) PROVE HTTPInv'
  <2>1. CASE Close(c)
    BY <1>5, <2>1, CloseKeeps DEF ReadLine, Serving
  <2>2. ASSUME NEW m \in {"GET", "POST"},
               NEW p \in {"/hook/secret", "/log/secret", "other"},
               req' = [req EXCEPT ![c].method = m, ![c].path = p],
               Goes(c, "headers"), UNCHANGED <<open, dispatched>>
        PROVE  HTTPInv'
    <3> DEFINE r == [req[c] EXCEPT !.method = m, !.path = p]
    <3>1. r \in Requests
      <4>1. req[c] \in Requests
        BY <1>t
      <4>2. [req[c] EXCEPT !.method = m] \in Requests
        BY <4>1 DEF Requests
      <4>3. [[req[c] EXCEPT !.method = m] EXCEPT !.path = p] \in Requests
        BY <4>2 DEF Requests
      <4> QED BY <4>3
    <3>2. req' = [req EXCEPT ![c] = r]
      BY <1>t, <2>2
    <3>3. ~Unmarshals(r)
      <4>1. ~Unmarshals(req[c])
        BY <1>5 DEF ReadLine, HTTPInv, BodyInv
      <4>2. r.body = req[c].body
        BY <1>t DEF Requests
      <4> QED BY <4>1, <4>2 DEF Unmarshals
    <3>4. c \notin dispatched
      BY <1>5, <1>t DEF ReadLine
    <3> HIDE DEF r
    <3> QED BY <1>5, <2>2, <3>1, <3>2, <3>3, <3>4, StepKeeps
            DEF ReadLine, Serving
  <2> QED BY <1>5, <2>1, <2>2 DEF ReadLine
<1>6. ASSUME NEW c \in Conns, ReadHeaders(c) PROVE HTTPInv'
  <2> PICK l \in {"none", "short", "exact", "over"} :
        /\ req' = [req EXCEPT ![c].declared = l]
        /\ Goes(c, IF l = "none" THEN "route" ELSE "body")
    BY <1>6 DEF ReadHeaders
  <2> DEFINE r == [req[c] EXCEPT !.declared = l]
             p == IF l = "none" THEN "route" ELSE "body"
  <2>1. r \in Requests
    BY <1>t DEF Requests
  <2>2. req' = [req EXCEPT ![c] = r]
    BY <1>t
  <2>3. ~Unmarshals(r)
    <3>1. ~Unmarshals(req[c])
      BY <1>6 DEF ReadHeaders, HTTPInv, BodyInv
    <3>2. r.body = req[c].body
      BY <1>t DEF Requests
    <3> QED BY <3>1, <3>2 DEF Unmarshals
  <2>4. c \notin dispatched
    BY <1>6, <1>t DEF ReadHeaders
  <2>5. p \in Serving
    BY DEF Serving
  <2>6. Goes(c, p)
    OBVIOUS
  <2> HIDE DEF r, p
  <2> QED BY <1>6, <2>1, <2>2, <2>3, <2>4, <2>5, <2>6, StepKeeps
          DEF ReadHeaders, Serving
<1>7. ASSUME NEW c \in Conns, ReadBody(c) \/ BodyBreaksOff(c) PROVE HTTPInv'
  <2>1. PICK b \in [json : {"part", "all"}, zeros : BOOLEAN] :
          /\ req' = [req EXCEPT ![c].body = b]
          /\ b.json = "all" /\ ~b.zeros => req[c].declared = "exact"
    <3>1. CASE ReadBody(c)
      <4> DEFINE b0 == [json |-> IF req[c].declared = "exact" THEN "all"
                                                              ELSE "part",
                        zeros |-> FALSE]
      <4>1. /\ b0 \in [json : {"part", "all"}, zeros : BOOLEAN]
            /\ b0.json = "all" => req[c].declared = "exact"
        OBVIOUS
      <4>2. req' = [req EXCEPT ![c].body = b0]
        BY <3>1 DEF ReadBody
      <4> HIDE DEF b0
      <4> QED BY <4>1, <4>2
    <3>2. CASE BodyBreaksOff(c)
      <4> PICK j \in {"part", "all"} :
            req' = [req EXCEPT ![c].body = [json |-> j, zeros |-> TRUE]]
        BY <3>2 DEF BodyBreaksOff
      <4> DEFINE b0 == [json |-> j, zeros |-> TRUE]
      <4>1. b0 \in [json : {"part", "all"}, zeros : BOOLEAN] /\ b0.zeros
        OBVIOUS
      <4>2. req' = [req EXCEPT ![c].body = b0]
        OBVIOUS
      <4> HIDE DEF b0
      <4> QED BY <4>1, <4>2
    <3> QED BY <1>7, <3>1, <3>2
  <2> DEFINE r == [req[c] EXCEPT !.body = b]
  <2>2. r \in Requests
    BY <1>t DEF Requests
  <2>3. req' = [req EXCEPT ![c] = r]
    BY <1>t, <2>1
  <2>4. Unmarshals(r) => r.declared = "exact"
    BY <1>t, <2>1 DEF Unmarshals, Requests
  <2>5. c \notin dispatched
    BY <1>7, <1>t DEF ReadBody, BodyBreaksOff
  <2> HIDE DEF r
  <2> QED BY <1>7, <2>2, <2>3, <2>4, <2>5, StepKeeps
          DEF ReadBody, BodyBreaksOff, Serving
<1>8. ASSUME NEW c \in Conns, ReadFails(c) \/ Respond(c) PROVE HTTPInv'
  BY <1>8, CloseKeeps DEF ReadFails, Respond, Serving
<1>9. ASSUME NEW c \in Conns, route(c) PROVE HTTPInv'
  <2>1. req' = [req EXCEPT ![c] = req[c]]
    BY <1>9, <1>t DEF route
  <2>2. Unmarshals(req[c]) => req[c].declared = "exact"
    BY DEF HTTPInv, BodyInv
  <2>3. c \notin dispatched
    BY <1>9, <1>t DEF route
  <2> QED BY <1>9, <1>t, <2>1, <2>2, <2>3, StepKeeps DEF route, Serving
<1> QED BY <1>1, <1>2, <1>3, <1>4, <1>5, <1>6, <1>7, <1>8, <1>9 DEF Next, serve

\* The invariant holds in every reachable state.
LEMMA HTTPInvariant == Spec => []HTTPInv
BY InitHTTP, NextHTTP, PTL DEF Spec

\* runHTTP and serve keep their types, the delay its cap and the descriptors
\* their limit, for any number of connections.
THEOREM HTTPTypeCorrect == Spec => []HTTPTypeOK
BY HTTPInvariant, PTL DEF HTTPInv

\* Every way out of serve closes its connection, and nothing else holds one.
THEOREM DescriptorsAccounted == Spec => []NoDescriptorLeaked
BY HTTPInvariant, PTL DEF HTTPInv

\* No request whose body broke off reaches the modem.
THEOREM OnlyWholeRequests == Spec => []DispatchedWhole
BY HTTPInvariant, PTL DEF HTTPInv
=============================================================================
