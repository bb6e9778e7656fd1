----------------------------- MODULE HTTPServer -----------------------------
(***************************************************************************)
(* The hand-written HTTP engine of -mode http: the accept loop of runHTTP  *)
(* with its growing delay after errors, and one serve goroutine for each   *)
(* connection, which reads a request under one deadline, routes it, writes *)
(* the answer without a deadline and closes.  What handleHook does with a  *)
(* PDU is the subject of Dispatch; here it matters which requests get that *)
(* far, and that connections neither pile up nor lock the others out.      *)
(*                                                                         *)
(* Reading is one step for each part of the request: what the client sends *)
(* is the choice of the step, a client that sends nothing more is one      *)
(* whose step is never taken, and the deadline may come first.             *)
(***************************************************************************)
EXTENDS Naturals, FiniteSets

CONSTANTS
  Conns,      \* connections of one behaviour
  FdLimit,    \* descriptors left for connections
  BaseDelay,  \* first delay after an error of Accept (5 ms)
  MaxDelay    \* longest delay (1 s)

ASSUME HTTPAssumption ==
  /\ IsFiniteSet(Conns)
  /\ FdLimit \in Nat \ {0}
  /\ BaseDelay \in Nat \ {0}
  /\ MaxDelay \in Nat /\ BaseDelay <= MaxDelay

VARIABLES
  logURL,      \* -logurl
  loop,        \* the accept loop: "accept" or "sleep"
  tempDelay,   \* its current delay
  phase,       \* where each connection is
  open,        \* connections that hold a descriptor
  req,         \* the request of each serve goroutine
  dispatched   \* the served ones whose PDU handleHook has taken over

vars == <<logURL, loop, tempDelay, phase, open, req, dispatched>>

Serving == {"line", "headers", "body", "route", "respond"}

\* declared is the Content-Length next to the JSON the client has to send:
\* none (or one that Atoi cannot read, or a negative one); less than the JSON,
\* as it also is when 64 KiB are; as long as the JSON; more than will come.
\* body is what is in req.body: how much of the JSON, and whether zero bytes
\* are left behind it.
Requests ==
  [method : {"GET", "POST"},
   path : {"/hook/secret", "/log/secret", "other"},
   declared : {"none", "short", "exact", "over"},
   body : [json : {"part", "all"}, zeros : BOOLEAN]]

NoRequest ==
  [method |-> "GET", path |-> "other", declared |-> "none",
   body |-> [json |-> "part", zeros |-> FALSE]]

HTTPTypeOK ==
  /\ logURL \in BOOLEAN
  /\ loop \in {"accept", "sleep"}
  /\ tempDelay \in 0 .. MaxDelay
  /\ phase \in [Conns -> {"new", "queued", "closed"} \cup Serving]
  /\ open \subseteq Conns /\ Cardinality(open) <= FdLimit
  /\ req \in [Conns -> Requests]
  /\ dispatched \subseteq Conns

Init ==
  /\ logURL \in BOOLEAN
  /\ loop = "accept"
  /\ tempDelay = 0
  /\ phase = [c \in Conns |-> "new"]
  /\ open = {}
  /\ req = [c \in Conns |-> NoRequest]
  /\ dispatched = {}

Goes(c, to) == phase' = [phase EXCEPT ![c] = to]

\* Mutant: no deferred Close.
CloseForgotten(c) ==
  /\ Goes(c, "closed")
  /\ req' = [req EXCEPT ![c] = NoRequest]
  /\ dispatched' = dispatched \ {c}
  /\ UNCHANGED open

\* serve returns: the deferred Close runs and the request is forgotten.
Close(c) ==
  /\ Goes(c, "closed")
  /\ req' = [req EXCEPT ![c] = NoRequest]
  /\ dispatched' = dispatched \ {c}
  /\ open' = open \ {c}

-----------------------------------------------------------------------------
(* The accept loop.                                                        *)

\* The kernel completes a connection and keeps it in the backlog.
Connect(c) ==
  /\ phase[c] = "new"
  /\ Goes(c, "queued")
  /\ UNCHANGED <<logURL, loop, tempDelay, open, req, dispatched>>

\* Accept succeeds: the delay is forgotten, a serve goroutine starts.
Accept(c) ==
  /\ loop = "accept"
  /\ phase[c] = "queued"
  /\ Cardinality(open) < FdLimit
  /\ tempDelay' = 0
  /\ open' = open \cup {c}
  /\ Goes(c, "line")
  /\ UNCHANGED <<logURL, loop, req, dispatched>>

NextDelay ==
  LET d == IF tempDelay = 0 THEN BaseDelay ELSE 2 * tempDelay
  IN  IF d > MaxDelay THEN MaxDelay ELSE d

\* Accept fails: the process or the system has no descriptor left.
AcceptFails ==
  /\ loop = "accept"
  /\ tempDelay' = NextDelay
  /\ loop' = "sleep"
  /\ UNCHANGED <<logURL, phase, open, req, dispatched>>

WakeUp ==
  /\ loop = "sleep"
  /\ loop' = "accept"
  /\ UNCHANGED <<logURL, tempDelay, phase, open, req, dispatched>>

-----------------------------------------------------------------------------
(* serve.                                                                  *)

\* The request line: fewer than two fields end the connection.
ReadLine(c) ==
  /\ phase[c] = "line"
  /\ \/ Close(c)
     \/ /\ \E m \in {"GET", "POST"},
              p \in {"/hook/secret", "/log/secret", "other"} :
             req' = [req EXCEPT ![c].method = m, ![c].path = p]
        /\ Goes(c, "headers")
        /\ UNCHANGED <<open, dispatched>>
  /\ UNCHANGED <<logURL, loop, tempDelay>>

\* The headers; the last Content-Length counts.
ReadHeaders(c) ==
  /\ phase[c] = "headers"
  /\ \E l \in {"none", "short", "exact", "over"} :
       /\ req' = [req EXCEPT ![c].declared = l]
       /\ Goes(c, IF l = "none" THEN "route" ELSE "body")
  /\ UNCHANGED <<logURL, loop, tempDelay, open, dispatched>>

\* ReadFull gets as many bytes as were declared, or 64 KiB.
ReadBody(c) ==
  /\ phase[c] = "body"
  /\ req[c].declared # "over"
  /\ req' = [req EXCEPT ![c].body =
               [json |-> IF req[c].declared = "exact" THEN "all" ELSE "part",
                zeros |-> FALSE]]
  /\ Goes(c, "route")
  /\ UNCHANGED <<logURL, loop, tempDelay, open, dispatched>>

\* Mutant: the buffer is cut to what has arrived.
BodyBreaksOffTrimmed(c) ==
  /\ phase[c] = "body"
  /\ \E j \in IF req[c].declared = "over" THEN {"part", "all"} ELSE {"part"} :
       req' = [req EXCEPT ![c].body = [json |-> j, zeros |-> FALSE]]
  /\ Goes(c, "route")
  /\ UNCHANGED <<logURL, loop, tempDelay, open, dispatched>>

\* The deadline or the end of the stream breaks ReadFull off: the error is
\* ignored, and the rest of the buffer stays zero.
BodyBreaksOff(c) ==
  /\ phase[c] = "body"
  /\ \E j \in IF req[c].declared = "over" THEN {"part", "all"} ELSE {"part"} :
       req' = [req EXCEPT ![c].body = [json |-> j, zeros |-> TRUE]]
  /\ Goes(c, "route")
  /\ UNCHANGED <<logURL, loop, tempDelay, open, dispatched>>

\* Mutant: no deadline is set, and the client is patient.
ReadFailsNever(c) == FALSE /\ UNCHANGED vars

\* The deadline or the end of the stream comes before the headers' end.
ReadFails(c) ==
  /\ phase[c] \in {"line", "headers"}
  /\ Close(c)
  /\ UNCHANGED <<logURL, loop, tempDelay>>

\* json.Unmarshal of req.body: the whole object and nothing behind it.
Unmarshals(r) == r.body.json = "all" /\ ~r.body.zeros

\* Does route call handleHook?
ReachesHook(r) == r.path = "/hook/secret" /\ r.method = "POST"

\* route: only handleHook has an effect.  The JSON may hold a PDU or not.
route(c) ==
  /\ phase[c] = "route"
  /\ \/ /\ ReachesHook(req[c]) /\ Unmarshals(req[c])
        /\ dispatched' = dispatched \cup {c}
     \/ UNCHANGED dispatched
  /\ Goes(c, "respond")
  /\ UNCHANGED <<logURL, loop, tempDelay, open, req>>

\* The only answer that may not fit in the socket's buffer: the day's log.
LongAnswer(r) == logURL /\ r.path = "/log/secret" /\ r.method = "GET"

\* The answer is written, or the connection breaks; serve returns.
Respond(c) ==
  /\ phase[c] = "respond"
  /\ Close(c)
  /\ UNCHANGED <<logURL, loop, tempDelay>>

serve(c) ==
  \/ ReadLine(c) \/ ReadHeaders(c) \/ ReadBody(c) \/ BodyBreaksOff(c)
  \/ ReadFails(c) \/ route(c) \/ Respond(c)

Next ==
  \/ \E c \in Conns : Connect(c) \/ Accept(c) \/ serve(c)
  \/ AcceptFails \/ WakeUp

Spec == Init /\ [][Next]_vars

\* The deadline fires and goroutines run.  A write ends by itself when the
\* answer fits in the socket's buffer; a longer one needs a client that reads,
\* of which nothing is assumed.  Accept does not fail for ever while a
\* descriptor is free, and serves its backlog in turn.
Fairness ==
  /\ WF_vars(WakeUp)
  /\ \A c \in Conns :
       /\ SF_vars(Accept(c))
       /\ WF_vars(ReadFails(c)) /\ WF_vars(BodyBreaksOff(c))
       /\ WF_vars(route(c))
       /\ WF_vars(~LongAnswer(req[c]) /\ Respond(c))

FairSpec == Spec /\ Fairness

-----------------------------------------------------------------------------
(* Properties.                                                             *)

\* A PDU is only taken over from a POST to the secret path whose declared
\* body has arrived entirely: one that broke off is neither completed by the
\* zero bytes nor read up to where it happens to be valid, although serve
\* ignores the error of ReadFull.
DispatchedWhole ==
  \A c \in dispatched : ReachesHook(req[c]) /\ req[c].declared = "exact"

\* Descriptors are held by running serve goroutines only: every one of their
\* returns closes the connection.
NoDescriptorLeaked == open = {c \in Conns : phase[c] \in Serving}

\* A connection ends whatever the client does or leaves undone, except for a
\* client of the log that does not read the answer.
ConnectionsEnd ==
  \A c \in Conns : phase[c] \in Serving ~>
    phase[c] = "closed" \/ (phase[c] = "respond" /\ LongAnswer(req[c]))

\* Unless the log is offered, clients that stall cannot lock the others out:
\* whoever waits in the backlog gets a goroutine, although the descriptors run
\* out and the accept loop backs off.
BacklogServed ==
  \A c \in Conns :
    ~logURL /\ phase[c] = "queued" ~> phase[c] # "queued"
=============================================================================
