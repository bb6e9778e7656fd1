# A TLA+ model of sms-relay

sms-relay runs on a cellular modem. It receives SMS-SUBMIT PDUs from the
OpenCARWINGS panel, over HTTP or over a WebSocket, and hands them to the modem
with AT commands, either through the stock `atserver` process or directly on
`/dev/rpm30`. This directory holds TLA+ models of its concurrent and failure-prone
parts, the TLC configurations that check them on small instances, and TLAPS proofs
of the main results for every value of the constants.

## 1. Inventory

| Component (source) | State | Operations | Module |
|---|---|---|---|
| Dispatch core (`main.go` 85-114, 483-646, 855-936; `ws.go` 611-675) | `lastPDU`, `lastSent` (stateMu); `consecFails`, `backoffUntil` (failMu); `modemMu`; one `sendWorker` goroutine per accepted request | `handleHook`, `handleWSRequest`, `claimPDU`, `sendWorker`, `backoffFor`, `destinationAllowed`, `normalizeMSISDN`, `pickTransport`, `watchdogLoop` | `Dispatch`, `DispatchHistory`, `Transmissions` |
| atserver transport (`main.go` 755-853) | one socket connection per AT command | `sendPDUviaATSrv`, `atSrvCmd`, `atSrvFrame` | `ATSrv` |
| WebSocket reconnection (`ws.go` 139-259, 471-555) | `attempt`, the current connection | `runWS`, `wsDial`, `wsBackoff` | `WSReconnect` |
| Device identity (`ws.go` 68-116) | the identity file | `loadWSIdentity` | `Identity` |
| WebSocket framing (`ws.go` 263-422) | `wmu`, `msgOp`, `buf` | `writeFrame`, `readFrame`, `readMessage` | `WSFrames` |
| WebSocket keepalive (`ws.go` 323-330, 557-609) | ping ticker, read deadline | the goroutine of `wsServe`, `readFrame` | `WSKeepalive` |
| Raw port (`port_linux.go`) | the descriptor, the reader goroutine, `buf` | `openPort`, `reader`, `drain`, `write`, `waitFor`, `close`, `sendPDU` | `RawPort` |
| HTTP engine (`main.go` 155-191, 352-472) | the delay of the accept loop, one connection per goroutine | accept loop of `runHTTP`, `serve`, routing | `HTTPServer` |
| PDU and payload decoding (`main.go`, `ws.go`, `port_linux.go`) | none | `decodeSubmitPDU`, `decodeCDS`, the TP-SRR patch of `sendPDU`, `wsDecrypt` | `Decoders` |
| Self-test and diagnostics | none the relay depends on | `runSelfTest`, `runSelfTestATSrv`, `dryRunCMGS`, `memlogLoop` | `runSelfTest` is a kind of session in `RawPort`; the rest is not modelled |
| Logging | log files | `logJSON`, `redact` | not modelled: output only |
| TLS roots, randomness | none | `rootPool`, `randRead` | not modelled: pure, or below the level of a model |
| Build tooling | none | `mkoverlay`, `mkca.sh` | not modelled: build time only |

How they interact: a frontend calls `destinationAllowed` and `claimPDU` and starts a
`sendWorker`; any number of workers meet at `modemMu`; the one that holds it runs a
session over atserver or over the raw port; its result goes back into the backoff
state that later workers read. The watchdog and the workers share nothing but the
existence of the atserver process. In `-mode ws` the frontend is the read loop of
`wsServe`, which `runWS` restarts after every loss of the connection and which
shares the write side of the connection with the keepalive goroutine.

What is hard here, and what makes each part correct:

- **Dispatch core.** Values are read under one mutex and used after waiting for
  another (the backoff, the transport); results are recorded after the modem has
  been released, so in any order. Correct means: sessions exclude each other, no
  accepted request is lost or sent twice, the backoff is not shortened by late
  results, only recipients with the digits of a listed number reach the modem, every
  worker ends.
- **atserver transport.** The relay's deadline races atserver's answer; a request
  outlives the client that gave up on it; closing early kills atserver. Correct
  means: "sent" is only said of an accepted PDU, a punctual atserver is never
  killed, every session ends.
- **Reconnection, keepalive.** Connections die silently in any phase. Correct
  means: no phase hangs for ever, no socket or deadline is left behind, a healthy
  session is not cut, a dead one is noticed.
- **Raw port.** The device is shared with atserver; a limit of waitFor races the
  answer; a reader goroutine may be stuck in Read when its port is closed; select
  watches only 1024 descriptors. Correct means: no goroutine reads from a descriptor
  that has become somebody else's, every "sent" rests on an SMS that left, every
  session ends, and a session in which nothing fails leaves nothing behind.
- **HTTP engine.** Clients may send anything, slowly or never; errors of ReadFull and
  Atoi are ignored; descriptors run out. Correct means: only whole requests reach the
  dispatcher, descriptors come back, stalled clients do not lock others out.
- **Decoding.** Index arithmetic over what the panel or the modem sent, the number that
  `-allow-to` is asked about included; a delivery report is read while it is still
  arriving. Correct means: exactly what the formats say, and no verdict on half a report.
- **Identity.** The process or the power may go at every step of creating the file.
  Correct means: a paired gateway keeps its identity, as far as a file that is never
  flushed can carry it.
- **Framing.** Two writers, fragments, control frames in between, a memory cap.
  Correct means: frames do not mix, messages are delivered whole and bounded, the
  keepalive goroutine does not outlive the session.

`PROJECT.json` lists every hazard at its line with the properties that cover it.

## 2. Modules and how they correspond to the code

**`Dispatch`.** The program's package variables keep their names. `mode` is the
`-mode` flag, chosen at the start. Each sendWorker has a program counter; its steps are the pieces of `sendWorker` between points where
other goroutines can interfere: read the backoff under failMu (`ReadBackoff`),
compare it with the clock (`CheckBackoff`), `PickTransport`, take modemMu
(`LockModem`), end the session and release it (`FinishSend`), log and record under
failMu (`Record`). A frontend handler is one step, because claimPDU holds stateMu and
nothing before or after it in the handler touches shared state. The result of a
session is arbitrary here; `ATSrv` and `RawPort` are about what decides it. PDUs are model
values; `Recipient` gives the address of each as it stands in the PDU, the type of number
and the half-octets, digits or not. `phone` is what decodeSubmitPDU makes of it (the type
of number is skipped), and `normalizeMSISDN` keeps the decimal digits, of the entries of
`-allow-to` too. The loop of `backoffFor` is written as its table, which is exact as long as
the cap is at most 32 times the base (in the code: 24 times, 5 min and 2 h);
`DispatchAssumption` says so. Requests that are refused change nothing but the log
and are stuttering steps; the log of the four results that account for accepted
requests is a counter per result.

**`DispatchHistory`** adds four variables that record what the program forgets: how often
each PDU was claimed and handed to the modem, how many sessions failed, and which workers
had read the backoff before it was last armed. They follow the steps and restrict none.

**`Transmissions`** adds one: when the modem took each PDU. It is there to hold the
deduplication against what the documentation says of it.

**`ATSrv`.** One session at a time (which is what `SessionsExclude` proves of Dispatch),
three commands, each `Dial`, `Receive` or `GiveUp`, with `Wake` after the gap.
atserver is external and modelled from what the comments and the use of it say: it
serves connections one by one, is told a timeout, dies of SIGPIPE when it answers a
closed connection, may die at any time, and a request it has not yet read survives the
client that wrote it. A response that breaks off after 8 bytes is returned by atSrvCmd
without an error ("cut"), a shorter one is an error ("short"). Assumption about the
outside: the answer to AT+CMGS contains +CMGS only if the modem accepted the PDU; in
particular nothing on that path echoes the command.

**`WSReconnect`.** The stages of `wsDial` and the loop of `runWS`, with the deadline of
each stage, one tick per second. Each of the eight early returns of `wsDial` behind the TCP
connection is an action of its own, so that one that forgets to close can be told from the
others. The endpoint may become unreachable, and an open
connection may die without a word. `attempt` saturates just above `AttemptCap`, from which
`wsBackoff` is constant, and the shift of `wsBackoff` is written as its table.

**`Identity`.** `loadWSIdentity` with os.WriteFile taken apart into truncation and
write. The process may be killed at any point, the power may fail (what the kernel has
not flushed is then kept, cut short or undone), and, as a constant says, os.ReadFile may
fail on a file that exists. The owner may pair the gateway as soon as the identity is
printed, flushed or not: the program never calls fsync. `undone` remembers that a power
failure has undone the file of a gateway that was already paired.

**`WSFrames`.** `writeFrame` in its three steps (lock, header, payload) for the two
goroutines that call it, and what `readMessage` does with each frame. Payloads are
lengths, and a fragment in `buf` or `delivered` is the number of its frame: `size` is the
`len(buf)` the program checks against the cap, while `end`, recorded with every frame the
server sends, says how many bytes the fragments really have. Masking and the length
encoding of the header are abstracted.

**`WSKeepalive`.** Ping ticker, pongs, read deadline. The ticker is assumed punctual
(a ping is due before time passes further).

**`Relay`** is what the dispatch core promises about a request it has accepted, without
the how: the request is turned away by the backoff or gets exactly one session with the
modem, sessions do not overlap, the reported result is the session's, and nobody is
turned away before `Threshold` sessions have failed. It has no mutexes, clock, cooldown
or transports. `Dispatch` instantiates it as `Promise`: `Slots` are the workers,
`Permitted` the PDUs to allowed numbers, and `PhaseOf` maps a worker's program counter to
the phase of its request. `ImplementsRelay` is the refinement.

**`RawPort`.** A session is the sequence of commands of `sendPDU` (with or without
`-report`) or of `runSelfTest`; each command is drain, write, waitFor. `waitFor` either
finds a token in `buf` or runs into its limit: which of the two comes first is a choice
when the fault "late" is on, otherwise the limit only passes when nothing is under way.
The reader goroutine is three steps, because the hazards lie between them: look at the
stop flag, select, Read. `close` waits for the reader, and gives up and leaves the
descriptor open when the reader does not end. Every answer remembers whose command it
belongs to, so that "the wrong answer" can be told from the right one, which the program
cannot. For a descriptor beyond the 1024 of its set, `select` is told a number of bits that
the set does not have and also reads, and clears, memory behind it. The program looks at
none of those bits, so the model has a port that is never read, or a select that fails; what
clearing that memory could do to the rest of the process is not modelled. A Write to the
device may be lost (its error is ignored: the fault "write") but is assumed not to block,
which is up to the driver: it ignores O_NONBLOCK. The modem is external: it reads one line at a time, and one that is waiting for
the text of an SMS takes the next command for that text or aborts. `SetSize` and `MaxFd`
put one port out of select's reach. Which faults (failing reads and writes, late
answers, atserver on the same device) a behaviour may have is chosen at the start from
`FaultSets`. Assumptions about the outside: the modem does not echo on `/dev/rpm30`, and
answers meant for atserver are OK or ERROR.

**`HTTPServer`.** The accept loop and one `serve` goroutine per connection, a step for each
part it reads. What the client sends is the choice of that step, a silent client is one
whose step is never taken, and the deadline of the connection may come before any of
them. A request is its method, its path, how the declared length compares with the
JSON, and what has arrived of it; the body buffer is allocated at the declared length, so
that what did not arrive is zero bytes. `Accept` may fail at any time, and does when
no descriptor is left.

**`Decoders`.** The four decoders as operators over bytes, with the index arithmetic of
the code, next to a description of the formats that does not use it (a cut of the bytes
into fields). The one variable is the input, which grows byte by byte: for a report on
`/dev/rpm30` that is what happens, because waitFor returns as soon as it sees "+CDS"; for
the others it enumerates all short inputs. A panic on an index out of range is a failure,
as the deferred recover makes it. With half a byte missing, the longest hexadecimal token
is the length in front of the report, which has no verdict either; so whole bytes are
enough.

**Proof modules.** `DispatchProofs` (about `Dispatch`, `DispatchHistory` and the refinement
of `Relay`), `ATSrvProofs`, `RawPortProofs`, `HTTPServerProofs`, `DecodersProofs`,
`WSFramesProofs`, `WSKeepaliveProofs` and `RunWSProofs` (`WSReconnect` and `Identity`, the two
parts of `runWS` outside a session) extend their components. `MCDispatch` defines the
recipients of the model-value PDUs and an allow-list, `MCDispatchHistory` and
`MCTransmissions` take them over; the other modules have integer, Boolean or plain set
constants and are run as they are.

A definition whose comment begins with "Mutant:" is a plausible wrong version of the
definition after it. It is used by no specification; it shows that the property paired
with it in `PROJECT.json` fails when the code is changed that way.

## 3. Runs

Passing runs:

| Run | Configuration | Shows |
|---|---|---|
| `dispatch` | `MCDispatchHistory.cfg` | either mode, an allow-list, `-at auto`, atserver crashing, 3 workers, 4 requests, a PDU whose address has the listed digits in another notation and one to a number that is not listed: `ModemMutex`, `Accounting`, `OnlyAllowed`, `BackoffOnlyExtended`, `OncePerClaim`, `FailsWereReal`, only workers that had read the backoff before its arming slip through (`OnlyEarlyReadersInBackoff`), every worker ends (`WorkersEnd`), and the dispatch core implements the abstract `Relay` (`ImplementsRelay`) |
| `atsrv` | `ATSrv.cfg` | an atserver that is punctual or overruns every deadline: `SentMeansAccepted`, `SparesAtserver`, `SessionsEnd` |
| `reconnect` | `WSReconnect.cfg` | the real timings in seconds: `WSTypeOK` (no sleep beyond the cap), `SocketsAccountedFor`, `Reconnects` |
| `frames` | `WSFrames.cfg` | `FramesTypeOK`, `FramesApart`, `DeliveredWhole`, `Bounded`, `PingerEnds` |
| `keepalive` | `WSKeepalive.cfg` | pongs that overlap the following pings, silent servers, stalled uplinks: `HealthyNotCut`, `SilenceNoticed` |
| `rawport` | `RawPort.cfg` | two sessions of each kind under each set of faults: `ReadersOwnTheirFd`, `EverySentBacked`, `VerdictsRight`, `LeavesNothingBehind`, `PortSessionsEnd` |
| `http` | `HTTPServer.cfg` | three clients for one descriptor, `Accept` failing at any time: `DispatchedWhole`, `NoDescriptorLeaked`, `ConnectionsEnd`, `BacklogServed` |
| `decoders` | `Decoders.cfg` | all inputs of up to ten bytes from four values: `DecodesExactly`, `ReportBitSparesTheRest`, `VerdictExact`, `VerdictStays`, `UnpadsExactly` |

Runs in which TLC refutes what the repository says of itself:

| Run | The claim | What the code does |
|---|---|---|
| `backoff_bypass` | `README.md:28`, backoff "to prevent destabilizing the cellular baseband stack" | the backoff is checked before the wait for modemMu and never again, so workers queued on the mutex start sessions while it runs |
| `duplicates` | `README.md:133`, "Minimum cooldown duration between duplicate PDU transmissions" | `claimPDU` remembers only the last PDU, so that after A, B, A the modem has taken A twice within the cooldown; and its clock starts at the claim, so that a worker that had to wait for the modem transmits right before its duplicate |
| `pace` | `ws.go:540`, "attempt only resets after a session that actually lived" | `attempt = 0` follows every successful handshake, so a server that completes handshakes and drops the connection at once is dialled every second, and the test of healthySession behind the session changes nothing |
| `identity_reread` | `ws.go:72`, "a restart keeps the same pairing" | every read error is taken for a first run and the file is overwritten |

Other things the models make visible, which the properties are worded around:

- Results are recorded after modemMu is released: the success of a session may be
  recorded after the failure of a later one, and the backoff armed by failures that were
  not consecutive at the modem (hence `FailsWereReal`, which bounds the counter).
- The transport is picked before the wait for modemMu, so a session may use `/dev/rpm30`
  although atserver is running again when it starts.
- `main.go:769` requires 300 ms between two requests to atserver. Within a session the
  relay sleeps between its requests (`Wake`); between the last request of one worker's
  session and the first of the next one's there is no gap (`StartSession` may follow at
  once).
- The identity is printed as soon as os.WriteFile has returned, and nothing flushes the
  file. When the owner pairs the gateway at once and the power fails before the kernel has
  written the file, the next start finds none and draws another identity (hence `undone` in
  `KeepsPairing`). When the file is cut short instead, every start exits.
- On `/dev/rpm30` an answer that comes after its waitFor is taken for the answer to the
  next command, and a "+CMGS" that atserver or a late modem causes may be credited to
  another session (hence `EverySentBacked`, which speaks of some acceptance of its own,
  and `VerdictsRight`, which excludes late answers and a second reader).
- Nothing discards what an earlier session has left in the device. A session whose reader
  broke off leaves its answers there, the next one takes them for its own and leaves the
  real ones, and so on: after three such sessions a fourth can find OK, OK, a prompt and a
  "+CMGS" waiting and report the SMS of the session before as its own. Two sessions do not
  show this, which is why `VerdictsRight` does not cover read errors at all; that it holds
  without them is a theorem, for any number of sessions.
- A prompt that comes too late leaves the modem waiting for text: the next session's
  commands go into that text.
- On a descriptor that select does not watch the port is deaf: the session ends at its
  limits and leaves the modem's answers in the device.
- The answer to `/log` is written without a deadline: a client that asks for it and does
  not read holds its goroutine and descriptor (hence the exceptions in `ConnectionsEnd`
  and `BacklogServed`).
- logPDUDiff's "only_tp_mr" counts differing half-octets and does not look where they
  are.
- The allow-list compares decimal digits only: decodeSubmitPDU does not look at the type of
  number, and normalizeMSISDN drops half-octets that are no decimal digits. Addresses that
  differ in nothing else are the same to it (hence `Listed` in `OnlyAllowed`).
- decodeSubmitPDU reads nothing behind TP-DCS: a PDU whose user data is cut off is accepted
  and left to the modem (`DecodesExactly` says so).
- A ping that cannot be written ends the keepalive goroutine but not the session; frames
  that arrive keep it alive, and only silence ends it (hence the second disjunct of
  `HealthyNotCut`).

Bounds and why they are enough. Three workers give a session, a worker waiting for
modemMu and one that is recording; four requests give three failures that arm the
backoff and a fourth that extends it, meets it or lifts it, in `backoff_bypass` as well,
where a worker that has ended makes room for the fourth. The clock runs past the cooldown
and the first rung of the ladder. `duplicates` has two workers and a cooldown of two ticks,
`pace` the timings of the program. `ATSrv` has three sessions, so that a
request orphaned by the first can meet the second and the restart the third; `late`, how
far atserver overruns its timeout, is chosen at the start on both sides of `Grace`, and an
atserver that is as late as `MaxLate` may never answer.
`WSFrames` has lengths below, at the sum of, and above the cap, three data frames
(abandoned start, start, continuation) and two pings. `WSReconnect` is checked with the
program's own numbers. In `WSKeepalive` a pong may take just under two intervals, the
limit `HealthyNotCut` names. `RawPort` has two sessions, so that what the first leaves
behind (an answer, a prompt, a reader, a descriptor) meets the second, and two
descriptors of which select watches one (what takes more sessions is up to the theorems:
every invariant of this run is proved for any number of them); two unread lines and one answer for atserver
are enough to put every kind of line and answer in the way. `HTTPServer` has more clients
than descriptors, and delays that double once before they meet the cap. `Decoders` takes
the byte values 0, 1 and 3 (lengths that fit, and the status values in transit) and 33
(bit 5 set, a failure, a length that does not fit); a time stamp is one byte there and
a block three, so that whole reports, two blocks of payload and odd and even numbers
fit into ten bytes; the theorems are about the lengths of the code too. Bounds are named
in the CONSTANTS of each module. Liveness is checked in the runs with workers, so none of
them uses symmetry.

Deadlock is checked except in `WSFrames` and `WSKeepalive`, which model one session
that may end with nothing to follow, in `RawPort`, where all sessions may be over with
every descriptor left open, and in `Decoders`, whose input ends.

Fairness. Goroutines are scheduled (weak fairness of each step). Go's mutex hands
itself to a waiter that has waited for more than a millisecond, hence strong fairness
of `LockModem`. A Write ends at its 10 s deadline, deadlines fire, time passes. No
fairness is assumed of atserver, of the network or of the panel, except that in
`ATSrv` time does not stand still when an answer of atserver is due, and that in
`WSKeepalive` a live server's pong arrives within `Rtt`. `FinishSend` is weakly fair
because every wait of a session has a deadline: `SessionsEnd` shows it for atserver and
`PortSessionsEnd` for the raw port. In `RawPort` a reader that polls sees data that keep
lying there although others read too (strong fairness of `readerSelects`), and the modem
answers unless "late" is on. In `HTTPServer` the read deadline fires (`ReadFails`,
`BodyBreaksOff`), short answers fit into the socket's buffer (`Respond`), the loop wakes
up, and a connection that can be accepted again and again is accepted: the backlog is a
queue. No client is assumed to send or read anything.

## 4. Proofs

All are for every value of the constants that satisfies the module's ASSUME (any finite
set of workers, any set of PDUs, any timeouts).

| Theorem | States | Argument |
|---|---|---|
| `TypeCorrect` | Dispatch is well typed | inductive as it stands; `BackoffRange` bounds the ladder |
| `SessionsExclude` | `ModemMutex` | inductive with the types; the equivalence (holder iff in session) is what makes it so, mutual exclusion alone is not |
| `BackoffAgrees` | `BackoffConsistent` | needs `BackoffMonotone`: one more failure never gives a shorter backoff |
| `BackoffNeverShortened` | `BackoffOnlyExtended` | action property; from `BackoffConsistent`: what is left is at most the rung of the current count, the next rung is at least as long and starts now |
| `AllowListHolds` | `OnlyAllowed` | inductive with the types; for any allow-list and recipients in any notation |
| `NothingLost` | `Accounting` | cardinality of the set of live goroutines: each step adds one, removes one or keeps the set (`GoroutineStarts`, `GoroutineEnds`, `GoroutineGoesOn`) |
| `SentOnlyIfAccepted` | `SentMeansAccepted` of ATSrv | inductive invariant `AnswerInv`: at most one queued request is live, it is the current session's current command, and a "+cmgs" in the open connection is an answer to it |
| `PairingKept` | `KeepsPairing` of Identity | inductive invariant `PairingInv`: once paired, and as long as reads do not fail and no power failure has undone the file since, the file holds that identity and the process is not creating another |
| `DispatchImplementsRelay` | `ImplementsRelay` | every step of Dispatch is a step of Relay or a stutter; needs the types, `ModemMutex`, `BackoffConsistent` and `PastInv`: the failure counter never exceeds the failures in the log, and a worker that has read a backoff can rely on three of them being there |
| `ATSrvTypeCorrect`, `RawTypeCorrect`, `HTTPTypeCorrect`, `IdTypeCorrect` | the modules are well typed | inductive as they stand, `HTTPTypeCorrect` with the account of descriptors |
| `PunctualSpared` | `SparesAtserver` | `PunctualInv`: with an atserver that overruns by less than the grace, at most one request is queued, it is that of the connection the relay still waits on, and the wait has not exceeded atserver's timeout plus its lateness |
| `NoForeignReads` | `ReadersOwnTheirFd` | a descriptor is closed only after its reader has ended, and open ports have different descriptors that nobody else has |
| `SentBacked` | `EverySentBacked` | every "+CMGS" in the device, in a buffer or in what waitFor returned belongs to an acceptance and exists once, whoever reads it |
| `DescriptorsAccounted` | `NoDescriptorLeaked` | every return of serve closes |
| `OnlyWholeRequests` | `DispatchedWhole` | `BodyInv`: behind a body that broke off there are zero bytes, which JSON does not allow; a shorter declaration cuts the JSON |
| `ReportsReadInParts` | `VerdictStays` | the status octet's index is computed from bytes in front of it, which appending does not change |
| `ReportKeepsRecipient` | `ReportBitSparesTheRest` | the patched PDU differs in one octet at most, and decodeSubmitPDU reads every octet but that one |
| `VerdictsExact` | `VerdictsRight` | `ReaderInv`: without late answers and atserver only the current session has a reader, it is never stuck in Read, and without read errors it lives as long as the session; `UnheardInv`: a session on an unwatched descriptor hears nothing and never gets to AT+CMGS; `PromptInv`: AT+CMGS, the PDU and the prompt are the current session's and come last, so whoever has read the prompt has read all that earlier sessions left; `PDUInv`: from there on question and answer alternate; `VerdictInv`: a verdict is given once, after the modem has decided |
| `NothingLeft` | `LeavesNothingBehind` | `ReaderInv` again (no close gives up); `TurnInv`: status reports apart, one line or one answer is under way at most; `TextInv`: the modem waits for text only between its prompt and the PDU; `FutureInv`: a port that is watched now was watched before |
| `OnlyTheQueueSlipsThrough` | `OnlyEarlyReadersInBackoff` | action property; `GraceInv`: a worker that is past the check and not among the early readers has seen the backoff that is in force |
| `NeverSentTwice` | `OncePerClaim` | inductive with the types, `ModemMutex` and `HistTypeOK`; `HistoryStep` says what a step of Dispatch adds to the counters, and sessions and workers that still have one before them are compared with the claims, PDU by PDU, by counting finite sets |
| `FailuresAreReal` | `FailsWereReal` | `FailsInv`: the counter and the failures not yet recorded are at most the failed sessions in the history |
| `FramesTypeCorrect`, `WSTypeCorrect` | `FramesTypeOK`, `WSTypeOK` | the first inductive as it stands, the second with `DelayInv` |
| `WritersApart` | `FramesApart` | `WireInv`: who is between lock and unlock holds wmu, and a frame without its payload belongs to the holder |
| `MessagesWhole`, `MessagesBounded` | `DeliveredWhole`, `Bounded` | `ReassemblyInv`: while the loop reads, `buf` holds the latest data frames without a gap, from the last start frame on, and `size` is their length; what the program counts is what it keeps |
| `HealthySessionKept` | `HealthyNotCut` | `BeatInv`: either all pings are answered and the silence is no older than the ticker, or some ping of age a is on its way and the silence is at most a plus one interval; with answers in less than two intervals that stays below three |
| `SocketsClosed` | `SocketsAccountedFor` | inductive as it stands |
| `BacksOff` | `GrowsWhileDialling` | action property; `BackoffGrows` (the table is monotone and capped) and `DelayInv`: outside a session the last delay is at most that of the current attempt |
| `VerdictsByFormat` | `VerdictExact` | the format is a cut of the bytes into fields; `OneCut` and `NoCut` show that there is at most one and that it lies where the index arithmetic of decodeCDS says |
| `RecipientByFormat` | `DecodesExactly` | the same for decodeSubmitPDU: `AddressOf`, `SwappedDigits` and `PartOf` say what the slices of the code hold |
| `PaddingByFormat` | `UnpadsExactly` | `PaddedTail`: the last byte determines the padding; `DivMod` and `ModUnique` for whole blocks of any size |

`BackoffConsistent`, `GrowsWhileDialling`, `KeepsPairing` and the type invariants other than
`FramesTypeOK` and `WSTypeOK` are proved and not repeated by a run.

Every safety property that a passing run checks, invariant or action property, is also a
theorem. Model-checked only are the liveness properties, because fairness and ENABLED are
outside the prover's reach: `WorkersEnd`, `SessionsEnd`, `Reconnects`, `PingerEnds`,
`SilenceNoticed`, `PortSessionsEnd`, `ConnectionsEnd` and `BacklogServed`. The theorems speak
of the specifications without fairness and so hold under it too.

The proofs assume the ASSUME of each module and no more. `RawPortAssumption` asks for room
for one unread line (`MaxLag`), which the device has; without it nothing is ever sent.

## 5. Not modelled

- The restart of the relay: cooldown, failure counter and backoff live in memory and are
  forgotten by design. The one thing that outlives a restart is the identity file
  (`Identity`).
- `runSelfTestATSrv` and `dryRunCMGS` repeat the requests of `ATSrv` in a diagnostic mode
  that excludes the relay; `memlogLoop` and the thread counters only print.
- Logging; TLS roots and `randRead` (a pure union of certificates, and a workaround below
  the level of these models); the build tooling; `port_other.go`, a stub that fails.
- The byte layout of `atSrvFrame`, of WebSocket headers and masks; the cipher and the
  hexadecimal and JSON decoders, which are libraries.

What could follow: `Dispatch` composed with the sessions of `ATSrv` and `RawPort` in place
of `FinishSend`'s arbitrary result; an abstract specification of a transport that both
implement, with the refinements proved.
