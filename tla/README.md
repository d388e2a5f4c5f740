# A TLA+ specification of AgentFence

AgentFence is a policy gate for AI agents that call tools over MCP
(JSON-RPC).  It sits between an agent and a tool server, evaluates every
`tools/call` against a policy, asks an operator where the policy says `ask`,
writes an audit record, and only then forwards the call or refuses it.  It also
remembers what tool results said ("taint") so that a later call whose argument
comes from such a result is not let through on the policy's word alone.

The modules here are written from the Go source under `src/`.  They concern
what a test of that source hardly reaches: two relay goroutines and several
request handlers that interleave at every lock and write, prompts that time out
while someone is typing, log writes that fail half way, processes that die
between two system calls, policy files that import one another, callers that
change a map while it is being evaluated.

Contents: 1 the system, 2 the plan, 3 modules and code, 4 runs, 5 fairness,
6 proofs, 7 findings, 8 what is not modelled.

## 1. The system

| Component (source) | State | Operations | What makes it correct |
| --- | --- | --- | --- |
| stdio proxy (`internal/proxy/proxy.go`) | two relay goroutines, the in-flight map `pending`, the pipes, the subprocess | `Run`, `relayAgentToSub`/`processAgentLine`, `relaySubToAgent`/`observeResult` | settled, audited, then forwarded; one answer per request; replies attributed to their calls; lines and frames get through |
| evaluation session (`internal/engine/engine.go`) | the engine (immutable) and the taint tracker | `Session.Evaluate`, `ObserveResult` | a derived call is escalated or denied, whichever goroutine is ahead |
| taint tracker (`internal/taint/taint.go`) | `sources`: fragment -> tool, bounded | `Observe`, `Check` | first writer wins, the source is the tool that returned it, bounded growth |
| approval resolution (`internal/approval/approval.go`) | none | `Resolve` | exactly one outcome, anything but an approval denies |
| TTY approver (same file) | mutex, shared line reader, `pending` read | `Request`, `discardStalePending` | a yes decides the call it was typed for; one read at a time has the terminal; a Request returns once its turn has come and its context ends |
| audit writer, rotator, verifier (`internal/audit/audit.go`, `rotate.go`, `verify.go`) | `seq`, `prevHash`, the active file and the rotated segments | `Write`, `maybeRotate`, `prune`, `Sync`, `Close`, `ResumeState`, `VerifyChain` | damage is not reported as tampering, no gaps, acknowledged events survive |
| audit destination set-up (`openAuditOutput` in `cmd/agentfence/main.go`) | the closers | open, resume the chain, refuse a mixed log | the chain is continued from what is on disk |
| audit sinks (`internal/audit/sink.go`) | a bounded channel, a batch, a drop count | `Emit`, `Close`, the delivery loop | never blocks the writer; accepted events are drained at Close |
| HTTP proxy (`internal/httpproxy/httpproxy.go`) | one handler per request; one session, approver and audit writer shared by all | `ServeHTTP`, `handleBatch`, `forward`, `Serve` | as the stdio proxy, with concurrent requests; a batch goes whole or not at all; a signal ends the process and a shutdown in time loses no event |
| bound evaluation (`internal/engine/binding.go`, `internal/policy/snapshot.go`, `digest.go`) | the copies of call and policy | `EvaluateBound`, `SnapshotToolCall`, `SnapshotResolvedPolicy` | a decision is that of the digests it carries, whatever its caller does meanwhile |
| approval binding, requests and one-shot permits (`internal/approval/request.go`, `binding.go`) | consumed flag, expiry | `NewBoundRequest`, `NewOneShotPermit`, `Consume` | the operator sees what was evaluated; an approval is used once, for that action, in time |
| policy engine (`internal/engine/engine.go`) | the policy, sorted names | `lookupRule`, `evaluateDecisionCore`, constraints | one rule decides, the same every time; a missing or misshapen argument is refused |
| policy loading and imports (`internal/policy/policy.go`) | none | `loadResolved`, `mergePolicy`, `applyDefaults`, `ValidateFileStrict` | the last layer wins key by key, switches only turn on, validation agrees with loading |
| check command (`cmd/agentfence/main.go`) | counts, the line in hand | `runCheck`, `resolveAsk` | exit code, summary, log and sink agree, whatever fails |
| audit anchors, signing, summaries; tool identity lock; redaction of arguments; metrics and operational log; interop, packs, demo; command line and evidence report | none a decision reads | pure functions and I/O | - |

How they interact.  `main` opens the audit destination (`openAuditOutput`), the
approver and the engine, and starts one proxy.  The stdio proxy's two goroutines
share one `Session` (the tracker's mutex), one `pending` map (`pendingMu`) and
one `lockedWriter` to the agent.  Only relay A calls the approver and the audit
writer.  In the HTTP proxy every request is a goroutine, and all of them share
the session, the approver (its mutex is held while the operator thinks, and
waiting for it ignores deadlines) and the audit writer (its mutex is held
through rotation and fsync).  The writer hands each committed line to the sinks,
whose delivery goroutine runs on its own.  On a signal the context is cancelled;
the closers run after the proxy returned.

What is hard: the order of "observe" and "relay" in one goroutine against
"evaluate" in the other; "remember" against "forward"; a prompt's deadline
against a late answer, and the terminal read that cannot be cancelled; a failure
or crash between any two of the system calls of a rotation; torn lines and the
restart that appends behind them; `Close` against a `Write` still running; a
result that is with the client before it is remembered.
`PROJECT.json` lists each hazard at its line with the property that covers it.

## 2. The plan

Written, in this order: `Gate` and `StdioProxy` (the core of the program);
`AuditLog`; `TTYApproval`; `HTTPProxy`; `PolicyFiles`, `PolicyEngine`,
`AuditSink` and `CheckCommand`, which composes the three; `BoundApproval`, which
builds on the engine.  Then the proofs, one module for each but `Gate` and
`AuditSink`, whose part is proved with the modules that use them:
`StdioProxyProofs`, `TTYApprovalProofs`, `HTTPProxyProofs`, `AuditLogProofs`,
`PolicyFilesProofs`, `PolicyEngineProofs`, `CheckCommandProofs` and
`BoundApprovalProofs`.  Every safety property of a passing run is a theorem:
the invariants, the action property `AppendOnly` and both refinements of `Gate`.

What is left:

1. That the events the sink dropped are exactly those that met a full channel,
   which needs a history of the channel's length.
2. Three hazards have no property: a client that reuses an id while its call is in
   flight (`proxy.go:272`), the in-flight map that keeps the ids of failed calls
   (`proxy.go:462`), and the order by name in which segments are pruned
   (`rotate.go:189`).  The first needs `sent` with repeated ids and an attribution
   that is allowed to fail; of the second the code promises nothing; the third
   needs a clock in the segment names.
3. A tracker that splits texts into tokens and matches substrings.
4. Liveness stays with TLC.

No module declares a `RECURSIVE` operator; the walks over imports are recursive
functions.

## 3. Modules and code

**`Gate`** is the promise every transport makes: each call is settled once as
allow or deny, then offered once to the audit trail (which keeps the settled
decision or loses it), and passed on at most once, only if allowed and only
after the trail had its turn.

**`StdioProxy`** is `proxy.go` with the session, tracker and `Resolve` it calls.
`pcA` and `pcB` are the places where the two goroutines stand; a step ends where
another goroutine can see or change something: a lock, a write, a read.

| Code | Actions |
| --- | --- |
| `scanner.Scan`, `ParseRequest`, `ParseToolCallParams` | `ScanLine`, `ScanEOF` |
| `Session.Evaluate`, `applyTaintEscalation` | `Evaluate`, with `Tainted`, `Escalated` |
| `approval.Resolve` and the approver | `OperatorAnswers`, `ApprovalExpires`, `ApprovalCancelled`, `ApprovalRefused`, all by `Settle` |
| `AuditWriter.Write` | `Audit`, which may fail |
| `rememberPending` | `Remember` |
| `writeLine(subStdin)`, `writeResponse(agentStdout)` | `Forward`, `Refuse`, which fail when the other end is gone |
| `Scan`, `ParseResponse`, `takePending` | `ScanFrame`, `ScanFrameEnds` |
| `ObserveResult` | `Observe` |
| `writeLine(agentStdout)` | `Relay` |
| the client, the server, the signal | `AgentSends`, `AgentCloses`, `SubReplies`, `SubExits`, `Signal` |

A message is its kind (`call`, `malformed`, `other`, `oversize`), id, tool and
one argument value.  Taint is about values: an argument is tainted if it is a
remembered value; `derived` marks an argument the agent had received when it
wrote the line.  `verdict`, `approved`, `seen` and `answers` are history
variables: no guard of the program reads `verdict`, `approved` or `answers`, and
`seen` only labels what the agent sends.

**`AuditLog`** is `Writer.Write` cut at its system calls, the rotator inside it,
the files, `verifyChain` and the part of `openAuditOutput` that picks a log up.
A file is its complete lines, what follows the last newline (`tail`), and how
many lines are on stable storage.  Each event's id stands for the hash its writer
gave it.  `verifyChain` does not hash the line it reads but the event it decodes
from it; `Inexact` is the set of events for which that is another hash, because a
number in their arguments is not what float64 makes of it.  Only `agentfence
check` under `audit.include_redacted_arguments` writes such an event: it keeps
numbers as `json.Number`, where the proxies decode them to float64 at once.
`BeginWrite`, `NotDue`, `CloseSegment`, `RotatorClosed`, `Rename`, `Reopen`,
`Prune`, `Appended`, `AppendFailed` and `Sync` follow `Write` and `maybeRotate`
in order, with each failing outcome; `Close` may come in between, as a closer
does that does not take the writer's mutex; `Exit` and `PowerLoss` end the
process anywhere.  `Remains` says what a power loss leaves: synced lines stay,
of the others a prefix, possibly with a torn line.  `torn` picks once and for
all whether the file system tears lines, so that properties can tell the two.

**`TTYApproval`** is `TTYApprover.Request`: `Lock`, `TooLate`, `Begin`, `Drain`
and `DrainEnds` (`discardStalePending`), `Prompt`, `Answered`, `GiveUp`, and the
goroutine that reads one line (`Read`).  Input that ends in the middle of a line
(`HangUp` with a last `TypeLine`) is read as that line, so a `y` without its
newline approves.  A line typed carries the prompt it was
meant for, which the code cannot see and `NoLateApproval` is about.

**`HTTPProxy`** is `httpproxy.go` and the end of `runProxyHTTP`.  `pc[r]` is
where the handler of request `r` stands, `at[r]` the member of its batch in hand.

| Code | Actions |
| --- | --- |
| `ServeHTTP` up to the first `Evaluate`: bearer token, method, size, `IsBatch`, `ParseBatch`, `--on-batch`, `--on-unparsed` | `Arrive`, with `Refused` and `Malformed` |
| `Session.Evaluate` (of a lone call, of each member) | `Evaluate`, `AfterEvaluate`, `NextMember`, `Continue`, `Blocked` |
| `approval.Resolve`, `TTYApprover.Request` | `Prompt` (the terminal's mutex, which `prompting` holds), then `OperatorAnswers`, `ApprovalExpires` (a batch has no deadline) or `ApprovalCancelled` (the client hung up); `ApprovalRefused` without a terminal |
| `AuditWriter.Write`, under its mutex | `Audit`, which takes `writing` and may fail, and `Emit`, which hands the line to the sink |
| `forward`, `flushCopy` | `Forward`, `Stream` (the client has the text), then `EndOfBody` or `Truncated` (the copy returns, the result in what was captured or not) |
| `observeResponse`, the handler's return | `Observe` |
| `signal.NotifyContext`, `Serve` | `Signal`, `Drained`, `Deadline`, `ListenFails` |
| `closeAll`, the exit | `CloseFile`, `CloseSink`, `Exit` |

After `Deadline` the handlers that are left keep running under the closers until
`Exit`; an `Audit` on the closed file fails, as `os.File` does.  A lone call is
settled before it is audited; in a batch the event is written first, as
`handleBatch` does, so an ask stays in the log as an ask.

A result is with the client from `Stream` on: with a `Content-Length`, which
`forward` copies, that is the whole response, and the handler observes it two
steps later.  Only a chunked response shows its client when that has happened:
`net/http` writes the last chunk after the handler has returned.  `seen` has the
texts clients have, `given` those whose handler returned having parsed them;
`heard[r]` and `known[r]` are the two as request `r` was sent.  These four,
`verdict`, `approved`, `upstream` and `answer` are history.  A response cut
short may still be observed: of an event stream, the events that were complete.

**`PolicyFiles`** is `policy.go` on a tree of files: `ParsePolicy` with
`ApplyDefaults`, `ImportError` and `OpenError` for what the walks refuse,
`MergePolicy`, `LoadFile`, and `ValidateFileStrict` with the rules of
`ValidateStrict`.  A walk is a recursive function over the paths of files from
the root: the last file of a path is the one being read, those before it are the
stack, and its length is the depth, which `MaxImportDepth` bounds as the code
does.  `Resolved`, `Inherited` and `Layered` are one call of `loadResolved`, its
loop and one turn of the loop; `Errors` is one call of `validateFileStrict`.  An
error is its kind.

**`PolicyEngine`** is `engine.go` without a session.  `NameOrder` is the string
order of the names, and `FirstName` takes the first as the sorted lists of
`precomputeLookup` do.  A constraint evaluator is
a list of checks in the order the code makes them, and `FirstRefusal` gives the
reason code.  The constants `Text` and `Globs` say what the checks read off a
text (its cleaned path, whether it is unsafe, its URL's scheme, its first token,
its size) and which patterns match it, instead of spelling it out.  A digest
is the value it is taken over, so two digests are equal exactly if those are.

**`AuditSink`** is `asyncSink`; `Receive`, `Flush`, `Deliver` and `Drained` are
its goroutine.  **`CheckCommand`** is `runCheck` over both: `LoadPolicy`,
`OpenAudit`, `Prepare`, then for each line `ScanCall` or `ScanBadLine`, the
approval if the policy asks, `WriteEvent`, and at the end `AllLinesFailed` or
`Finish`, and `CloseAudit`; each with the ways it fails (`OpenFails`,
`PrepareFails`, `ScanFails`, `WriteFails`, `SummaryFails`).  `job` is the
command line, the policy files and the input, chosen once.

**`BoundApproval`** cuts `EvaluateBound` where it reads the caller's call and
the engine's policy, and lets their owner change both between any two reads
(`EditCall`, `EditPolicy`).  `NewBoundRequest` reads the call again; `Answer` is
the operator; `Present`, `Check` and `CompareAndSwap` are `Consume`, cut before
the atomic operation, by an executor that presents a permit for whatever call it
is about to make under the policy it finds, at a time it read earlier.

The modules named `MC...` give the constants values.

Definitions marked `Defect` in a comment are not part of any specification.
Each is a plausible bug in the code the next definition models, and each
property is checked to fail when that definition is replaced by it; the pairs
are the `mutants` of `PROJECT.json`.

## 4. Runs

| Run | Checks | Bounds |
| --- | --- | --- |
| `stdio_proxy` | `TypeOK`, `LogOrderedAndExplained`, `DerivedCallsNeedApproval`, `TaintSourceReal`, `OneAnswer`, `PendingIsACall`, `LinesDealtWith`, `FramesRelayed`, `HangUpReturns`, and that the proxy implements `Gate` | 2 lines, 2 ids, 3 tools, 1 value, 2 configurations; 560 thousand states |
| `stdio_signal` | `SignalStopsRelay` is violated | 1 line |
| `audit_log` | `TypeOK`, `NoFalseAlarm`, `NoGaps`, `AckedSurvives`, and the action property `AppendOnly` | 3 writes, 3 processes, `Keep` = 1, the second event inexact; 93 thousand states |
| `audit_retry` | `RetriesKeepChain` is violated | as above, always tamper-evident, all exact |
| `audit_numbers` | `HashedAsWritten` is violated | the first event inexact |
| `tty_approval` | `TypeOK`, `NoLateApproval`, `OneReader`, `RequestsReturn` | 3 calls, one line per prompt; 47 thousand states |
| `tty_late` | `NoLateApproval` is violated when operators type ahead | 2 calls |
| `http_proxy` | `TypeOK`, `BatchAllOrNothing`, `OneExplainedEvent`, `OverResultsTaint`, `DrainedShutdownKeepsEvents`, `LoneCallsSettled`, `SignalEnds`, and that lone calls go through `Gate` | 2 requests, 3 tools, 1 value, 10 bodies, 2 configurations; 620 thousand states |
| `http_stream` | `StreamedResultsTaint` is violated | 2 reads |
| `http_ask` | `AskBounded` is violated | a lone call and a batch that both ask, with an approval timeout |
| `check_command` | `TypeOK`, `LastLayerWins`, `ValidateAgrees`, `RulePrecedence`, `ConstraintsFailClosed`, `EventsExplained`, `ExitAgreesWithLog`, `SinkMirrorsLog`, `CheckEnds` | 408 trees of files, 432 calls under rules of every kind, inputs of 3 lines with a buffer of 1 and batches of 2; 270 thousand states |
| `bound_approval` | `TypeOK`, `DecisionFromEvidence`, `OperatorSeesEvidence`, `OneApprovedRun` | 1 request, 2 executors, 4 calls, 3 policies, 3 instants; 440 thousand states |

Why the bounds are enough.  *stdio*: relay A has one line in hand and relay B
one frame; two lines are what a derived call needs (the call whose result it
quotes, and itself), what a misattributed reply needs (two calls in flight, two
ids), and what order in the log needs.  The three tools are one per static
decision, and the engine's decision enters nowhere else.  The one value is long
enough to be tracked (the filter by length is a set, `Trackable`, and the proofs
are for any); `MaxTracked` = 2 is not reached here, so the excuse `TrackerFull`
in `DerivedCallsNeedApproval` is never used by the run, and the passing result
is about a tracker with room.  *Audit*: three writes give a segment, its
successor and one more beyond `Keep` = 1; three processes give a restart on what
a restart left.  The flags change from start to start: tamper-evident with
rotation and fsync, tamper-evident on a plain file, and rotation without a
chain.  *TTY*: the third call is the one that meets the read two calls back.

*HTTP*: two requests are what a race in the writer needs, what a derived call
and its source need, and what a batch whose prompt stays open needs to hold up a
lone call (`http_ask`; `LoneCallsSettled` excepts exactly that).  The bodies
have a batch that is let through, one whose first member is refused, one whose
second is malformed, and every early refusal.  One configuration is attended,
escalates and evaluates batches, with a sink; the other is unattended, denies
and rejects them, with a token.
*check*: the trees have every shape up to depth three with two imports - a
diamond, a shared child, a chain at the limit and one beyond it, a cycle, an
escape, a missing file - with four good and nine wrong policies in them; a scalar
is set in several layers, and unset.  The calls go through every check of every
evaluator with the argument good, bad, empty, missing, null or no string.  The
runs have an operator, none, or a dry run, with any three lines of four kinds
(one allowed, one asked about, one denied, one that does not parse); three is
what makes a buffer of one overflow during a flush of a batch of two.
*bound*: a request and the policy change at most between four readings, two
executors race for one permit; requests do not share state but the policy, so
one is enough.  Executors are symmetric.

Deadlock is checked everywhere but in `AuditLog`, where the operator may leave
the process down and nothing more happens.  `StdioProxy` stutters once `Run` has
returned (`Terminated`), and `TTYApproval` once every call is answered (`Quiet`).

The properties in words are in comments above each definition.

## 5. Fairness

*stdio*: weak fairness for each relay goroutine as a whole - the Go scheduler
runs a goroutine that can run - and for the kill of the subprocess by
`exec.CommandContext` once the context is cancelled.  A deadline that was set
(`--approval-timeout`) passes, which is why the attended configuration of
`stdio_proxy` has one: without it `LinesDealtWith` rightly fails, for an
unanswered prompt holds up relay A.  Nothing is assumed of agent, server or
operator: they may stop at any moment and for ever.  *TTY*: each goroutine runs,
contexts end, and `sync.Mutex` does not starve a waiter (a call locks it once,
so weak fairness suffices).  Nothing is assumed of the operator.
`RequestsReturn` is then about returning in the end: a Request that waits for
the mutex returns after those before it, not by its own deadline.  *HTTP*: a
handler whose next step is the proxy's own takes it, and `Serve` with what
follows it goes on once it is signalled.  Nothing is assumed of clients, the
upstream or the operator, so a forwarded request may hang and a batch's prompt
may stay open.  `SignalEnds` holds beside them, and `LoneCallsSettled` of
behaviours in which no batch's prompt keeps the terminal from some time on; that
is a condition in the property, not fairness, and `http_ask` shows what happens
without it.  *check*: `runCheck` runs when it can, deadlines expire, and so does
the sink's goroutine (its ticker fires, its deliveries time out).  `FairSpec`
spells out `WF_vars(Check)` with `~CheckWaits` for `ENABLED <<Check>>_vars`,
because evaluating `ENABLED` over the whole loading of a policy is too slow;
`CheckWaits` lists what `runCheck` waits for: an operator without a deadline,
and the sink it closes.  `BoundApproval` and `AuditLog` have no liveness
property: nobody is obliged to write or to execute.

## 6. Proofs

TLAPS proves every invariant of the passing runs, the action property
`AppendOnly` and the two refinements of `Gate` for all values of the constants
that meet the named assumption of the module: any number of lines, requests,
calls, writes or processes, any policy, any tree of files.  The assumptions fix
the kinds of the constants, that markers such as `None`, `NoId`, `Empty`,
`Absent` differ from real values, and: `EngineAssumption` that names are not
empty, that `NameOrder` lists none twice and that a URL's form and a size are
what the checks expect of `Text`; `JobsAssumption` that policies and imports are
well-formed trees whose names are in `NameOrder` and that calls have texts in
`Text`; `BoundAssumption` that the policies an owner may set have the fields of
`Policy`, and `VocabularyAssumption` that those policies and the calls speak of
nothing but `NameOrder` and `Text`.  TLC evaluates each of them in the runs.

Each component's argument is an invariant that a step preserves, proved action by
action; the parts below are the definitions of its proof module.

**`StdioProxyProofs`**
- `TypeCorrect`.  `TypeOK` alone is not inductive: a step reads `sent[nread]` or
  the reply in hand, so `TypeInv` adds `InHand` (relay A past its scan has a line, a
  call where it handles one, a final decision where it audits; relay B has a frame)
  and `Flow` (the subprocess was given, and answers, only lines relay A has
  scanned and only those with an id).
- `Refinement`: `Spec => GateSpec`.  The mapping takes `verdict` for itself, the
  trail from `log` and `lost`, and `passed` from the call lines in `subIn`.
  `GateInv` adds that lines not yet scanned are untouched and, in `Stage`, how far
  the line in hand has come at each value of `pcA`: that is what makes "once"
  true of each of the three steps.  `Evaluate` or `Settle` settles a call, `Audit`
  records it and `Forward` passes it on; every other step stutters.
- `LogCorrect`.  `LogInv` adds `Reasoned`: the reason code relay A holds agrees
  with the decision, the static rule and the approvals.
- `PendingIsACallCorrect`.  `PendingInv` adds `IdsNameLines`: ids name lines.
- `OneAnswerCorrect`.  `AnswerInv` adds `FramesReal` (frames under way answer
  lines the subprocess was given) and `Answered`: a line relay A answers itself is
  not on the wire, and an answer by the subprocess has been replied.
- `TaintSourceRealCorrect`: a tracked value is the text of a reply to a call of the
  tool it is attributed to.  `WireInv` adds that a line is on the wire once
  (`OnceOnWire`), that its call is in `pending` until its frame is taken
  (`InFlightNoted`), and so the tool taken for a frame is its call's
  (`SourceReal`).  `InFlightNoted` is where "remember before forward" enters.
- `DerivedCallsNeedApprovalCorrect`.  `TaintInv` adds that what the agent has
  received, and the text relay B is about to pass on, is tracked or the tracker is
  full (`SeenKnown`): "observe before relay" in relay B, whatever relay A does.
- `TrailLeadsWireCorrect` says more than a run asks: lines reach the subprocess in
  the agent's order, which is the log's, and once anything of a call or of a later
  line shows at either end, the trail has had that call.  `TrailKeepsUp` (no line
  is scanned while a call's audit is open) is where relay A's being sequential
  enters, and `WireInOrder` is preserved because the line relay A writes is the
  last it scanned.

**`HTTPProxyProofs`**
- `TypeCorrect`, with `InHand(r)` for each handler.
- `OneExplainedEventCorrect`, `BatchAllOrNothingCorrect`.  `CallInv` says, in
  `Progress(r)`, how far each member of a request has come: those before the one
  in hand are allowed and recorded, those behind it untouched.  A handler moves the
  calls of its own request only (`OthersUntouched`, `OtherMembers`).
- `AnswersAgreeCorrect` says more than a run asks: what a client is told agrees
  with the verdicts on its calls and with the trail.  `Told(r)` ties each answer to
  the member the handler stopped at: a reply or a failure to the end of the batch,
  `blocked` to a denied member, `refused` to members nobody evaluated.
- `Refinement`: lone calls go through `Gate`, of any number of requests at once.
  A handler's step changes the mapped state at its own call only
  (`StepMapsByOneCall`), so the interleaving needs no case of its own.
- `OverResultsTaintCorrect`.  `TaintInv` says that every text whose handler has
  returned having parsed it is tracked or the tracker is full, and that a call
  that was let through, or has passed `Evaluate` under `deny`, was clean when it
  was evaluated.
- `DrainedShutdownKeepsEventsCorrect`.  `DrainInv` says that past a drained
  shutdown every handler is idle, and that an event not yet with the sink is in
  the hands of the handler that emits it.

**`TTYApprovalProofs`**
- `TypeCorrect`, with the mutex held exactly from `Lock` to `Return`.
- `OneReaderCorrect`.  `ReadInv` adds `ReadsOwned`: a read goroutine belongs to
  the prompt that waits or to `pending`, it sends once, and `pending` is empty
  whenever a prompt is open.  That last part is what `discardStalePending` is for,
  and with the mutex it leaves room for one read.
- `NoLateApprovalCorrect`: assuming `~TypesAhead`.  `LateInv` adds `LinesMatched`:
  at most one unread line, meant for the one read that waits; a prompt whose read
  is over gets no further line.  `tty_late` shows that the assumption cannot be
  dropped.

**`AuditLogProofs`** has one invariant, `LogInv`, for all five theorems.  Every
file on the disk is `Healthy`: its entries are `Sane` (an entry that is chained
to anything but its predecessor comes behind one that is `Broken`, corrupt or
unhashed; a file is chained from its first line on or not at all; numbers follow
one another), and torn lines occur only where the file system tears.  `Counted`
bounds numbers, lines and rotations by the writes; `Rotating` says what the file
is at each system call of a rotation; `Linked` says that `seq` and `prevHash`
are those of the last line of an undamaged file, which is what the next append
relies on; `AckedKept` says where an acknowledged event is, and that a synced
one is in the durable part.
- `NoGapsCorrect` and `NoFalseAlarmCorrect` follow from `Healthy`, whichever
  events are `Inexact`; `AckedSurvivesCorrect` from `AckedKept`.
- `AppendOnlyCorrect` is about steps.  Those that write to the active file, flush
  it or create it only make it grow (`Grows`); `Rename` moves it to a number no
  segment has; `Prune` takes no segment among the `Keep` newest (`ExpendableOld`);
  and what `Remains` leaves after a power loss is a prefix with all synced lines.

**`PolicyFilesProofs`** concerns `LoadFile` and `ValidateFileStrict` on any tree.
The walks are recursive functions over paths.  That they exist is shown level by
level from the limit of depth up (`WalkExists`), and what they return by induction
the same way (`WalkInduction`): were a claim false of some path, it would be of a
deepest one (`LeastNat`), whose children are fine.
- `LoadedParsed`: a policy that loads is the result of a parse and has only names
  of its files.  Parsing it again (`SnapshotPolicy`) changes nothing.
- `WalksAgree`: validation accepts exactly the trees that load and whose files, in
  the order of the walk, all pass `ValidateStrict`.
- `LayersWin`: the policy is its files laid one over the other in that order.  Per
  field, the last file to set it counts (`LastSet`), a key's value is that of the
  last file with the key (`KeysLast`), patterns are joined (`Joined`) and flags
  only turn on.  Each of these turns a concatenation of lists into a merge of
  policies (`WinsMerge`), and the defaults applied again at each level are already
  there (`Settled`, `DefaultsAbsent`).

**`PolicyEngineProofs`** has the lemmas the two clients need.  `LookupIsFirst`: the
rule is that of the tool's name, else the first matching group's, else the first
matching pattern's.  For each evaluator, what a call meets that it does not refuse
(`PathRefusals` to `MemoryRefusals`, and `EvaluateDecides` for the whole
decision).  `SameDigestSameDecision`: two bound evaluations, of any two calls by any
two policies, that carry the same action digest and the same policy digest agree
in decision, reason code and rule.  The digest of a policy is that of its snapshot
(`SnapshotIsDigest`: setting the defaults again changes nothing), which is the
policy that decides, and no check looks at the id, which the digest of a call
leaves out.

**`CheckCommandProofs`** proves one invariant, `Inv` (`Invariance`), of eight
parts, which TLC has checked on the jobs of `check_command`: the policy in use is
parsed and compiles (`PolicyInv`); the log holds the lines scanned, but for the one
in hand (`LineInv`), which was decided on its own call (`HandInv`); the counts are
those of the log (`CountInv`), the exit code and the summary those of the counts
(`OutcomeInv`); every event is explained by its line (`ExplainInv`); and the events
of the log are, each in one place and in order, in the sink's channel or batch,
delivered, failed or dropped (`SinkInv`, `MirrorInv`).
- `TypeCorrect`, `EventsExplainedCorrect`, `ExitAgreesWithLogCorrect` and
  `SinkMirrorsLogCorrect` are read off it; `RulePrecedenceCorrect` and
  `ConstraintsFailClosedCorrect` with the engine's lemmas.
- `Loads`: past `LoadPolicy` the policy is `LoadFile(job.fs)`.  With it
  `ValidateAgreesCorrect` is `WalksAgree`, and `LastLayerWinsCorrect` is
  `LayersWin` with `LastSetIs` and `KeysLastIs`.

**`BoundApprovalProofs`** has one invariant, `BoundInv`, for the properties of
`bound_approval`.
`Evidence(r)` says what each copy is at each stage (the copy of the policy is its
own effective policy, since applying the defaults twice is applying them once; a
request describes the action its event was decided on), `Held(h)` what an
executor has when it has presented, checked or is about to swap, and `Ran(r)` that a
request is consumed exactly if its permit has run once, within its interval.
Nothing in it mentions the caller's call or the engine's policy, which their owner
may change at any moment: that is the point of the copies.
Two theorems join it to the engine's lemmas and say what a decision is worth.
They need a second invariant, `Grounded`: the copy that decides is of a parsed
policy whose names are in `NameOrder` (`InForce`), and an event that is no denial
is what that policy says of one of the calls (`Founded`).  `Sanctions(p, c, key, d)`
says that `key` is the rule policy `p` has for call `c`, that it says `d`, and that
the call meets each of its constraints (`Passes`).
- `DecisionsSanctionedCorrect`: `EvaluateBound` allows or asks only as its evidence
  sanctions, for a call with the digest it names.
- `RunsSanctionedCorrect`: so does what runs under a permit, in the policy found as
  the permit was presented: an approval never stands in for a constraint.

Only model-checked: the liveness properties `LinesDealtWith`, `FramesRelayed`,
`HangUpReturns`, `RequestsReturn`, `LoneCallsSettled`, `SignalEnds` and `CheckEnds`,
because fairness and `ENABLED` are outside the prover's reach; and the violated
properties of section 7, which are false.  The induction theorems of the library,
which take an operator as a parameter, are not used: induction is by least
counterexample.

## 7. Findings

- A signal does not stop the stdio relay.  `docs/threat-model.md` says that on a
  signal "the relay stops"; `relayAgentToSub` stays in `Scan` until the agent
  closes or writes (`stdio_signal`).
- An HTTP result reaches the client before it taints.
  `docs/threat-model.md:175-178` says a result streamed over SSE taints later
  calls the same way the stdio proxy's results do; `httpproxy.go:552` relays it
  first and 554-556 observes it afterwards, so a derived call sent in between is
  evaluated untainted (`http_stream`).  Buffered responses are no exception: the
  client has the whole of one, by its `Content-Length`, before it is observed.
- `--approval-timeout` does not bound every prompt.  `httpproxy.go:126-128` says
  it bounds how long a single ask may wait; a batch asks without a deadline
  (`httpproxy.go:457`) and keeps the terminal's mutex, whose `Lock` looks at no
  context (`approval.go:229`), so a lone call behind it is never decided while the
  operator is silent (`http_ask`).
- The verifier rejects logs nobody touched.  `verify.go:183-184` re-computes an
  event's hash "exactly as the writer did", from the event it decoded.  A
  redacted argument `1.0` or `9007199254740993` of a `check` run is hashed as
  written and decoded to a float64, which is written otherwise: the log is FAILED,
  hash mismatch (`audit_numbers`).
- A retry after a torn write is acknowledged and lost.  `audit.go:244-247` says
  retries neither leave gaps nor break the chain; after a partial write the next
  event lands on the fragment's line, and `audit verify` reports corruption
  (`audit_retry`).  It does not report tampering for it: `NoFalseAlarm` says what
  FAILED can come from.
- A late line can decide another call if two lines were typed at one prompt:
  `discardStalePending` discards one read, not all input (`tty_late`).

Smaller differences met while modelling, which the modules keep as the code has
them and for which there is no run of their own:

- A batch member that is an `ask` is audited as `ask` before it is resolved
  (`httpproxy.go:449`).
- A call may be made but unaudited: a failed audit write is logged and the call is
  forwarded (`proxy.go:429-432`), where `docs/threat-model.md:321-322` says that a
  terminated proxy never leaves one.  `Gate` therefore promises "recorded or its
  loss noticed".
- `--fail-on ask` never fails the gate outside a dry run: an `ask` is resolved to
  `allow` or `deny` before it is counted (`main.go:436-438`); `docs/modes.md:33`
  says `--fail-on deny,ask` "returns non-zero when matching decisions occur", and
  `main_test.go:874-881` knows better.
- `ParsePolicy` accepts a negative `taint.min_length` with taint enabled, and
  `ValidateStrict` refuses it; a `scope` that is not a string counts as
  `session`, where a `sensitivity` that is not a string is refused.
- An importer that enables taint and names no mode replaces an imported `deny`
  with the default `escalate`; `docs/policy-language.md:295` says so.
- An HTTP handler that outlives `Serve`'s five seconds can write its event after
  the sinks are closed (`main.go:1764`), where `docs/threat-model.md:323-328`
  says in-flight audit events are not lost.

## 8. What is not modelled

*stdio*: `--passthrough`, which sends every line down the branch of kind
`other`; batches on stdio, documented as forwarded like any other line; the
subprocess's exit status; pipes that fill up (a writer that blocks for ever);
metrics and debug output; ids a client reuses (MCP forbids it; the code would
attribute the first reply to the second tool), ids that a server writes otherwise
than the client did (`1` as `1.0`: the relay compares their bytes, and would not
find the call) and replies nobody asked for.
*HTTP*: `--passthrough`, header copying, metrics, and clients that share one
proxy and choose the same ids (taint is per process, and the HTTP proxy keeps
nothing per id).
*Taint*: tokens and substring matching, and the limits per observation; only the
length filter, first-writer-wins and the total cap are kept.
*Audit*: `--audit-sign` (one more way to fail before the write), segment names
and the clock in them (three rotations in one clock tick after a prune, or a
clock set back, could make `prune` remove the newest first), durability of
directory entries, two processes on one log at once, and anchors.
*Sinks*: `ParseSinks`, the fan-out to several sinks (each is an independent copy
of `AuditSink`), and what a transport does with a batch.
*Policy and check*: decoding of YAML and JSON, symbolic links below a policy
directory, the text of console output, and failures to write metrics or standard
output.  Globs are relations given to `PolicyEngine`, not matched character by
character.
*Bound approval*: the redacted display of a request, canonical JSON (a digest is
the value it is computed from), and a policy replaced after the executor has
sampled it, which is outside the library's promise.  No command of the program
uses permits; only the library's callers do.  A Go map read while it is written
ends the program, so the model has no state after such a race.
*TTY*: opening the terminal and `Close`, which releases the file as the process
ends; liveness of callers without a deadline, whose prompt holds the terminal
until it is answered (`Untimed` is empty in the runs of this module: without
`--approval-timeout` every caller is one, and a batch always is; `HTTPProxy`
models them against an operator that may stay silent).
*Elsewhere*: the components without a module in section 1.  None of them keeps
state a decision depends on while the program runs: signing, anchors, redaction
proper, metrics, interop, packs, demo, completion and the evidence report
are computations, formatting or one pass over a file.
