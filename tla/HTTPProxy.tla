------------------------------ MODULE HTTPProxy ------------------------------
(***************************************************************************)
(* The streamable-HTTP MCP proxy, internal/httpproxy/httpproxy.go, and the *)
(* end of runProxyHTTP, cmd/agentfence/main.go.                            *)
(*                                                                         *)
(* net/http runs one ServeHTTP per request, all at once.  The handlers     *)
(* share the evaluation session (its taint tracker), the approver and the  *)
(* audit writer.  pc[r] is where the handler of request r stands; a batch  *)
(* goes through its tools/call members one by one, at[r] being the one in  *)
(* hand.  A call is <<r, k>>: member k of request r.                       *)
(*                                                                         *)
(* A response is handed to the client as it is read, and observed for      *)
(* taint only when all of it has been: a client can act on a result the    *)
(* tracker has not seen.                                                   *)
(*                                                                         *)
(* Serve waits five seconds for the handlers after a signal and returns    *)
(* whether they are done or not; the deferred closeAudit then closes the   *)
(* log's file and the sink under whatever handler is left, until the       *)
(* process exits.                                                          *)
(***************************************************************************)
EXTENDS Naturals, Sequences, FiniteSets

CONSTANTS
  Reqs,           \* the requests clients send, one handler each
  Tools,          \* tool names
  Values,         \* argument values and texts of tool results
  None,           \* nothing
  Empty,          \* a response that carries no result text
  Static,         \* the engine's stateless decision for each tool
  Trackable,      \* the values of at least taint.min_length runes
  MaxTracked,     \* maxTrackedFragments
  Bodies,         \* the requests a client may send
  Configs,        \* the configurations a run may start with
  MaxMembers      \* bound: tools/call members of a batch

(* auth: --auth-token is set.  sink: an --audit-sink is configured.        *)
AllConfigs == [taint : {"off", "escalate", "deny"}, noInteractive : BOOLEAN,
               timeout : BOOLEAN, onBatch : {"reject", "evaluate"},
               onUnparsed : {"forward", "reject"}, auth : BOOLEAN,
               sink : BOOLEAN]

Members == [kind : {"call"}, tool : Tools, arg : Values]
             \union [kind : {"malformed"}, tool : {None}, arg : {None}]

(* A request: a tools/call (one member), a batch (its tools/call members), *)
(* or a body the proxy does not gate.  token: it carries the bearer token. *)
AllBodies ==
  [form : {"call", "batch"},
   members : UNION {[1 .. n -> Members] : n \in 0 .. MaxMembers},
   token : BOOLEAN]
    \union [form : {"get", "oversize", "unparsed", "badbatch", "other"},
            members : {<<>>}, token : BOOLEAN]

ASSUME HTTPAssumption ==
  /\ None \notin Tools /\ None \notin Values /\ Empty \notin Values
  /\ None \notin Reqs /\ None \notin Bodies
  /\ Static \in [Tools -> {"allow", "deny", "ask"}]
  /\ Trackable \subseteq Values
  /\ MaxTracked \in Nat /\ MaxMembers \in Nat \ {0}
  /\ Configs \subseteq AllConfigs
  /\ Bodies \subseteq AllBodies
  /\ \A b \in Bodies : b.form = "call" => Len(b.members) = 1

VARIABLES
  opts,       \* the configuration of this run
  pc,         \* where the handler of each request stands
  body,       \* the request, None before it arrives
  at,         \* the member of the body in hand
  decision,   \* result.Decision of that member
  code,       \* event.ReasonCode of that member
  result,     \* the text of the upstream's response
  tracked,    \* taint.Tracker.sources: value -> the tool it came from
  prompting,  \* the handler holding TTYApprover.mu
  writing,    \* the handler holding Writer.mu
  log,        \* the events in the log's file
  mirrored,   \* the events handed to the sink
  lost,       \* the calls whose audit write failed
  stage       \* Serve and the deferred calls after it

(* History.                                                                *)
VARIABLES
  verdict,    \* the decision each call was settled with
  approved,   \* the calls an operator approved
  upstream,   \* the requests written to the upstream server
  answer,     \* what the client of each request got
  seen,       \* the result texts clients have received
  given,      \* those of them whose handler returned having parsed them
  heard,      \* seen as each request was sent
  known,      \* given as each request was sent
  abrupt      \* Serve returned with handlers running

handlers == <<pc, body, at, decision, code, result>>
audit == <<writing, log, mirrored, lost>>
taint == <<tracked, seen, given>>
outcome == <<verdict, approved, upstream, answer>>
sending == <<heard, known>>
vars == <<opts, handlers, prompting, audit, taint, outcome, sending, stage,
          abrupt>>

Calls == Reqs \X (1 .. MaxMembers)

Outcomes == {"approved", "denied", "timeout", "cancelled", "io_error",
             "non_interactive"}

Codes == Outcomes \union {"policy", "taint"}

Events == [call : Calls, decision : {"allow", "deny", "ask"}, code : Codes]

Init ==
  /\ opts \in Configs
  /\ pc = [r \in Reqs |-> "idle"] /\ body = [r \in Reqs |-> None]
  /\ at = [r \in Reqs |-> 0]
  /\ decision = [r \in Reqs |-> "none"] /\ code = [r \in Reqs |-> "none"]
  /\ result = [r \in Reqs |-> None]
  /\ tracked = [v \in Values |-> None] /\ seen = {} /\ given = {}
  /\ prompting = None /\ writing = None /\ log = {} /\ mirrored = {} /\ lost = {}
  /\ verdict = [c \in Calls |-> "none"] /\ approved = {}
  /\ upstream = {} /\ answer = [r \in Reqs |-> "none"]
  /\ heard = [r \in Reqs |-> {}] /\ known = [r \in Reqs |-> {}]
  /\ stage = "serving" /\ abrupt = FALSE

Running == stage # "exited"

Goto(r, label) == pc' = [pc EXCEPT ![r] = label]

Single(r) == body[r].form = "call"

Member(r) == body[r].members[at[r]]

ThisCall(r) == <<r, at[r]>>

-------------------------------------------------------------------------------
(* ServeHTTP up to the policy edge.                                        *)

Unauthorized(b) == opts.auth /\ ~b.token

Refused(b) ==
  \/ Unauthorized(b)
  \/ b.form \in {"oversize", "badbatch"}
  \/ b.form = "batch" /\ opts.onBatch = "reject"
  \/ b.form = "unparsed" /\ opts.onUnparsed = "reject"

(* ParseToolCallParams fails on member k.                                  *)
Malformed(b, k) == k <= Len(b.members) /\ b.members[k].kind = "malformed"

(* Where a handler goes when it turns to member k of b.                    *)
TurnTo(b, k) ==
  IF k > Len(b.members) THEN "forward"
  ELSE IF Malformed(b, k) THEN "done" ELSE "evaluate"

(* Everything ServeHTTP decides from the request alone.                    *)
Arrive(r) ==
  /\ stage = "serving"
  /\ pc[r] = "idle"
  /\ \E b \in Bodies :
       LET next == IF Refused(b) THEN "done" ELSE TurnTo(b, 1) IN
       /\ body' = [body EXCEPT ![r] = b]
       /\ Goto(r, next)
       /\ answer' = [answer EXCEPT ![r] = IF next = "done" THEN "refused" ELSE @]
  /\ at' = [at EXCEPT ![r] = 1]
  /\ heard' = [heard EXCEPT ![r] = seen]
  /\ known' = [known EXCEPT ![r] = given]
  /\ UNCHANGED <<opts, decision, code, result, prompting, audit, taint, verdict,
                 approved, upstream, stage, abrupt>>

-------------------------------------------------------------------------------
(* One gated call: Session.Evaluate, approval.Resolve, Writer.Write.       *)

Tainted(v) == opts.taint # "off" /\ v \in Trackable /\ tracked[v] # None

(* applyTaintEscalation.                                                   *)
Escalated(d) ==
  IF opts.taint = "deny" THEN "deny"
  ELSE IF d = "allow" THEN "ask" ELSE d

(* Defect: a lone call is audited before its ask is resolved, as a batch's. *)
AfterEvaluateUnresolved(single, d) == "audit"

(* A lone call is resolved first; a batch audits its member's ask as ask.  *)
AfterEvaluate(single, d) ==
  IF single /\ d = "ask" THEN "resolve" ELSE "audit"

Evaluate(r) ==
  /\ Running
  /\ pc[r] = "evaluate"
  /\ LET d == Static[Member(r).tool]
         e == IF Tainted(Member(r).arg) THEN Escalated(d) ELSE d IN
     /\ decision' = [decision EXCEPT ![r] = e]
     /\ code' = [code EXCEPT ![r] = IF e = d THEN "policy" ELSE "taint"]
     /\ verdict' = IF e = "ask" THEN verdict
                   ELSE [verdict EXCEPT ![ThisCall(r)] = e]
     /\ Goto(r, AfterEvaluate(Single(r), e))
  /\ UNCHANGED <<opts, body, at, result, prompting, audit, taint, approved,
                 upstream, answer, sending, stage, abrupt>>

(* The handler is done with its member, which may pass: on to the next.    *)
NextMember(r) ==
  LET next == TurnTo(body[r], at[r] + 1) IN
  /\ at' = [at EXCEPT ![r] = @ + 1]
  /\ Goto(r, next)
  /\ answer' = [answer EXCEPT ![r] = IF next = "done" THEN "refused" ELSE @]

(* BlockedByPolicyError: no later member is evaluated.                     *)
Blocked(r) ==
  /\ Goto(r, "done")
  /\ answer' = [answer EXCEPT ![r] = "blocked"]
  /\ at' = at

(* Defect: a batch goes on past a member that was not allowed.             *)
ContinueAlways(r, d) == NextMember(r)

(* What becomes of a member that needs nothing more.                       *)
Continue(r, d) == IF d = "allow" THEN NextMember(r) ELSE Blocked(r)

(* TTYApprover.Request takes the terminal: mu.Lock waits for whoever has   *)
(* it, and looks neither at a deadline nor at a client that hung up.       *)
Prompt(r) ==
  /\ Running
  /\ ~opts.noInteractive
  /\ pc[r] = "resolve"
  /\ prompting = None
  /\ prompting' = r
  /\ UNCHANGED <<opts, handlers, audit, taint, outcome, sending, stage, abrupt>>

(* Request returns, and lets go of the terminal.  A lone call's ask ends   *)
(* in the audit; a batch's goes straight on.                               *)
Settle(r, o) ==
  LET d == IF o = "approved" THEN "allow" ELSE "deny" IN
  /\ Running
  /\ pc[r] = "resolve"
  /\ prompting' = None
  /\ decision' = [decision EXCEPT ![r] = d]
  /\ code' = [code EXCEPT ![r] = o]
  /\ verdict' = [verdict EXCEPT ![ThisCall(r)] = d]
  /\ approved' = IF o = "approved" THEN approved \union {ThisCall(r)} ELSE approved
  /\ IF Single(r) THEN Goto(r, "audit") /\ UNCHANGED <<at, answer>>
                  ELSE Continue(r, d)
  /\ UNCHANGED <<opts, body, result, audit, taint, upstream, sending, stage,
                 abrupt>>

OperatorAnswers(r) ==
  /\ prompting = r
  /\ \E o \in {"approved", "denied", "io_error"} : Settle(r, o)

(* Defect: the deadline is set for a batch's prompts and not for a call's. *)
ApprovalExpiresBatch(r) ==
  /\ prompting = r /\ opts.timeout /\ ~Single(r)
  /\ Settle(r, "timeout")

(* approval.Resolve sets a lone call's deadline, which Request looks at    *)
(* once it has the terminal.  handleBatch calls Request itself, with no    *)
(* deadline.                                                               *)
ApprovalExpires(r) ==
  /\ prompting = r /\ opts.timeout /\ Single(r)
  /\ Settle(r, "timeout")

(* The client hung up, which cancels its request's context.                *)
ApprovalCancelled(r) == prompting = r /\ Settle(r, "cancelled")

(* DenyAllApprover has no terminal to wait for.                            *)
ApprovalRefused(r) == opts.noInteractive /\ Settle(r, "non_interactive")

Event(r) == [call |-> ThisCall(r), decision |-> decision[r], code |-> code[r]]

(* The rest of the handler once its event is written, or could not be.     *)
AfterAudit(r) ==
  IF decision[r] = "ask" THEN Goto(r, "resolve") /\ UNCHANGED <<at, answer>>
  ELSE Continue(r, decision[r])

(* Defect: the event is never written.                                     *)
AuditDropped(r) ==
  /\ Running
  /\ pc[r] = "audit"
  /\ writing = None
  /\ AfterAudit(r)
  /\ UNCHANGED <<opts, body, decision, code, result, prompting, audit, taint,
                 verdict, approved, upstream, sending, stage, abrupt>>

(* Defect: the sink gets the event whether it was written or not.          *)
AuditEmitsLost(r) ==
  /\ Running
  /\ pc[r] = "audit"
  /\ writing = None
  /\ \/ log' = log \union {Event(r)} /\ lost' = lost
     \/ log' = log /\ lost' = lost \union {ThisCall(r)}
  /\ IF opts.sink
     THEN writing' = r /\ Goto(r, "emit") /\ UNCHANGED <<at, answer>>
     ELSE writing' = writing /\ AfterAudit(r)
  /\ UNCHANGED <<opts, body, decision, code, result, prompting, mirrored, taint,
                 verdict, approved, upstream, sending, stage, abrupt>>

(* Writer.Write up to the file: it fails on a closed file, and may fail on *)
(* an open one.  The error is counted and the handler carries on.          *)
Audit(r) ==
  /\ Running
  /\ pc[r] = "audit"
  /\ writing = None
  /\ \/ /\ stage \in {"serving", "draining", "closing"}
        /\ log' = log \union {Event(r)}
        /\ lost' = lost
        /\ IF opts.sink
           THEN writing' = r /\ Goto(r, "emit") /\ UNCHANGED <<at, answer>>
           ELSE writing' = writing /\ AfterAudit(r)
     \/ /\ lost' = lost \union {ThisCall(r)}
        /\ AfterAudit(r)
        /\ UNCHANGED <<log, writing>>
  /\ UNCHANGED <<opts, body, decision, code, result, prompting, mirrored, taint,
                 verdict, approved, upstream, sending, stage, abrupt>>

(* Sink.Emit, still under Writer.mu.  On a closed sink it sends on a closed *)
(* channel: the panic unlocks the writer and net/http aborts the request.  *)
Emit(r) ==
  /\ Running
  /\ pc[r] = "emit"
  /\ writing' = None
  /\ \/ /\ stage # "sinkClosed"
        /\ mirrored' = mirrored \union {Event(r)}
        /\ AfterAudit(r)
     \/ /\ stage = "sinkClosed"
        /\ answer' = [answer EXCEPT ![r] = "aborted"]
        /\ Goto(r, "done")
        /\ UNCHANGED <<mirrored, at>>
  /\ UNCHANGED <<opts, body, decision, code, result, prompting, log, lost, taint,
                 verdict, approved, upstream, sending, stage, abrupt>>

-------------------------------------------------------------------------------
(* forward and observeResponse.                                            *)

(* client.Do: the upstream may be out of reach, or fail after it received  *)
(* the request.  Only a tools/call, alone or in a batch, yields tool text. *)
Forward(r) ==
  /\ Running
  /\ pc[r] = "forward"
  /\ \/ /\ \E text \in (IF body[r].members = <<>> THEN {} ELSE Values) \union {Empty} :
             result' = [result EXCEPT ![r] = text]
        /\ upstream' = upstream \union {r}
        /\ Goto(r, "stream")
        /\ answer' = answer
     \/ /\ upstream' \in {upstream, upstream \union {r}}
        /\ answer' = [answer EXCEPT ![r] = "failed"]
        /\ Goto(r, "done")
        /\ result' = result
  /\ UNCHANGED <<opts, body, at, decision, code, prompting, audit, taint, verdict,
                 approved, sending, stage, abrupt>>

(* flushCopy writes and flushes each chunk it reads, the one with the      *)
(* result among them.  With a Content-Length the client may now have all.  *)
Stream(r) ==
  /\ Running
  /\ pc[r] = "stream"
  /\ seen' = seen \union ({result[r]} \intersect Values)
  /\ Goto(r, "copy")
  /\ UNCHANGED <<opts, body, at, decision, code, result, prompting, audit, tracked,
                 given, outcome, sending, stage, abrupt>>

(* flushCopy returns, and the client gets a.  "observe": the capture has   *)
(* the result in a payload that parses.  "done": it has not.               *)
CopyReturns(r, a) ==
  /\ Running
  /\ answer' = [answer EXCEPT ![r] = a]
  /\ \E next \in {"observe", "done"} : Goto(r, next)
  /\ UNCHANGED <<opts, body, at, decision, code, result, prompting, audit, taint,
                 verdict, approved, upstream, sending, stage, abrupt>>

(* The body ended.  What is past maxObserveBytes was not captured.         *)
EndOfBody(r) == pc[r] = "copy" /\ CopyReturns(r, "reply")

(* The upstream broke off, or a write to a client that hung up failed, the *)
(* chunk in hand being captured already.  A JSON body that lacks its end   *)
(* does not parse; of a text/event-stream, the events that are complete    *)
(* do.                                                                     *)
Truncated(r) == pc[r] \in {"stream", "copy"} /\ CopyReturns(r, "failed")

(* The response is observed when it is a lone call's.                      *)
Observes(r) == Single(r) /\ opts.taint # "off"

Full == Cardinality({v \in Values : tracked[v] # None}) >= MaxTracked

(* Session.ObserveResult, under the tracker's lock.                        *)
Observed(tool, text) ==
  IF text \in Trackable /\ tracked[text] = None /\ ~Full
  THEN [tracked EXCEPT ![text] = tool] ELSE tracked

(* What is given once the handler of r has returned.                       *)
Given(r) ==
  IF Single(r) /\ answer[r] = "reply"
  THEN given \union ({result[r]} \intersect Values) ELSE given

(* Defect: the capture is thrown away.                                     *)
ObserveNothing(r) ==
  /\ Running
  /\ pc[r] = "observe"
  /\ given' = Given(r)
  /\ Goto(r, "done")
  /\ UNCHANGED <<opts, body, at, decision, code, result, prompting, audit, tracked,
                 seen, outcome, sending, stage, abrupt>>

(* observeResponse, after which the handler returns; only then does        *)
(* net/http write the last chunk of a chunked body.                        *)
Observe(r) ==
  /\ Running
  /\ pc[r] = "observe"
  /\ tracked' = IF Observes(r)
                THEN Observed(body[r].members[1].tool, result[r])
                ELSE tracked
  /\ given' = Given(r)
  /\ Goto(r, "done")
  /\ UNCHANGED <<opts, body, at, decision, code, result, prompting, audit, seen,
                 outcome, sending, stage, abrupt>>

Handle(r) ==
  \/ Evaluate(r)
  \/ Prompt(r) \/ OperatorAnswers(r) \/ ApprovalExpires(r)
  \/ ApprovalCancelled(r) \/ ApprovalRefused(r)
  \/ Audit(r) \/ Emit(r)
  \/ Forward(r) \/ Stream(r) \/ EndOfBody(r) \/ Truncated(r) \/ Observe(r)

-------------------------------------------------------------------------------
(* Serve, closeAudit and the exit.                                         *)

Idle(r) == pc[r] \in {"idle", "done"}

Move(from, to) == stage = from /\ stage' = to

(* SIGINT or SIGTERM: Shutdown closes the listener.                        *)
Signal ==
  /\ Move("serving", "draining")
  /\ UNCHANGED <<opts, handlers, prompting, audit, taint, outcome, sending, abrupt>>

(* Defect: the server is closed without waiting for its handlers.          *)
DrainedAtOnce ==
  /\ Move("draining", "closing")
  /\ UNCHANGED <<opts, handlers, prompting, audit, taint, outcome, sending, abrupt>>

(* Shutdown returns nil: every connection is idle.                         *)
Drained ==
  /\ Move("draining", "closing")
  /\ \A r \in Reqs : Idle(r)
  /\ UNCHANGED <<opts, handlers, prompting, audit, taint, outcome, sending, abrupt>>

(* Defect: Shutdown waits with a context that has no deadline.             *)
DeadlineNever ==
  FALSE /\ abrupt' = TRUE
  /\ UNCHANGED <<opts, handlers, prompting, audit, taint, outcome, sending, stage>>

(* Shutdown's five seconds are over with handlers still running.           *)
Deadline ==
  /\ Move("draining", "closing")
  /\ \E r \in Reqs : ~Idle(r)
  /\ abrupt' = TRUE
  /\ UNCHANGED <<opts, handlers, prompting, audit, taint, outcome, sending>>

(* ListenAndServe failed: Serve returns at once.                           *)
ListenFails ==
  /\ Move("serving", "closing")
  /\ abrupt' = (\E r \in Reqs : ~Idle(r))
  /\ UNCHANGED <<opts, handlers, prompting, audit, taint, outcome, sending>>

(* closeAll runs the closers last to first: the file, then the sink.       *)
CloseFile ==
  /\ Move("closing", "fileClosed")
  /\ UNCHANGED <<opts, handlers, prompting, audit, taint, outcome, sending, abrupt>>

CloseSink ==
  /\ Move("fileClosed", "sinkClosed")
  /\ UNCHANGED <<opts, handlers, prompting, audit, taint, outcome, sending, abrupt>>

Exit ==
  /\ Move("sinkClosed", "exited")
  /\ UNCHANGED <<opts, handlers, prompting, audit, taint, outcome, sending, abrupt>>

ServeEnds == Drained \/ Deadline \/ CloseFile \/ CloseSink \/ Exit

Terminated == stage = "exited" /\ UNCHANGED vars

Next ==
  \/ \E r \in Reqs : Arrive(r) \/ Handle(r)
  \/ Signal \/ ListenFails \/ ServeEnds
  \/ Terminated

Spec == Init /\ [][Next]_vars

(* Handlers are goroutines: one that can move does.  Nothing is assumed of *)
(* the operator, the clients or the upstream server.                       *)
Fairness ==
  /\ \A r \in Reqs :
       WF_vars(Evaluate(r) \/ Prompt(r) \/ ApprovalExpires(r)
               \/ ApprovalRefused(r) \/ Audit(r) \/ Emit(r) \/ Observe(r))
  /\ WF_vars(ServeEnds)

FairSpec == Spec /\ Fairness

-------------------------------------------------------------------------------
(* Properties.                                                             *)

Logged(c, d) == \E e \in log : e.call = c /\ e.decision = d

Lone == {c \in Calls : body[c[1]] # None /\ Single(c[1]) /\ c[2] = 1}

Trail ==
  [c \in Calls |-> IF c \notin Lone THEN "none"
                   ELSE IF c \in lost THEN "lost"
                   ELSE IF Logged(c, "ask") THEN "ask"
                   ELSE IF Logged(c, "allow") THEN "allow"
                   ELSE IF Logged(c, "deny") THEN "deny" ELSE "none"]

LoneVerdict == [c \in Calls |-> IF c \in Lone THEN verdict[c] ELSE "none"]

LonePassed == {c \in Lone : c[1] \in upstream}

G == INSTANCE Gate WITH
       Calls <- Calls, verdict <- LoneVerdict, trail <- Trail,
       passed <- LonePassed

(* For calls sent one to a request the handlers, however they interleave   *)
(* and whenever the proxy is stopped, are the same gate as the stdio       *)
(* proxy: settled once, recorded as settled or the loss noticed, and only  *)
(* then passed, if allowed.                                                *)
GateSpec == G!Spec

TypeOK ==
  /\ opts \in Configs
  /\ pc \in [Reqs -> {"idle", "evaluate", "resolve", "audit", "emit", "forward",
                     "stream", "copy", "observe", "done"}]
  /\ body \in [Reqs -> Bodies \union {None}]
  /\ at \in [Reqs -> 0 .. MaxMembers + 1]
  /\ decision \in [Reqs -> {"none", "allow", "deny", "ask"}]
  /\ code \in [Reqs -> Codes \union {"none"}]
  /\ result \in [Reqs -> Values \union {Empty, None}]
  /\ tracked \in [Values -> Tools \union {None}]
  /\ prompting \in Reqs \union {None} /\ writing \in Reqs \union {None}
  /\ log \subseteq Events /\ mirrored \subseteq log /\ lost \subseteq Calls
  /\ verdict \in [Calls -> {"none", "allow", "deny"}]
  /\ approved \subseteq Calls /\ upstream \subseteq Reqs
  /\ answer \in [Reqs -> {"none", "refused", "blocked", "failed", "reply",
                         "aborted"}]
  /\ seen \subseteq Values /\ given \subseteq Values
  /\ heard \in [Reqs -> SUBSET Values] /\ known \in [Reqs -> SUBSET Values]
  /\ stage \in {"serving", "draining", "closing", "fileClosed", "sinkClosed",
               "exited"}
  /\ abrupt \in BOOLEAN

MembersOf(r) == {<<r, k>> : k \in DOMAIN body[r].members}

(* --on-batch evaluate (httpproxy.go:423-425): a batch reaches the         *)
(* upstream only with every member allowed by the policy or an operator,   *)
(* and every member's event written or its loss noticed; once a member is  *)
(* refused, none after it has left a trace.                                *)
BatchAllOrNothing ==
  \A r \in Reqs : body[r] # None /\ body[r].form = "batch" =>
    /\ r \in upstream =>
         \A c \in MembersOf(r) :
           /\ verdict[c] = "allow"
           /\ c \in lost \/ \E e \in log : e.call = c
    /\ \A c, d \in MembersOf(r) : verdict[c] = "deny" /\ c[2] < d[2] =>
         verdict[d] = "none" /\ ~\E e \in log : e.call = d

Explains(e) ==
  LET tool == body[e.call[1]].members[e.call[2]].tool IN
  CASE e.decision = "allow" -> \/ e.code = "policy" /\ Static[tool] = "allow"
                               \/ e.code = "approved" /\ e.call \in approved
    [] e.decision = "ask" -> e.call \notin Lone
    [] e.decision = "deny" -> e.call \notin approved

(* Handlers share one writer, yet a call has one event, which explains it: *)
(* a lone call's is the outcome, with the approval that led to it; only a  *)
(* batch leaves an ask in the log.                                         *)
OneExplainedEvent ==
  /\ \A e, f \in log : e.call = f.call => e = f
  /\ \A e \in log : Explains(e) /\ e.call \notin lost

(* The tracker holds all it can of what the call's arguments may come from *)
(* only if it is full.                                                     *)
LetThrough(c) ==
  /\ verdict[c] = "allow"
  /\ body[c[1]].members[c[2]].arg \in Trackable
  /\ opts.taint # "off"
  /\ ~(opts.taint = "escalate" /\ c \in approved)
  /\ ~Full

(* A call sent after the handler that relayed the result it was derived    *)
(* from had returned, the result having parsed, is never let through on    *)
(* the policy's word, whichever client's handler that was                  *)
(* (httpproxy.go:552-556).  A client sees that moment as the end of a      *)
(* chunked response; a response with a Content-Length ends for its client  *)
(* before, and of that nothing is promised.                                *)
OverResultsTaint ==
  \A c \in Calls : LetThrough(c) =>
    body[c[1]].members[c[2]].arg \notin known[c[1]]

(* docs/threat-model.md:177: "a result streamed over SSE taints later      *)
(* calls the same way the stdio proxy's results do".  A handler observes a *)
(* response when it has been copied to its end; the client may use the     *)
(* result before.                                                          *)
StreamedResultsTaint ==
  \A c \in Calls : LetThrough(c) =>
    body[c[1]].members[c[2]].arg \notin heard[c[1]]

(* A shutdown that Serve's five seconds were enough for loses no event: by *)
(* the time the sink is closed every settled call is in the file, unless   *)
(* its write failed, and the sink was handed the whole file.               *)
DrainedShutdownKeepsEvents ==
  stage \in {"sinkClosed", "exited"} /\ ~abrupt =>
    /\ opts.sink => mirrored = log
    /\ \A c \in Calls : verdict[c] # "none" =>
         c \in lost \/ \E e \in log : e.call = c

Settled(r) == pc[r] \in {"forward", "done"} \/ stage = "exited"

BatchPrompts == prompting # None /\ ~Single(prompting)

(* With --approval-timeout the handler of a lone call comes to a decision, *)
(* or the process ends, unless from some time on the prompt of a batch,    *)
(* which has no deadline (httpproxy.go:457), keeps the terminal            *)
(* (approval.go:229): other lone calls, the writer and the sink cannot     *)
(* hold it up.                                                             *)
LoneCallsSettled ==
  []<>~BatchPrompts =>
    \A r \in Reqs : (pc[r] = "evaluate" /\ Single(r)) ~> Settled(r)

(* Options.ApprovalTimeout (httpproxy.go:126-128): it "bounds how long a   *)
(* single ask prompt may wait before the call is auto-denied".  A lone     *)
(* call behind a batch's prompt waits in mu.Lock for as long as that does. *)
AskBounded ==
  \A r \in Reqs :
    (pc[r] = "resolve" /\ Single(r) /\ opts.timeout) ~> Settled(r)

(* A signal ends the process, whatever the handlers wait for.              *)
SignalEnds == stage = "draining" ~> stage = "exited"
===============================================================================
