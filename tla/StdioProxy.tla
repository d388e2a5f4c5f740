------------------------------ MODULE StdioProxy ------------------------------
(***************************************************************************)
(* The stdio MCP proxy, internal/proxy/proxy.go: Run, its two relay        *)
(* goroutines, the evaluation session they share and the audit writer.     *)
(*                                                                         *)
(* relayAgentToSub (program counter pcA) takes one line at a time from the *)
(* agent, and for a tools/call evaluates, resolves an ask, audits, then    *)
(* forwards it or answers it.  relaySubToAgent (pcB) takes one frame at a  *)
(* time from the subprocess, feeds a tool result to the taint tracker and  *)
(* relays the frame.  The goroutines interleave at every lock and write.   *)
(*                                                                         *)
(* A line is known by its number n: sent[n] is the n-th line the agent     *)
(* wrote and nread how many relay A has scanned, so the agent's pipe holds *)
(* the lines nread+1 .. Len(sent).                                         *)
(***************************************************************************)
EXTENDS Naturals, Sequences, FiniteSets

CONSTANTS
  Tools,          \* tool names
  Values,         \* argument values and texts of tool results
  Ids,            \* JSON-RPC request ids
  NoId,           \* the id of a notification (absent or null)
  None,           \* no tool, no argument
  Empty,          \* a reply whose result carries no text
  Error,          \* a reply that is a JSON-RPC error
  Static,         \* the engine's stateless decision for each tool
  Trackable,      \* the values of at least taint.min_length runes
  MaxTracked,     \* maxTrackedFragments
  Configs,        \* the configurations a run may start with
  MaxLines        \* bound: lines the agent sends

(* taint: the policy's taint block.  noInteractive: --no-interactive, the  *)
(* approver is DenyAllApprover.  timeout: --approval-timeout is positive.  *)
AllConfigs == [taint : {"off", "escalate", "deny"}, noInteractive : BOOLEAN,
               timeout : BOOLEAN]

ASSUME ConstantsAssumption ==
  /\ None \notin Tools /\ None \notin Values
  /\ NoId \notin Ids
  /\ Empty \notin Values /\ Error \notin Values
  /\ Static \in [Tools -> {"allow", "deny", "ask"}]
  /\ Trackable \subseteq Values
  /\ MaxTracked \in Nat
  /\ Configs \subseteq AllConfigs
  /\ MaxLines \in Nat

VARIABLES
  opts,       \* the configuration of this run
  sent,       \* the lines the agent wrote, in order
  nread,      \* how many of them relay A has scanned
  pcA,        \* where relayAgentToSub stands
  decision,   \* result.Decision of the line in hand
  code,       \* event.ReasonCode of the line in hand
  log,        \* the events the audit writer accepted, in order
  lost,       \* the lines whose audit write failed
  pending,    \* relay.pending: request id -> tool of the call in flight
  subIn,      \* the line numbers written to the subprocess, in order
  subOut,     \* the frames the subprocess wrote that relay B has not scanned
  replies,    \* every frame the subprocess has written
  pcB,        \* where relaySubToAgent stands
  reply,      \* the frame relay B has in hand
  source,     \* the tool takePending returned for it
  tracked,    \* taint.Tracker.sources: value -> the tool it came from
  subAlive,   \* the subprocess runs
  agentGone,  \* the agent closed its end of both pipes
  cancelled   \* Run's context is cancelled (SIGINT, SIGTERM)

(* History: what the properties need to remember of the run.               *)
VARIABLES
  verdict,    \* the decision each line was settled with
  approved,   \* the lines an operator approved
  seen,       \* the tool-result texts the agent has received
  answers     \* per line, the kinds of answer the agent got to it

varsA == <<nread, pcA, decision, code, log, lost, subIn>>
varsB == <<pcB, reply, source, tracked>>
varsEnv == <<sent, replies, subAlive, agentGone, cancelled>>
history == <<verdict, approved, seen, answers>>
vars == <<opts, varsA, varsB, varsEnv, history, pending, subOut>>

Lines == 1 .. MaxLines

Decisions == {"allow", "deny", "ask"}

Outcomes == {"approved", "denied", "timeout", "cancelled", "io_error",
             "non_interactive"}

Codes == Outcomes \union {"policy", "taint"}

(* A tools/call with valid parameters.  derived: the agent had received    *)
(* the argument's value as the text of a tool result when it wrote it.     *)
Calls == [kind : {"call"}, id : Ids \union {NoId}, tool : Tools,
          arg : Values, derived : BOOLEAN]

(* A tools/call with bad parameters, and every line the proxy does not     *)
(* gate: another method, no JSON-RPC request at all, a batch.              *)
Others == [kind : {"malformed", "other"}, id : Ids \union {NoId},
           tool : {None}, arg : {None}, derived : {FALSE}]

(* A line beyond maxScanLine.                                              *)
Oversize == [kind : {"oversize"}, id : {NoId}, tool : {None}, arg : {None},
             derived : {FALSE}]

Messages == Calls \union Others \union Oversize

Replies == [line : Lines, text : Values \union {Empty, Error}]

(* The lines the subprocess has answered.                                  *)
replied == {f.line : f \in replies}

Init ==
  /\ opts \in Configs
  /\ sent = <<>> /\ nread = 0
  /\ pcA = "scan" /\ decision = "none" /\ code = "none"
  /\ log = <<>> /\ lost = {}
  /\ pending = [i \in Ids |-> None]
  /\ subIn = <<>> /\ subOut = <<>> /\ replies = {}
  /\ pcB = "scan" /\ reply = None /\ source = None
  /\ tracked = [v \in Values |-> None]
  /\ subAlive = TRUE /\ agentGone = FALSE /\ cancelled = FALSE
  /\ verdict = [n \in Lines |-> "none"]
  /\ approved = {} /\ seen = {}
  /\ answers = [n \in Lines |-> {}]

-------------------------------------------------------------------------------
(* The agent, the subprocess and the operator's signal.                    *)

(* An id is never used twice in a session, as MCP requires of a client.    *)
FreshId(i) == i = NoId \/ \A n \in DOMAIN sent : sent[n].id # i

AgentSends ==
  /\ ~agentGone
  /\ Len(sent) < MaxLines
  /\ \E m \in Messages :
       /\ FreshId(m.id)
       /\ m.derived <=> m.arg \in seen
       /\ sent' = Append(sent, m)
  /\ UNCHANGED <<opts, varsA, varsB, replies, subAlive, agentGone, cancelled,
                 history, pending, subOut>>

AgentCloses ==
  /\ ~agentGone
  /\ agentGone' = TRUE
  /\ UNCHANGED <<opts, varsA, varsB, sent, replies, subAlive, cancelled, history,
                 pending, subOut>>

(* The subprocess answers a request it received, in any order.             *)
SubReplies ==
  /\ subAlive
  /\ \E k \in DOMAIN subIn, text \in Values \union {Empty, Error} :
       LET n == subIn[k]
           f == [line |-> n, text |-> text] IN
       /\ sent[n].id # NoId
       /\ n \notin replied
       /\ sent[n].kind # "call" => text \notin Values
       /\ replies' = replies \union {f}
       /\ subOut' = Append(subOut, f)
  /\ UNCHANGED <<opts, varsA, varsB, sent, subAlive, agentGone, cancelled,
                 history, pending>>

(* The subprocess exits: of its own accord, or killed by CommandContext.   *)
SubExits ==
  /\ subAlive
  /\ subAlive' = FALSE
  /\ UNCHANGED <<opts, varsA, varsB, sent, replies, agentGone, cancelled, history,
                 pending, subOut>>

Signal ==
  /\ ~cancelled
  /\ cancelled' = TRUE
  /\ UNCHANGED <<opts, varsA, varsB, sent, replies, subAlive, agentGone, history,
                 pending, subOut>>

-------------------------------------------------------------------------------
(* relayAgentToSub and processAgentLine.                                   *)

Line == sent[nread]

(* Defect: the malformed branch forgets to check for a notification.       *)
IsNotificationCall == Line.id = NoId /\ Line.kind = "call"

IsNotification == Line.id = NoId

GotoA(label) == pcA' = label

(* scanner.Scan, ParseRequest and ParseToolCallParams: what the line is    *)
(* decides the branch, before any state but the scanner's moves.           *)
ScanLine ==
  /\ pcA = "scan"
  /\ nread < Len(sent)
  /\ nread' = nread + 1
  /\ LET m == sent[nread + 1] IN
     GotoA(CASE m.kind = "oversize" -> "stopped"
             [] m.kind = "other" -> "forward"
             [] m.kind = "malformed" -> "refuse"
             [] m.kind = "call" -> "evaluate")
  /\ UNCHANGED <<opts, decision, code, log, lost, subIn, varsB, varsEnv, history,
                 pending, subOut>>

(* Defect: the relay drains the calls in flight before it ends.            *)
ScanEOFDrains ==
  /\ pcA = "scan"
  /\ agentGone
  /\ nread = Len(sent)
  /\ \A i \in Ids : pending[i] = None
  /\ GotoA("stopped")
  /\ UNCHANGED <<opts, nread, decision, code, log, lost, subIn, varsB, varsEnv,
                 history, pending, subOut>>

(* The agent's end is closed and read to its end.                          *)
ScanEOF ==
  /\ pcA = "scan"
  /\ agentGone
  /\ nread = Len(sent)
  /\ GotoA("stopped")
  /\ UNCHANGED <<opts, nread, decision, code, log, lost, subIn, varsB, varsEnv,
                 history, pending, subOut>>

(* Tracker.Check: the argument is a remembered value.                      *)
Tainted(v) == opts.taint # "off" /\ v \in Trackable /\ tracked[v] # None

(* applyTaintEscalation.                                                   *)
Escalated(d) ==
  IF opts.taint = "deny" THEN "deny"
  ELSE IF d = "allow" THEN "ask" ELSE d

(* Defects: an allowed call skips the audit; an ask is not resolved.       *)
AfterEvaluateUnaudited(d) ==
  CASE d = "ask" -> "resolve" [] d = "allow" -> "remember" [] d = "deny" -> "audit"
AfterEvaluateUnresolved(d) == "audit"

AfterEvaluate(d) == IF d = "ask" THEN "resolve" ELSE "audit"

(* Session.Evaluate.  The stateless half reads nothing that changes, so    *)
(* the tracker's lock is its one point of interleaving.                    *)
Evaluate ==
  /\ pcA = "evaluate"
  /\ LET d == Static[Line.tool]
         e == IF Tainted(Line.arg) THEN Escalated(d) ELSE d IN
     /\ decision' = e
     /\ code' = IF e = d THEN "policy" ELSE "taint"
     /\ verdict' = IF e = "ask" THEN verdict ELSE [verdict EXCEPT ![nread] = e]
     /\ GotoA(AfterEvaluate(e))
  /\ UNCHANGED <<opts, nread, log, lost, subIn, varsB, varsEnv, approved, seen,
                 answers, pending, subOut>>

(* Defect: a prompt nobody answered counts as answered yes.                *)
ResolveTimeoutAllows(o) == IF o \in {"approved", "timeout"} THEN "allow" ELSE "deny"

(* approval.Resolve maps what the approver returns to allow or deny.       *)
Resolve(o) == IF o = "approved" THEN "allow" ELSE "deny"

Settle(o) ==
  LET d == Resolve(o) IN
  /\ pcA = "resolve"
  /\ decision' = d
  /\ code' = o
  /\ verdict' = [verdict EXCEPT ![nread] = d]
  /\ approved' = IF o = "approved" THEN approved \union {nread} ELSE approved
  /\ GotoA("audit")
  /\ UNCHANGED <<opts, nread, log, lost, subIn, varsB, varsEnv, seen, answers,
                 pending, subOut>>

OperatorAnswers ==
  /\ ~opts.noInteractive
  /\ \E o \in {"approved", "denied", "io_error"} : Settle(o)

(* Defect: the deadline is only looked at once the context ends.           *)
ApprovalExpiresLate ==
  ~opts.noInteractive /\ opts.timeout /\ cancelled /\ Settle("timeout")

ApprovalExpires == ~opts.noInteractive /\ opts.timeout /\ Settle("timeout")

ApprovalCancelled == ~opts.noInteractive /\ cancelled /\ Settle("cancelled")

ApprovalRefused == opts.noInteractive /\ Settle("non_interactive")

(* Defect: the call is noted as in flight whatever was decided of it.      *)
AfterAuditAlways(d) == "remember"

AfterAudit(d) == IF d = "allow" THEN "remember" ELSE "refuse"

(* AuditWriter.Write; its error is logged and counted, never acted on.     *)
Audit ==
  /\ pcA = "audit"
  /\ \/ /\ log' = Append(log, [line |-> nread, decision |-> decision,
                               code |-> code])
        /\ lost' = lost
     \/ /\ lost' = lost \union {nread}
        /\ log' = log
  /\ GotoA(AfterAudit(decision))
  /\ UNCHANGED <<opts, nread, decision, code, subIn, varsB, varsEnv, history,
                 pending, subOut>>

(* rememberPending, under pendingMu, before the line is written.           *)
Remember ==
  /\ pcA = "remember"
  /\ pending' = IF opts.taint = "off" \/ IsNotification THEN pending
                ELSE [pending EXCEPT ![Line.id] = Line.tool]
  /\ GotoA("forward")
  /\ UNCHANGED <<opts, nread, decision, code, log, lost, subIn, varsB, varsEnv,
                 history, subOut>>

(* A handler that returns nil leaves nothing of its line behind.           *)
NextLine == GotoA("scan") /\ decision' = "none" /\ code' = "none"

(* writeLine(subStdin): a dead subprocess breaks the pipe and the relay    *)
(* returns, which closes the subprocess's stdin.                           *)
Forward ==
  /\ pcA = "forward"
  /\ \/ subAlive /\ subIn' = Append(subIn, nread) /\ NextLine
     \/ /\ ~subAlive
        /\ GotoA("stopped")
        /\ UNCHANGED <<subIn, decision, code>>
  /\ UNCHANGED <<opts, nread, log, lost, varsB, varsEnv, history, pending,
                 subOut>>

(* The deny and malformed branches: answer a request, drop a notification. *)
Refuse ==
  /\ pcA = "refuse"
  /\ \/ /\ IsNotification
        /\ NextLine
        /\ answers' = answers
     \/ /\ ~IsNotification
        /\ NextLine
        /\ answers' = [answers EXCEPT ![nread] = @ \union
             {IF Line.kind = "malformed" THEN "invalid" ELSE "blocked"}]
     \/ /\ ~IsNotification /\ agentGone
        /\ GotoA("stopped")
        /\ UNCHANGED <<answers, decision, code>>
  /\ UNCHANGED <<opts, nread, log, lost, subIn, varsB, varsEnv, verdict, approved,
                 seen, pending, subOut>>

RelayAgentToSub ==
  \/ ScanLine \/ ScanEOF \/ Evaluate
  \/ OperatorAnswers \/ ApprovalExpires \/ ApprovalCancelled \/ ApprovalRefused
  \/ Audit \/ Remember \/ Forward \/ Refuse

-------------------------------------------------------------------------------
(* relaySubToAgent and observeResult.                                      *)

GotoB(label) == pcB' = label

(* Defect: replies are taken to come in the order of the calls.            *)
InFlightAny(f) ==
  IF f.text = Error THEN {} ELSE {i \in Ids : pending[i] # None}

(* takePending's entry for a frame, if any: an error reply leaves it there. *)
InFlight(f) ==
  IF f.text = Error THEN {}
  ELSE {i \in Ids : i = sent[f.line].id /\ pending[i] # None}

(* scanner.Scan, ParseResponse and takePending.                            *)
ScanFrame ==
  /\ pcB = "scan"
  /\ subOut # <<>>
  /\ reply' = Head(subOut)
  /\ subOut' = Tail(subOut)
  /\ \/ \E i \in InFlight(Head(subOut)) :
          /\ source' = pending[i]
          /\ pending' = [pending EXCEPT ![i] = None]
          /\ GotoB("observe")
     \/ /\ InFlight(Head(subOut)) = {}
        /\ source' = None
        /\ UNCHANGED pending
        /\ GotoB("relay")
  /\ UNCHANGED <<opts, varsA, tracked, varsEnv, history>>

(* The subprocess closed its stdout, or sent a frame beyond maxScanLine.   *)
ScanFrameEnds ==
  /\ pcB = "scan"
  /\ \/ ~subAlive /\ subOut = <<>>
     \/ subOut # <<>>
  /\ GotoB("stopped")
  /\ UNCHANGED <<opts, varsA, reply, source, tracked, varsEnv, history, pending,
                 subOut>>

(* Session.ObserveResult, under the tracker's lock: the first tool a value *)
(* is seen from keeps it, and a full tracker takes nothing more.           *)
Observe ==
  /\ pcB = "observe"
  /\ tracked' =
       IF /\ reply.text \in Trackable
          /\ tracked[reply.text] = None
          /\ Cardinality({v \in Values : tracked[v] # None}) < MaxTracked
       THEN [tracked EXCEPT ![reply.text] = source]
       ELSE tracked
  /\ GotoB("relay")
  /\ UNCHANGED <<opts, varsA, reply, source, varsEnv, history, pending, subOut>>

(* Defect: a write to an agent that hung up is tried for ever.             *)
RelayRetries ==
  /\ pcB = "relay"
  /\ ~agentGone
  /\ GotoB("scan")
  /\ answers' = [answers EXCEPT ![reply.line] = @ \union {"reply"}]
  /\ seen' = seen \union ({reply.text} \intersect Values)
  /\ UNCHANGED <<opts, varsA, reply, source, tracked, varsEnv, verdict, approved,
                 pending, subOut>>

(* writeLine(agentStdout).                                                 *)
Relay ==
  /\ pcB = "relay"
  /\ \/ /\ GotoB("scan")
        /\ answers' = [answers EXCEPT ![reply.line] = @ \union {"reply"}]
        /\ seen' = seen \union ({reply.text} \intersect Values)
     \/ /\ agentGone
        /\ GotoB("stopped")
        /\ UNCHANGED <<answers, seen>>
  /\ UNCHANGED <<opts, varsA, reply, source, tracked, varsEnv, verdict, approved,
                 pending, subOut>>

(* Defect: the frame is relayed before it is observed.                     *)
RelayBeforeObserve ==
  \/ ScanFrame \/ ScanFrameEnds \/ Relay
  \/ pcB = "observe" /\ "reply" \in answers[reply.line] /\ Observe
  \/ /\ pcB = "observe"
     /\ answers' = [answers EXCEPT ![reply.line] = @ \union {"reply"}]
     /\ seen' = seen \union ({reply.text} \intersect Values)
     /\ UNCHANGED <<opts, varsA, varsB, varsEnv, verdict, approved, pending,
                    subOut>>

RelaySubToAgent == ScanFrame \/ ScanFrameEnds \/ Observe \/ Relay

-------------------------------------------------------------------------------
(* Run returns once both relays and the subprocess have ended.             *)
Returned == pcA = "stopped" /\ pcB = "stopped" /\ ~subAlive

Terminated == Returned /\ UNCHANGED vars

Next ==
  \/ AgentSends \/ AgentCloses \/ SubReplies \/ SubExits \/ Signal
  \/ RelayAgentToSub \/ RelaySubToAgent
  \/ Terminated

Spec == Init /\ [][Next]_vars

(* The relays and the kill always get to run; the approver's deadline does *)
(* too.  Nothing is assumed of the agent, the operator or the subprocess,  *)
(* except that a cancelled context kills it (exec.CommandContext).         *)
Fairness ==
  /\ WF_vars(ScanLine \/ ScanEOF \/ Evaluate \/ ApprovalExpires
             \/ ApprovalCancelled \/ ApprovalRefused
             \/ Audit \/ Remember \/ Forward \/ Refuse)
  /\ WF_vars(RelaySubToAgent)
  /\ WF_vars(cancelled /\ SubExits)

FairSpec == Spec /\ Fairness

-------------------------------------------------------------------------------
(* Properties.                                                             *)

Logged(n, d) == \E k \in DOMAIN log : log[k].line = n /\ log[k].decision = d

Trail ==
  [n \in Lines |-> IF n \in lost THEN "lost"
                   ELSE IF Logged(n, "allow") THEN "allow"
                   ELSE IF Logged(n, "deny") THEN "deny" ELSE "none"]

Written == {subIn[k] : k \in DOMAIN subIn}

Passed == {n \in Written : sent[n].kind = "call"}

G == INSTANCE Gate WITH
       Calls <- Lines, verdict <- verdict, trail <- Trail, passed <- Passed

(* The proxy is a gate: a call is settled once, recorded (or the failure   *)
(* to record it noticed) once, with the settled decision, and only then    *)
(* written to the subprocess, once and only if allowed.                    *)
GateSpec == G!Spec

TypeOK ==
  /\ opts \in Configs
  /\ sent \in Seq(Messages) /\ Len(sent) <= MaxLines
  /\ nread \in 0 .. Len(sent)
  /\ pcA \in {"scan", "evaluate", "resolve", "audit", "remember", "forward",
              "refuse", "stopped"}
  /\ decision \in Decisions \union {"none"}
  /\ code \in Codes \union {"none"}
  /\ log \in Seq([line : Lines, decision : {"allow", "deny"}, code : Codes])
  /\ lost \in SUBSET Lines
  /\ pending \in [Ids -> Tools \union {None}]
  /\ subIn \in Seq(Lines) /\ subOut \in Seq(Replies)
  /\ replies \in SUBSET Replies
  /\ pcB \in {"scan", "observe", "relay", "stopped"}
  /\ reply \in Replies \union {None}
  /\ source \in Tools \union {None}
  /\ tracked \in [Values -> Tools \union {None}]
  /\ subAlive \in BOOLEAN /\ agentGone \in BOOLEAN /\ cancelled \in BOOLEAN
  /\ verdict \in [Lines -> {"none", "allow", "deny"}]
  /\ approved \in SUBSET Lines /\ seen \in SUBSET Values
  /\ answers \in [Lines -> SUBSET {"reply", "blocked", "invalid"}]

Explained(e) ==
  \/ e.code = "policy" /\ Static[sent[e.line].tool] = "allow"
  \/ e.code = "approved" /\ e.line \in approved

(* The log holds one event per settled call, in the order the agent made   *)
(* the calls, and it explains every allow: a call the policy did not allow *)
(* by itself, or whose argument was tainted, was allowed by an operator.   *)
LogOrderedAndExplained ==
  /\ \A j, k \in DOMAIN log : j < k => log[j].line < log[k].line
  /\ \A k \in DOMAIN log : log[k].decision = "allow" => Explained(log[k])

TrackerFull == Cardinality({v \in Values : tracked[v] # None}) >= MaxTracked

(* Taint (proxy.go:320-325): a call the agent derived from a tool result   *)
(* it had already received is never let through on the policy's word, for  *)
(* the result was observed before it was relayed.                          *)
DerivedCallsNeedApproval ==
  \A n \in 1 .. nread :
    /\ sent[n].derived /\ sent[n].arg \in Trackable
    /\ verdict[n] = "allow"
    => \/ opts.taint = "off"
       \/ opts.taint = "escalate" /\ n \in approved
       \/ TrackerFull

(* Every remembered fragment is attributed to the tool that returned it:   *)
(* the subprocess answered a call of that very tool with that very value.  *)
(* Replies may overtake one another and an error reply leaves its entry    *)
(* behind, so takePending must hand relay B the tool of this reply's call. *)
TaintSourceReal ==
  \A v \in Values : tracked[v] # None =>
    \E f \in replies :
      /\ f.text = v
      /\ sent[f.line].kind = "call" /\ sent[f.line].tool = tracked[v]

(* One answer per request: a call the proxy refused is not also answered   *)
(* by the server, and a notification is answered by nobody.                *)
OneAnswer ==
  \A n \in DOMAIN sent :
    /\ Cardinality(answers[n]) <= (IF sent[n].id = NoId THEN 0 ELSE 1)
    /\ answers[n] \intersect {"blocked", "invalid"} # {} => n \notin Written

(* relay.pending attributes a result only to a call it stands for: the     *)
(* entry's tool is that of the one line with that id, and the line was     *)
(* settled as allow before the entry was made.                             *)
PendingIsACall ==
  \A i \in Ids : pending[i] # None =>
    \E n \in 1 .. nread :
      /\ sent[n].kind = "call" /\ sent[n].id = i
      /\ sent[n].tool = pending[i]
      /\ verdict[n] = "allow"

(* With a bounded approval every line the agent sends is dealt with, for   *)
(* as long as the relay runs (relayAgentToSub is sequential: an unanswered *)
(* prompt holds up every later line).                                      *)
LinesDealtWith ==
  \A n \in Lines :
    (Len(sent) >= n) ~> ((nread >= n /\ pcA = "scan") \/ pcA = "stopped")

(* Every frame of the subprocess reaches the agent, unless relay B ends.   *)
FramesRelayed ==
  (subOut # <<>>) ~> ((subOut = <<>> /\ pcB = "scan") \/ pcB = "stopped")

(* Run ends once the agent has hung up and the context is cancelled.       *)
HangUpReturns == (agentGone /\ cancelled) ~> Returned

(* docs/threat-model.md on graceful shutdown: "on a signal the relay       *)
(* stops".  relayAgentToSub is blocked in Scan and nothing closes stdin.   *)
SignalStopsRelay == cancelled ~> Returned
===============================================================================
