---------------------------- MODULE CheckCommand ----------------------------
(***************************************************************************)
(* `agentfence check', runCheck in cmd/agentfence/main.go: it loads a      *)
(* policy, evaluates the calls of a file one line after the other, has an  *)
(* operator answer the asks, writes an audit event for every line, and     *)
(* turns what it met into an exit code.  The audit sink runs beside it.    *)
(*                                                                         *)
(* How a line of the log comes about, write by write, is in AuditLog; here *)
(* Writer.Write succeeds, or fails with the line in the log or not.        *)
(***************************************************************************)
EXTENDS PolicyEngine, AuditSink, FiniteSets

CONSTANT Jobs   \* the command lines, policy files and inputs of a run

(* A call of a job, its texts being in the table of the engine.            *)
IsCall(c) ==
  /\ c.tool \in STRING
  /\ \A a \in DOMAIN c.args :
       /\ c.args[a].text \in DOMAIN Text
       /\ {c.args[a].string, c.args[a].nil, c.args[a].exact} \subseteq BOOLEAN

(* failOn: the decisions --fail-on names.  timeout: --approval-timeout is  *)
(* set.  sink: an --audit-sink is configured.  summary: --summary is set.  *)
(* A line is [form, call], form being "call" or "bad" (ParseToolCall       *)
(* refuses it).                                                            *)
ASSUME JobsAssumption ==
  \A j \in Jobs :
    /\ j.failOn \subseteq {"deny", "ask"}
    /\ {j.dryRun, j.noInteractive, j.timeout, j.sink, j.summary}
         \subseteq BOOLEAN
    /\ IsTree(j.fs)
    /\ \A f \in DOMAIN j.fs.content :
         Names(j.fs.content[f].policy) \subseteq ToSet(NameOrder)
    /\ Len(j.lines) \in Nat /\ DOMAIN j.lines = 1 .. Len(j.lines)
    /\ \A i \in 1 .. Len(j.lines) :
         \/ j.lines[i].form = "call" /\ IsCall(j.lines[i].call)
         \/ j.lines[i].form = "bad"

VARIABLES
  job,          \* the job of this run
  stage,        \* where runCheck stands
  policy,       \* what LoadFile returned
  lineNum,      \* the lines scanned
  result,       \* the decision of the line in hand, and its event's fields
  counts,       \* the decisions so far
  parseErrors,  \* the lines that did not parse
  log,          \* the events in the audit log
  summary,      \* the gate summary, <<>> before it is written
  exit          \* what runCheck returns

(* History.                                                                *)
VARIABLE approved   \* the lines whose call an operator approved

walk == <<policy, lineNum, result, counts, parseErrors>>
vars == <<job, stage, walk, log, summary, exit, approved, sinkVars>>

NoResult == [decision |-> "none", code |-> "", key |-> "", action |-> <<>>,
             policy |-> <<>>]

Init ==
  /\ job \in Jobs /\ stage = "load" /\ policy = Failed("none")
  /\ lineNum = 0 /\ result = NoResult /\ parseErrors = 0
  /\ counts = [d \in Decisions |-> 0]
  /\ log = <<>> /\ summary = <<>> /\ exit = "none"
  /\ approved = {}
  /\ SinkInit

Line == job.lines[lineNum]

Return(e) == exit' = e /\ stage' = "close"

-------------------------------------------------------------------------------
(* Before the first line.                                                  *)

(* policy.LoadFile and engine.New, before anything else is opened.         *)
LoadPolicy ==
  /\ stage = "load"
  /\ policy' = LoadFile(job.fs)
  /\ IF policy'.err = "none" /\ Compiles(policy'.policy)
     THEN stage' = "open" /\ UNCHANGED exit
     ELSE stage' = "exited" /\ exit' = "error"
  /\ UNCHANGED <<job, lineNum, result, counts, parseErrors, log, summary,
                 approved, sinkVars>>

(* The signing key cannot be loaded, or the sink not be started.           *)
OpenFails ==
  /\ stage = "open" /\ Return("error")
  /\ UNCHANGED <<job, walk, log, summary, approved, sinkVars>>

(* openAuditOutput: the sink, then the file.                               *)
OpenAudit ==
  /\ stage = "open"
  /\ IF job.sink THEN OpenSink ELSE UNCHANGED sinkVars
  /\ stage' = "prepare"
  /\ UNCHANGED <<job, walk, log, summary, exit, approved>>

(* The approver and the file of calls.                                     *)
Prepare ==
  /\ stage = "prepare" /\ stage' = "scan"
  /\ UNCHANGED <<job, walk, log, summary, exit, approved, sinkVars>>

(* The audit log or the file of calls cannot be opened: what was opened    *)
(* before it is closed.                                                    *)
PrepareFails ==
  /\ stage = "prepare" /\ Return("error")
  /\ UNCHANGED <<job, walk, log, summary, approved, sinkVars>>

-------------------------------------------------------------------------------
(* One line.                                                               *)

(* Defect: a dry run asks the operator.                                    *)
NeedsApprovalAlways(r) == r.decision = "ask"

NeedsApproval(r) == r.decision = "ask" /\ ~job.dryRun

ScanCall ==
  /\ stage = "scan" /\ lineNum < Len(job.lines)
  /\ job.lines[lineNum + 1].form = "call"
  /\ lineNum' = lineNum + 1
  /\ result' = EvaluateBound(policy.policy, job.lines[lineNum'].call)
  /\ stage' = IF NeedsApproval(result') THEN "ask" ELSE "write"
  /\ UNCHANGED <<job, policy, counts, parseErrors, log, summary, exit,
                 approved, sinkVars>>

ScanBadLine ==
  /\ stage = "scan" /\ lineNum < Len(job.lines)
  /\ job.lines[lineNum + 1].form = "bad"
  /\ lineNum' = lineNum + 1 /\ parseErrors' = parseErrors + 1
  /\ result' = [NoResult EXCEPT !.decision = "deny", !.code = "parse_error"]
  /\ stage' = "write"
  /\ UNCHANGED <<job, policy, counts, log, summary, exit, approved,
                 sinkVars>>

(* The scanner gives up: a read error, or a line longer than its buffer.   *)
ScanFails ==
  /\ stage = "scan" /\ lineNum < Len(job.lines) /\ Return("error")
  /\ UNCHANGED <<job, walk, log, summary, approved, sinkVars>>

(* Defect: a deadline that passes lets the call through.                   *)
ResolveTimeoutAllows(decision, code) ==
  /\ stage = "ask" /\ stage' = "write"
  /\ result' = [result EXCEPT !.code = code,
                 !.decision = IF code = "approval_timeout" THEN "allow"
                                                           ELSE decision]
  /\ UNCHANGED <<job, policy, lineNum, counts, parseErrors, log, summary, exit,
                 sinkVars>>

(* resolveAsk.                                                             *)
Resolve(decision, code) ==
  /\ stage = "ask" /\ stage' = "write"
  /\ result' = [result EXCEPT !.decision = decision, !.code = code]
  /\ UNCHANGED <<job, policy, lineNum, counts, parseErrors, log, summary, exit,
                 sinkVars>>

OperatorApproves ==
  /\ ~job.noInteractive
  /\ Resolve("allow", "approval_approved")
  /\ approved' = approved \union {lineNum}

OperatorDenies ==
  /\ ~job.noInteractive
  /\ \E code \in {"approval_denied", "approval_io_error"} :
       Resolve("deny", code)
  /\ UNCHANGED approved

ApprovalExpires ==
  /\ ~job.noInteractive /\ job.timeout
  /\ Resolve("deny", "approval_timeout")
  /\ UNCHANGED approved

DenyAll ==
  /\ job.noInteractive
  /\ Resolve("deny", "non_interactive_denied")
  /\ UNCHANGED approved

Count == counts' = [counts EXCEPT ![result.decision] = @ + 1]

Event == [line |-> lineNum, decision |-> result.decision,
          code |-> result.code, action |-> result.action,
          policy |-> result.policy,
          mode |-> IF job.dryRun /\ Line.form = "call" THEN "dry_run" ELSE ""]

(* The line goes into the log and, at once, to the sink.                   *)
Ship ==
  /\ log' = Append(log, Event)
  /\ IF sink = "off" THEN UNCHANGED sinkVars ELSE Emit(lineNum)

(* The decision is counted and its event written.                          *)
WriteEvent ==
  /\ stage = "write" /\ stage' = "scan"
  /\ Count /\ Ship
  /\ UNCHANGED <<job, policy, lineNum, result, parseErrors, summary, exit,
                 approved>>

(* Defect: an event that cannot be synced is kept from the sink.           *)
WriteFailsUnshipped ==
  /\ stage = "write" /\ Return("error")
  /\ IF Line.form = "call" THEN Count ELSE UNCHANGED counts
  /\ log' \in {log, Append(log, Event)} /\ UNCHANGED sinkVars
  /\ UNCHANGED <<job, policy, lineNum, result, parseErrors, summary, approved>>

(* The line cannot be written, or only its fsync fails, when it is in the  *)
(* log and with the sink.  A line that did not parse is counted after its  *)
(* event is written.                                                       *)
WriteFails ==
  /\ stage = "write" /\ Return("error")
  /\ IF Line.form = "call" THEN Count ELSE UNCHANGED counts
  /\ Ship \/ UNCHANGED <<log, sinkVars>>
  /\ UNCHANGED <<job, policy, lineNum, result, parseErrors, summary, approved>>

-------------------------------------------------------------------------------
(* After the last line.                                                    *)

Matched == LET in(d) == IF d \in job.failOn THEN counts[d] ELSE 0
           IN  in("deny") + in("ask")

(* Defect: a dry run fails the gate.                                       *)
GateFailsDry == Matched > 0

GateFails == ~job.dryRun /\ Matched > 0

Finished == stage = "scan" /\ lineNum = Len(job.lines)

(* No line parsed: an error, and no summary.                               *)
AllLinesFailed ==
  /\ Finished /\ lineNum > 0 /\ lineNum = parseErrors /\ Return("error")
  /\ UNCHANGED <<job, walk, log, summary, approved, sinkVars>>

Finish ==
  /\ Finished /\ ~(lineNum > 0 /\ lineNum = parseErrors)
  /\ summary' = IF job.summary
                THEN <<[total |-> lineNum, parseErrors |-> parseErrors,
                        counts |-> counts, matched |-> Matched,
                        failed |-> GateFails]>>
                ELSE <<>>
  /\ Return(IF GateFails THEN "gate" ELSE "ok")
  /\ UNCHANGED <<job, walk, log, approved, sinkVars>>

SummaryFails ==
  /\ Finished /\ ~(lineNum > 0 /\ lineNum = parseErrors) /\ job.summary
  /\ Return("error")
  /\ UNCHANGED <<job, walk, log, summary, approved, sinkVars>>

(* The deferred closeAudit: the file, then the sink.                       *)
CloseAudit ==
  /\ stage = "close" /\ stage' = "wait"
  /\ IF sink = "off" THEN UNCHANGED sinkVars ELSE CloseSink
  /\ UNCHANGED <<job, walk, log, summary, exit, approved>>

Exit ==
  /\ stage = "wait" /\ sink \in {"off", "closed"} /\ stage' = "exited"
  /\ UNCHANGED <<job, walk, log, summary, exit, approved, sinkVars>>

-------------------------------------------------------------------------------

Operator == OperatorApproves \/ OperatorDenies

Check ==
  \/ LoadPolicy \/ OpenAudit \/ OpenFails
  \/ Prepare \/ PrepareFails
  \/ ScanCall \/ ScanBadLine \/ ScanFails
  \/ ApprovalExpires \/ DenyAll
  \/ WriteEvent \/ WriteFails
  \/ AllLinesFailed \/ Finish \/ SummaryFails \/ CloseAudit \/ Exit

SinkRuns == Run /\ UNCHANGED <<job, stage, walk, log, summary, exit, approved>>

Terminated == stage = "exited" /\ UNCHANGED vars

Next == Check \/ Operator \/ SinkRuns \/ Terminated

Spec == Init /\ [][Next]_vars

(* What runCheck waits for: an operator, or the sink it closes.            *)
CheckWaits ==
  \/ stage = "ask" /\ ~job.noInteractive /\ ~job.timeout
  \/ stage = "wait" /\ sink \notin {"off", "closed"}
  \/ stage = "exited"

(* runCheck and the sink's goroutine run whenever they can, and a deadline *)
(* expires.  Nothing is assumed of an operator.  The first conjunct is     *)
(* WF_vars(Check) with ENABLED <<Check>>_vars written out, which TLC would *)
(* take too long to evaluate.                                              *)
FairSpec == /\ Spec
            /\ []<>CheckWaits \/ []<><<Check>>_vars
            /\ WF_vars(SinkRuns)

-------------------------------------------------------------------------------
(* Properties.                                                             *)

(* The reason codes of an event, by what sets them.                        *)
EvaluationCodes ==
  RefusalCodes \union {"rule_match", "default_decision",
                       "action_binding_failed", "policy_binding_failed"}

ApprovalCodes == {"approval_approved", "approval_denied", "approval_io_error",
                  "approval_timeout", "non_interactive_denied"}

Results ==
  [decision : Decisions \union {"none"},
   code : EvaluationCodes \union ApprovalCodes \union {"", "parse_error"},
   key : {""} \union DOMAIN policy.policy.tools,
   action : {<<>>} \union {ToolActionDigest(job.lines[i].call) :
              i \in {k \in 1 .. Len(job.lines) : job.lines[k].form = "call"}},
   policy : {<<>>, <<policy.policy>>}]

(* The state has the shape runCheck's variables have: the counts add up to *)
(* the lines counted, and only lines scanned are in the log or the sink.   *)
TypeOK ==
  /\ stage \in {"load", "open", "prepare", "scan", "ask", "write", "close",
                "wait", "exited"}
  /\ lineNum \in 0 .. Len(job.lines) /\ parseErrors \in 0 .. lineNum
  /\ result \in Results
  /\ counts \in [Decisions -> 0 .. lineNum]
  /\ Len(log) <= lineNum /\ approved \subseteq 1 .. lineNum
  /\ exit \in {"none", "ok", "gate", "error"} /\ Len(summary) <= 1
  /\ sink \in {"off", "open", "closing", "closed"} /\ flushing \in BOOLEAN
  /\ Len(ch) <= BufferSize /\ Len(batch) <= BatchSize
  /\ ToSet(ch) \union ToSet(batch) \union ToSet(sent) \union dropped
       \union failed \subseteq 1 .. lineNum

PolicyLoaded == stage # "load" /\ policy.err = "none"

(* The files of a tree that loads, each after the files it imports.        *)
LoadOrder(fs) ==
  LET order[path \in Paths(fs)] ==
        IF OpenError(fs, path) # "none" THEN <<>>
        ELSE FlattenSeq(Children(fs, path, order)) \o <<Last(path)>>
  IN  order[<<fs.root>>]

(* Of the files a policy is made of, with the defaults each was given, the *)
(* last to set a scalar, a tool or a group is the one that counts; the     *)
(* patterns of all apply, in order; and what one of them enables stays     *)
(* enabled (mergePolicy and docs/policy-language.md, "Policy imports").    *)
LastLayerWins ==
  PolicyLoaded =>
    LET p == policy.policy
        files == LoadOrder(job.fs)
        layers == [i \in 1 .. Len(files) |->
                     ApplyDefaults(job.fs.content[files[i]].policy)]
        Wins(field, unset) ==
          LET i == SelectLastInSeq(layers, LAMBDA l : l[field] # unset)
          IN  p[field] = IF i = 0 THEN unset ELSE layers[i][field]
        KeysWin(map) ==
          /\ DOMAIN p[map] = UNION {DOMAIN l[map] : l \in ToSet(layers)}
          /\ \A k \in DOMAIN p[map] :
               LET i == SelectLastInSeq(layers, LAMBDA l : k \in DOMAIN l[map])
               IN  p[map][k] = layers[i][map][k]
        Stays(flag) == p[flag] = \E l \in ToSet(layers) : l[flag]
    IN  /\ \A field \in {"version", "decision", "format", "mode"} :
             Wins(field, "")
        /\ Wins("minLength", 0)
        /\ KeysWin("tools") /\ KeysWin("groups")
        /\ p.patterns =
             FlattenSeq([i \in 1 .. Len(layers) |-> layers[i].patterns])
        /\ Stays("redact") /\ Stays("include") /\ Stays("taint")

(* `validate' accepts a policy exactly when `check' and the proxies load   *)
(* it and every file it is made of passes ValidateStrict: the two walks    *)
(* over the imports refuse the same trees.                                 *)
ValidateAgrees ==
  stage # "load" =>
    (ValidateFileStrict(job.fs) = {}
       <=> /\ policy.err = "none"
           /\ \A f \in ToSet(LoadOrder(job.fs)) :
                StrictErrors(job.fs.content[f].policy) = {})

InHand == stage \in {"ask", "write"} /\ Line.form = "call"

(* The call in hand, if it has a digest, falls under the rule of its exact *)
(* name, or else of the first group that has a rule and a member matching  *)
(* it, or else of the first pattern that is no group and matches it,       *)
(* whatever other rules match it too (lookupRule's comment).               *)
RulePrecedence ==
  InHand /\ Exact(Line.call) =>
    LET p == policy.policy
        tool == Line.call.tool
        key == result.key
        Before(a, b) == Rank(NameOrder, a) < Rank(NameOrder, b)
        Groups == {g \in DOMAIN p.groups \intersect DOMAIN p.tools :
                     \E m \in ToSet(p.groups[g]) : MatchesGlob(m, tool)}
        Patterns == {k \in DOMAIN p.tools \ DOMAIN p.groups :
                       MatchesGlob(k, tool)}
    IN  \/ key = tool /\ tool \in DOMAIN p.tools
        \/ /\ tool \notin DOMAIN p.tools
           /\ \/ key \in Groups /\ \A g \in Groups : ~Before(g, key)
              \/ /\ Groups = {} /\ key \in Patterns
                 /\ \A k \in Patterns : ~Before(k, key)
              \/ Groups = {} /\ Patterns = {} /\ key = ""

(* What a rule asks of a call, in whatever order it is checked.            *)
MeetsLists(lists, text) ==
  /\ ~MatchesAny(lists.deny, text)
  /\ lists.allow # {} => MatchesAny(lists.allow, text)

Constrains(lists) == lists.allow \union lists.deny # {}

MeetsMemory(p, m, call) ==
  LET payload == MemoryPayload(m, call)
  IN  /\ payload # ""
      /\ m.bytes > 0 => Text[payload].size <= m.bytes
      /\ m.scope # "" =>
           Rank(MemoryScopes, MemoryScope(call))
             \in 0 .. Rank(MemoryScopes, m.scope)
      /\ m.sensitivity # "" =>
           /\ ~UnknownSensitivity(call)
           /\ MatchesPattern(p, payload) => m.sensitivity = "high"
           /\ Rank(MemorySensitivities, StringArg(call, "sensitivity"))
                <= Rank(MemorySensitivities, m.sensitivity)

(* A call that is not refused carries every argument its rule constrains,  *)
(* and every one of them is what the rule allows: a missing or misshapen   *)
(* argument never slips through, and a path is safe even under a rule that *)
(* says nothing of paths.                                                  *)
ConstraintsFailClosed ==
  InHand /\ result.key # "" /\ result.decision # "deny" =>
    LET call == Line.call
        rule == policy.policy.tools[result.key]
        path == StringArg(call, "path")
        url == StringArg(call, "url")
        command == StringArg(call, "command")
    IN  /\ path # "" => ~Text[path].unsafe
        /\ Constrains(rule.paths) =>
             path # "" /\ MeetsLists(rule.paths, Text[path].clean)
        /\ \A f \in DOMAIN rule.args :
             /\ f \in DOMAIN call.args /\ ~call.args[f].nil
             /\ MeetsLists(rule.args[f], call.args[f].text)
        /\ Constrains(rule.urls) =>
             url # "" /\ Text[url].url = "plain" /\ MeetsLists(rule.urls, url)
        /\ rule.command.deny \union rule.command.executables # {} =>
             /\ command # "" /\ ~MatchesAny(rule.command.deny, command)
             /\ rule.command.executables # {} =>
                  Text[command].executable \in rule.command.executables
        /\ MemoryIsSet(rule.memory) =>
             MeetsMemory(policy.policy, rule.memory, call)

(* Every event of the log can be reproduced: it carries the digests of the *)
(* call of its line and of the policy loaded, its decision is what that    *)
(* policy says of that call, and where the policy asks it is the           *)
(* operator's answer, or in a dry run still ask (docs/modes.md).  A call   *)
(* that has no exact digest is denied and bound to nothing.                *)
EventsExplained ==
  \A i \in 1 .. Len(log) :
    LET e == log[i]
        l == job.lines[e.line]
        said == Evaluate(policy.policy, l.call)
    IN  IF l.form = "bad"
        THEN e.decision = "deny" /\ e.code = "parse_error"
        ELSE IF ~Exact(l.call)
        THEN /\ e.decision = "deny" /\ e.code = "action_binding_failed"
             /\ e.action = <<>>
        ELSE /\ e.action = ToolActionDigest(l.call)
             /\ e.policy = <<policy.policy>>
             /\ (e.mode = "dry_run") = job.dryRun
             /\ IF said.decision = "ask" /\ ~job.dryRun
                THEN e.decision = IF e.line \in approved
                                  THEN "allow" ELSE "deny"
                ELSE e.decision = said.decision /\ e.code = said.code

(* The log holds the lines in order, one event each, and what runCheck     *)
(* returns agrees with it: nothing is missing from a run that ended well,  *)
(* the gate fails exactly when the log holds a decision it names, never in *)
(* a dry run, and the summary counts what is in the log.                   *)
ExitAgreesWithLog ==
  LET In(d) == Cardinality({i \in 1 .. Len(log) : log[i].decision = d})
      gated == \E d \in job.failOn : In(d) > 0
  IN  /\ \A i \in 1 .. Len(log) : log[i].line = i
      /\ exit \in {"ok", "gate"} =>
           /\ Len(log) = Len(job.lines)
           /\ log # <<>> =>
                \E i \in 1 .. Len(log) : log[i].code # "parse_error"
           /\ (exit = "gate") = (gated /\ ~job.dryRun)
           /\ job.summary =>
                /\ summary[1].counts = [d \in Decisions |-> In(d)]
                /\ summary[1].failed = (exit = "gate")
      /\ summary # <<>> => exit \in {"ok", "gate"}

(* The sink mirrors the log: it is given the events of the log, in order,  *)
(* and no other; each is delivered, given up with its batch or counted as  *)
(* dropped, exactly one of the three; and none is left behind when check   *)
(* exits (the comments of Writer.Write and openAuditOutput: "a sink never  *)
(* loses buffered events written just before shutdown").                   *)
SinkMirrorsLog ==
  LET carried == sent \o batch \o ch
  IN  /\ \A i, j \in 1 .. Len(carried) : i < j => carried[i] < carried[j]
      /\ ToSet(carried) \intersect (dropped \union failed) = {}
      /\ dropped \intersect failed = {}
      /\ ToSet(carried) \union dropped \union failed
           = IF sink = "off" THEN {} ELSE {log[i].line : i \in 1 .. Len(log)}
      /\ stage = "exited" => batch \o ch = <<>>

(* A check nobody has to attend ends, with its sink closed.                *)
CheckEnds ==
  (job.dryRun \/ job.noInteractive \/ job.timeout) ~> stage = "exited"
===============================================================================
