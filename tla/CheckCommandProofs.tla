------------------------- MODULE CheckCommandProofs -------------------------
(***************************************************************************)
(* The invariants of `agentfence check', for every job: what its log, its  *)
(* counts, its exit code and its sink have to do with each other, and with *)
(* the policy and the calls the job gives it.                              *)
(***************************************************************************)
EXTENDS CheckCommand, PolicyEngineProofs

-------------------------------------------------------------------------------
(* The inductive invariant.                                                *)

Opening == {"load", "open", "prepare"}

Walking == {"scan", "ask", "write"}

Ending == {"close", "wait", "exited"}

Codes == EvaluationCodes \union ApprovalCodes \union {"", "parse_error"}

Actions ==
  {<<>>} \union {ToolActionDigest(job.lines[i].call) :
           i \in {k \in 1 .. Len(job.lines) : job.lines[k].form = "call"}}

Events ==
  [line : Nat, decision : Decisions, code : Codes, action : Actions,
   policy : {<<>>, <<policy.policy>>}, mode : {"", "dry_run"}]

(* No line has been looked at.                                             *)
Fresh ==
  /\ lineNum = 0 /\ parseErrors = 0 /\ result = NoResult
  /\ counts = [d \in Decisions |-> 0]
  /\ log = <<>> /\ summary = <<>> /\ approved = {}

(* The policy that the calls are evaluated by.                             *)
Ready ==
  /\ policy.err = "none" /\ Parsed(policy.policy) /\ Compiles(policy.policy)
  /\ Names(policy.policy) \subseteq ToSet(NameOrder)

PolicyInv ==
  /\ job \in Jobs /\ stage \in Opening \union Walking \union Ending
  /\ stage \in Opening => Fresh
  /\ \/ stage = "load" \/ Ready
     \/ stage = "exited" /\ Fresh /\ exit = "error"

(* The log holds the lines looked at, but for the one in hand.             *)
LineInv ==
  /\ lineNum \in 0 .. Len(job.lines) /\ parseErrors \in 0 .. lineNum
  /\ result \in Results /\ log \in Seq(Events)
  /\ Len(log) <= lineNum /\ approved \subseteq 1 .. lineNum
  /\ stage = "scan" => Len(log) = lineNum
  /\ stage \in {"ask", "write"} => lineNum >= 1 /\ Len(log) = lineNum - 1
  /\ \A i \in 1 .. Len(log) : log[i].line = i
  /\ exit \in {"none", "ok", "gate", "error"}
  /\ (exit = "none") = (stage \notin Ending)

(* What the line in hand was decided on.                                   *)
HandInv ==
  /\ stage = "ask" => /\ Line.form = "call" /\ lineNum \notin approved
                      /\ result = EvaluateBound(policy.policy, Line.call)
                      /\ NeedsApproval(result)
  /\ stage = "write" => result.decision \in Decisions
  /\ stage = "write" /\ Line.form = "call" =>
       LET said == EvaluateBound(policy.policy, Line.call)
       IN  /\ result.key = said.key /\ result.action = said.action
           /\ result.policy = said.policy
           /\ IF NeedsApproval(said)
              THEN result.decision = IF lineNum \in approved
                                     THEN "allow" ELSE "deny"
              ELSE result.decision = said.decision /\ result.code = said.code
           /\ result.code # "parse_error"
  /\ stage = "write" /\ Line.form = "bad" =>
       result.decision = "deny" /\ result.code = "parse_error"

(* The events of decision d in the log.                                    *)
Logged(d) == {i \in 1 .. Len(log) : log[i].decision = d}

CountInv ==
  /\ counts \in [Decisions -> 0 .. lineNum]
  /\ stage \in {"ask", "write"} => \A d \in Decisions : counts[d] < lineNum
  /\ exit # "error" => \A d \in Decisions : counts[d] = Cardinality(Logged(d))
  /\ parseErrors < lineNum =>
       \E i \in 1 .. lineNum : job.lines[i].form = "call"
  /\ \A i \in 1 .. Len(log) :
       log[i].code = "parse_error" => job.lines[i].form = "bad"

(* What a run that ended well has returned and written.                    *)
OutcomeInv ==
  /\ exit \in {"ok", "gate"} =>
       /\ Len(log) = lineNum /\ lineNum = Len(job.lines)
       /\ lineNum > 0 => parseErrors < lineNum
       /\ (exit = "gate") = GateFails
       /\ summary = IF job.summary
                    THEN <<[total |-> lineNum, parseErrors |-> parseErrors,
                            counts |-> counts, matched |-> Matched,
                            failed |-> GateFails]>>
                    ELSE <<>>
  /\ exit \notin {"ok", "gate"} => summary = <<>>

(* What the event e of the log has to do with its line.                    *)
Explained(e) ==
  LET l == job.lines[e.line]
      said == Evaluate(policy.policy, l.call)
  IN  IF l.form = "bad"
      THEN e.decision = "deny" /\ e.code = "parse_error"
      ELSE IF ~Exact(l.call)
      THEN /\ e.decision = "deny" /\ e.code = "action_binding_failed"
           /\ e.action = <<>>
      ELSE /\ e.action = ToolActionDigest(l.call)
           /\ e.policy = <<policy.policy>>
           /\ (e.mode = "dry_run") = job.dryRun
           /\ IF said.decision = "ask" /\ ~job.dryRun
              THEN e.decision = IF e.line \in approved THEN "allow" ELSE "deny"
              ELSE e.decision = said.decision /\ e.code = said.code

ExplainInv == \A i \in 1 .. Len(log) : Explained(log[i])

Elements(s) == {s[i] : i \in 1 .. Len(s)}

Rising(s) == \A i, j \in 1 .. Len(s) : i < j => s[i] < s[j]

Below(S, T) == \A x \in S : \A y \in T : x < y

(* The sink's goroutine is there while there is something to deliver.      *)
SinkInv ==
  /\ sink \in {"off", "open", "closing", "closed"} /\ flushing \in BOOLEAN
  /\ stage \in {"load", "open"} => sink = "off"
  /\ stage \in {"prepare", "scan", "ask", "write", "close"} =>
       sink \in {"off", "open"}
  /\ stage = "wait" => sink # "open"
  /\ stage = "exited" => sink \in {"off", "closed"}
  /\ sink \in {"off", "closed"} => ch = <<>> /\ batch = <<>> /\ ~flushing
  /\ Len(ch) <= BufferSize /\ Len(batch) <= BatchSize
  /\ ~flushing => Len(batch) < BatchSize

(* The events the sink was given are the log's, each in one place.         *)
MirrorInv ==
  /\ ch \in Seq(Nat) /\ batch \in Seq(Nat) /\ sent \in Seq(Nat)
  /\ Rising(sent) /\ Rising(batch) /\ Rising(ch)
  /\ Below(Elements(sent), Elements(batch))
  /\ Below(Elements(sent), Elements(ch))
  /\ Below(Elements(batch), Elements(ch))
  /\ dropped \intersect failed = {}
  /\ (Elements(sent) \union Elements(batch) \union Elements(ch))
       \intersect (dropped \union failed) = {}
  /\ Elements(sent) \union Elements(batch) \union Elements(ch)
       \union dropped \union failed
       = IF sink = "off" THEN {} ELSE 1 .. Len(log)

Inv == /\ PolicyInv /\ LineInv /\ HandInv /\ CountInv /\ OutcomeInv
       /\ ExplainInv /\ SinkInv /\ MirrorInv

-------------------------------------------------------------------------------
(* The inputs of a job.                                                    *)

(* A line of a job is a call the checks can read, or is no call.           *)
LEMMA JobLines ==
  ASSUME NEW j \in Jobs
  PROVE  /\ Len(j.lines) \in Nat
         /\ \A i \in 1 .. Len(j.lines) :
              \/ j.lines[i].form = "call" /\ Readable(j.lines[i].call)
              \/ j.lines[i].form = "bad"
  <1>1. /\ Len(j.lines) \in Nat
        /\ \A i \in 1 .. Len(j.lines) :
             \/ j.lines[i].form = "call" /\ IsCall(j.lines[i].call)
             \/ j.lines[i].form = "bad"
    BY JobsAssumption
  <1>2. \A c : IsCall(c) => Readable(c)
    BY DEF IsCall, Readable
  <1> QED
    BY <1>1, <1>2

-------------------------------------------------------------------------------
(* The initial states.                                                     *)

(* A command that has only been invoked meets the invariant.               *)
LEMMA InitInv == Init => Inv
  <1> SUFFICES ASSUME Init PROVE Inv
    OBVIOUS
  <1>1. Fresh /\ job \in Jobs /\ stage = "load" /\ exit = "none"
    BY DEF Init, Fresh
  <1>2. PolicyInv
    BY <1>1 DEF PolicyInv, Opening
  <1>3. LineInv
    <2>1. Len(job.lines) \in Nat
      BY <1>1, JobLines
    <2>2. NoResult \in Results
      BY DEF NoResult, Results
    <2> QED
      BY <1>1, <2>1, <2>2 DEF LineInv, Fresh, Ending
  <1>4. HandInv
    BY <1>1 DEF HandInv
  <1>5. CountInv
    <2>1. \A d : Logged(d) = {}
      BY <1>1 DEF Logged, Fresh
    <2>2. \A d \in Decisions : Cardinality(Logged(d)) = 0
      BY <2>1, FS_EmptySet
    <2>3. \A d \in Decisions : counts[d] = 0
      BY <1>1 DEF Fresh
    <2>4. counts \in [Decisions -> 0 .. lineNum]
      BY <1>1 DEF Fresh
    <2>5. ~(parseErrors < lineNum) /\ Len(log) = 0
      BY <1>1 DEF Fresh
    <2> QED
      BY <1>1, <2>2, <2>3, <2>4, <2>5 DEF CountInv
  <1>6. OutcomeInv
    BY <1>1 DEF OutcomeInv, Fresh
  <1>7. ExplainInv
    BY <1>1 DEF ExplainInv, Fresh
  <1>8. SinkInv
    <2>1. /\ sink = "off" /\ flushing = FALSE /\ ch = <<>> /\ batch = <<>>
          /\ Len(ch) = 0 /\ Len(batch) = 0
      BY DEF Init, SinkInit
    <2>2. 0 <= BufferSize /\ 0 <= BatchSize /\ 0 < BatchSize
      BY SinkAssumption
    <2> QED
      BY <1>1, <2>1, <2>2 DEF SinkInv
  <1>9. MirrorInv
    BY DEF Init, SinkInit, MirrorInv, Rising, Below, Elements
  <1> QED
    BY <1>2, <1>3, <1>4, <1>5, <1>6, <1>7, <1>8, <1>9 DEF Inv

-------------------------------------------------------------------------------
(* The policy.                                                             *)

(* The job never changes, and the policy changes only by its loading.      *)
LEMMA Frame ==
  ASSUME [Next]_vars
  PROVE  job' = job /\ (LoadPolicy \/ policy' = policy)
  <1>1. CASE LoadPolicy
    BY <1>1 DEF LoadPolicy
  <1>2. CASE OpenAudit
    BY <1>2 DEF OpenAudit, walk
  <1>3. CASE OpenFails
    BY <1>3 DEF OpenFails, walk, Return
  <1>4. CASE Prepare
    BY <1>4 DEF Prepare, walk
  <1>5. CASE PrepareFails
    BY <1>5 DEF PrepareFails, walk, Return
  <1>6. CASE ScanCall
    BY <1>6 DEF ScanCall
  <1>7. CASE ScanBadLine
    BY <1>7 DEF ScanBadLine
  <1>8. CASE ScanFails
    BY <1>8 DEF ScanFails, walk, Return
  <1>9. CASE ApprovalExpires
    BY <1>9 DEF ApprovalExpires, Resolve
  <1>10. CASE DenyAll
    BY <1>10 DEF DenyAll, Resolve
  <1>11. CASE WriteEvent
    BY <1>11 DEF WriteEvent
  <1>12. CASE WriteFails
    BY <1>12 DEF WriteFails, Return
  <1>13. CASE AllLinesFailed
    BY <1>13 DEF AllLinesFailed, walk, Return, Finished
  <1>14. CASE Finish
    BY <1>14 DEF Finish, walk, Return, Finished
  <1>15. CASE SummaryFails
    BY <1>15 DEF SummaryFails, walk, Return, Finished
  <1>16. CASE CloseAudit
    BY <1>16 DEF CloseAudit, walk
  <1>17. CASE Exit
    BY <1>17 DEF Exit, walk
  <1>18. CASE OperatorApproves
    BY <1>18 DEF OperatorApproves, Resolve
  <1>19. CASE OperatorDenies
    BY <1>19 DEF OperatorDenies, Resolve
  <1>20. CASE SinkRuns
    BY <1>20 DEF SinkRuns, walk
  <1>21. CASE UNCHANGED vars
    BY <1>21 DEF vars, walk, sinkVars
  <1> QED
    BY <1>1, <1>2, <1>3, <1>4, <1>5, <1>6, <1>7, <1>8, <1>9, <1>10, <1>11,
       <1>12, <1>13, <1>14, <1>15, <1>16, <1>17, <1>18, <1>19, <1>20, <1>21 DEF
       Next, Check, Operator, Terminated

(* Past the loading the policy in use is a parsed one that compiles.       *)
LEMMA PolicyStep ==
  ASSUME PolicyInv, [Next]_vars
  PROVE  PolicyInv'
  <1>0. job' = job /\ job' \in Jobs
    BY Frame DEF PolicyInv
  <1>1. CASE LoadPolicy
    <2>1. policy' = LoadFile(job.fs)
      BY <1>1 DEF LoadPolicy
    <2>2. CASE policy'.err = "none" /\ Compiles(policy'.policy)
      <3>1. IsTree(job.fs) /\ \A f \in DOMAIN job.fs.content :
               Names(job.fs.content[f].policy) \subseteq ToSet(NameOrder)
        BY <1>0, JobsAssumption
      <3>2. PICK fs : fs = job.fs
        OBVIOUS
      <3>3. Parsed(policy'.policy)
            /\ Names(policy'.policy) \subseteq ToSet(NameOrder)
        BY <2>1, <2>2, <3>1, <3>2, LoadedParsed
      <3>4. stage' = "open"
        BY <1>1, <2>2 DEF LoadPolicy
      <3>5. Fresh'
        BY <1>1 DEF LoadPolicy, PolicyInv, Opening, Fresh
      <3>6. Ready'
        BY <2>2, <3>3 DEF Ready
      <3> QED
        BY <1>0, <3>4, <3>5, <3>6 DEF PolicyInv, Opening
    <2>3. CASE ~(policy'.err = "none" /\ Compiles(policy'.policy))
      <3>1. stage' = "exited" /\ exit' = "error"
        BY <1>1, <2>3 DEF LoadPolicy
      <3>2. Fresh'
        BY <1>1 DEF LoadPolicy, PolicyInv, Opening, Fresh
      <3> QED
        BY <1>0, <3>1, <3>2 DEF PolicyInv, Opening, Walking, Ending
    <2> QED
      BY <2>2, <2>3
  <1>2. CASE OpenAudit
    BY <1>2, <1>0 DEF OpenAudit, walk, PolicyInv, Fresh, Ready, Opening,
       Walking, Ending
  <1>3. CASE OpenFails
    BY <1>3, <1>0 DEF OpenFails, walk, Return, PolicyInv, Fresh, Ready,
       Opening, Walking, Ending
  <1>4. CASE Prepare
    BY <1>4, <1>0 DEF Prepare, walk, PolicyInv, Fresh, Ready, Opening, Walking,
       Ending
  <1>5. CASE PrepareFails
    BY <1>5, <1>0 DEF PrepareFails, walk, Return, PolicyInv, Fresh, Ready,
       Opening, Walking, Ending
  <1>6. CASE ScanCall
    BY <1>6, <1>0 DEF ScanCall, PolicyInv, Fresh, Ready, Opening, Walking,
       Ending
  <1>7. CASE ScanBadLine
    BY <1>7, <1>0 DEF ScanBadLine, PolicyInv, Fresh, Ready, Opening, Walking,
       Ending
  <1>8. CASE ScanFails
    BY <1>8, <1>0 DEF ScanFails, walk, Return, PolicyInv, Fresh, Ready,
       Opening, Walking, Ending
  <1>9. CASE ApprovalExpires
    BY <1>9, <1>0 DEF ApprovalExpires, Resolve, PolicyInv, Fresh, Ready,
       Opening, Walking, Ending
  <1>10. CASE DenyAll
    BY <1>10, <1>0 DEF DenyAll, Resolve, PolicyInv, Fresh, Ready, Opening,
       Walking, Ending
  <1>11. CASE WriteEvent
    BY <1>11, <1>0 DEF WriteEvent, PolicyInv, Fresh, Ready, Opening, Walking,
       Ending
  <1>12. CASE WriteFails
    BY <1>12, <1>0 DEF WriteFails, Return, PolicyInv, Fresh, Ready, Opening,
       Walking, Ending
  <1>13. CASE AllLinesFailed
    BY <1>13, <1>0 DEF AllLinesFailed, walk, Return, Finished, PolicyInv,
       Fresh, Ready, Opening, Walking, Ending
  <1>14. CASE Finish
    BY <1>14, <1>0 DEF Finish, walk, Return, Finished, PolicyInv, Fresh, Ready,
       Opening, Walking, Ending
  <1>15. CASE SummaryFails
    BY <1>15, <1>0 DEF SummaryFails, walk, Return, Finished, PolicyInv, Fresh,
       Ready, Opening, Walking, Ending
  <1>16. CASE CloseAudit
    BY <1>16, <1>0 DEF CloseAudit, walk, PolicyInv, Fresh, Ready, Opening,
       Walking, Ending
  <1>17. CASE Exit
    BY <1>17, <1>0 DEF Exit, walk, PolicyInv, Fresh, Ready, Opening, Walking,
       Ending
  <1>18. CASE OperatorApproves
    BY <1>18, <1>0 DEF OperatorApproves, Resolve, PolicyInv, Fresh, Ready,
       Opening, Walking, Ending
  <1>19. CASE OperatorDenies
    BY <1>19, <1>0 DEF OperatorDenies, Resolve, PolicyInv, Fresh, Ready,
       Opening, Walking, Ending
  <1>20. CASE SinkRuns
    BY <1>20, <1>0 DEF SinkRuns, walk, PolicyInv, Fresh, Ready, Opening,
       Walking, Ending
  <1>21. CASE UNCHANGED vars
    BY <1>21, <1>0 DEF vars, walk, sinkVars, PolicyInv, Fresh, Ready, Opening,
       Walking, Ending
  <1> QED
    BY <1>1, <1>2, <1>3, <1>4, <1>5, <1>6, <1>7, <1>8, <1>9, <1>10, <1>11,
       <1>12, <1>13, <1>14, <1>15, <1>16, <1>17, <1>18, <1>19, <1>20, <1>21 DEF
       Next, Check, Operator, Terminated

-------------------------------------------------------------------------------
(* The lines and their results.                                            *)

(* Past the loading the policy is ready for use.                           *)
LEMMA ReadyNow ==
  ASSUME PolicyInv, stage \notin {"load", "exited"}
  PROVE  Ready
  BY DEF PolicyInv

(* What the job in hand looks like.                                        *)
LEMMA JobNow ==
  ASSUME PolicyInv
  PROVE  /\ Len(job.lines) \in Nat
         /\ \A i \in 1 .. Len(job.lines) :
              \/ job.lines[i].form = "call" /\ Readable(job.lines[i].call)
              \/ job.lines[i].form = "bad"
         /\ job.failOn \subseteq {"deny", "ask"} /\ job.dryRun \in BOOLEAN
         /\ job.summary \in BOOLEAN
  <1>1. job \in Jobs
    BY DEF PolicyInv
  <1>2. PICK j \in Jobs : j = job
    BY <1>1
  <1>3. /\ j.failOn \subseteq {"deny", "ask"} /\ j.dryRun \in BOOLEAN
        /\ j.summary \in BOOLEAN
    BY JobsAssumption
  <1> QED
    BY <1>2, <1>3, JobLines

(* Evaluating a call of a job gives a decision with a code of its own.     *)
LEMMA ScanResult ==
  ASSUME Ready, NEW n \in 1 .. Len(job.lines), job.lines[n].form = "call",
         Readable(job.lines[n].call)
  PROVE  LET r == EvaluateBound(policy.policy, job.lines[n].call)
         IN  r \in Results /\ r.decision \in Decisions /\ r.code \in EvaluationCodes
  <1>1. PICK p : p = policy.policy
    OBVIOUS
  <1>2. PICK call : call = job.lines[n].call
    OBVIOUS
  <1>3. PICK r : r = EvaluateBound(p, call)
    OBVIOUS
  <1>4. PICK said : said = Evaluate(p, call)
    OBVIOUS
  <1>5. PICK a : a = ToolActionDigest(call)
    OBVIOUS
  <1>6. Decides(p, call, said)
    BY <1>1, <1>2, <1>4, EvaluateDecides DEF Ready
  <1>7. r = IF ~Exact(call) THEN BindingFailure("action_binding_failed", <<>>)
            ELSE [decision |-> said.decision, code |-> said.code,
                  key |-> said.key, action |-> a, policy |-> <<p>>]
    BY <1>1, <1>3, <1>4, <1>5, BoundIsEvaluate DEF Ready
  <1>8. a \in Actions
    BY <1>2, <1>5 DEF Actions
  <1>9. CASE ~Exact(call)
    <2>1. r = [decision |-> "deny", code |-> "action_binding_failed", key |-> "",
               action |-> <<>>, policy |-> <<>>]
      BY <1>7, <1>9 DEF BindingFailure
    <2>2. "deny" \in Decisions /\ "action_binding_failed" \in EvaluationCodes
      BY DEF Decisions, EvaluationCodes
    <2>3. r.decision = "deny" /\ r.code = "action_binding_failed"
      BY <2>1
    <2>4. r \in Results
      BY <2>1, <2>2 DEF Results
    <2> QED
      BY <1>1, <1>2, <1>3, <2>2, <2>3, <2>4
  <1>10. CASE Exact(call)
    <2>1. PICK d, c, k :
            /\ d = said.decision /\ c = said.code /\ k = said.key
      OBVIOUS
    <2>2. r = [decision |-> d, code |-> c, key |-> k, action |-> a, policy |-> <<p>>]
      BY <1>7, <1>10, <2>1
    <2>3. /\ d \in Decisions /\ c \in EvaluationCodes
          /\ k \in {""} \union DOMAIN p.tools
      BY <1>6, <2>1 DEF Decides, EvaluationCodes
    <2>4. r \in Results
      BY <1>1, <1>8, <2>2, <2>3 DEF Results, Actions
    <2>5. r.decision = d /\ r.code = c
      BY <2>2
    <2> QED
      BY <1>1, <1>2, <1>3, <2>3, <2>4, <2>5
  <1> QED
    BY <1>9, <1>10

(* The decision of the line in hand is one the event can carry.            *)
LEMMA EventTyped ==
  ASSUME PolicyInv, LineInv, HandInv, stage = "write"
  PROVE  /\ Event \in Events /\ Event.line = lineNum
         /\ Event.decision = result.decision /\ Event.code = result.code
         /\ Event.action = result.action /\ Event.policy = result.policy
         /\ Event.mode = IF job.dryRun /\ Line.form = "call" THEN "dry_run" ELSE ""
  <1>1. result \in Results /\ result.decision \in Decisions /\ lineNum \in Nat
    <2>1. Len(job.lines) \in Nat
      BY JobNow
    <2> QED
      BY <2>1 DEF LineInv, HandInv
  <1>2. PICK m \in {"", "dry_run"} :
          m = IF job.dryRun /\ Line.form = "call" THEN "dry_run" ELSE ""
    OBVIOUS
  <1>3. PICK e : e = [line |-> lineNum, decision |-> result.decision,
                      code |-> result.code, action |-> result.action,
                      policy |-> result.policy, mode |-> m]
    OBVIOUS
  <1>4. Event = e
    BY <1>2, <1>3 DEF Event
  <1>5. /\ result.code \in Codes /\ result.action \in Actions
        /\ result.policy \in {<<>>, <<policy.policy>>}
    BY <1>1 DEF Results, Codes, Actions
  <1>6. e \in Events
    BY <1>1, <1>2, <1>3, <1>5 DEF Events
  <1> QED
    BY <1>2, <1>3, <1>4, <1>6

(* A step scans at most the next line and logs at most the line in hand.   *)
LEMMA LineStep ==
  ASSUME PolicyInv, LineInv, HandInv, [Next]_vars
  PROVE  LineInv'
  <1>0. Len(job.lines) \in Nat /\ job' = job
    BY JobNow, Frame
  <1>1. ASSUME policy' = policy PROVE Results' = Results /\ Events' = Events
    BY <1>0, <1>1 DEF Results, Events, Actions
  <1>2. ASSUME policy' = policy, UNCHANGED <<lineNum, parseErrors, result, log, approved>>,
               stage' \in {"ask", "write"} => stage' = stage,
               stage' = "scan" => Len(log) = lineNum,
               exit' \in {"none", "ok", "gate", "error"},
               (exit' = "none") = (stage' \notin Ending)
        PROVE  LineInv'
    BY <1>0, <1>1, <1>2 DEF LineInv
  <1>3. ASSUME NEW d \in Decisions, NEW c \in Codes, Resolve(d, c),
               approved' \subseteq approved \union {lineNum}
        PROVE  LineInv'
    <2>1. /\ policy' = policy /\ stage = "ask" /\ stage' = "write"
          /\ UNCHANGED <<lineNum, parseErrors, log, exit>>
          /\ result' = [result EXCEPT !.decision = d, !.code = c]
      BY <1>3 DEF Resolve
    <2>2. result' \in Results
      BY <2>1 DEF LineInv, Results, Codes
    <2>3. result' \in Results' /\ log' \in Seq(Events')
      BY <1>1, <2>1, <2>2 DEF LineInv
    <2>4. lineNum \in 1 .. lineNum
      BY <2>1 DEF LineInv
    <2>5. approved' \subseteq 1 .. lineNum
      BY <1>3, <2>4 DEF LineInv
    <2> QED
      BY <1>0, <2>1, <2>3, <2>5 DEF LineInv, Ending
  <1>4. ASSUME stage = "write", policy' = policy, log' = Append(log, Event),
               UNCHANGED <<lineNum, parseErrors, result, approved>>,
               \/ stage' = "scan" /\ exit' = exit
               \/ stage' = "close" /\ exit' = "error"
        PROVE  LineInv'
    <2>1. PICK e \in Events : e = Event /\ e.line = lineNum
      BY <1>4, EventTyped
    <2>2. /\ log \in Seq(Events) /\ Len(log) = lineNum - 1 /\ lineNum \in Nat
          /\ lineNum >= 1 /\ \A i \in 1 .. Len(log) : log[i].line = i
      BY <1>0, <1>4 DEF LineInv
    <2>3. /\ log' \in Seq(Events) /\ Len(log') = lineNum
          /\ \A i \in 1 .. Len(log) : log'[i] = log[i]
          /\ log'[lineNum] = e
      <3>1. log' = Append(log, e)
        BY <1>4, <2>1
      <3> QED
        BY <2>2, <3>1
    <2>4. \A i \in 1 .. Len(log') : log'[i].line = i
      BY <2>1, <2>2, <2>3
    <2> QED
      BY <1>0, <1>1, <1>4, <2>2, <2>3, <2>4 DEF LineInv, Ending
  <1>5. CASE LoadPolicy
    <2>1. Fresh /\ UNCHANGED <<lineNum, parseErrors, result, log, approved>>
      BY <1>5 DEF LoadPolicy, PolicyInv, Opening
    <2>2. NoResult \in Results'
      BY DEF NoResult, Results
    <2>3. /\ stage' \in {"open", "exited"} /\ exit' \in {"none", "error"}
          /\ (exit' = "none") = (stage' \notin Ending)
      BY <1>5 DEF LoadPolicy, LineInv, Ending
    <2> QED
      BY <1>0, <2>1, <2>2, <2>3 DEF Fresh, LineInv
  <1>6. CASE OpenAudit
    BY <1>6, <1>2 DEF OpenAudit, walk, LineInv, Ending
  <1>7. CASE OpenFails
    BY <1>7, <1>2 DEF OpenFails, walk, Return, LineInv, Ending
  <1>8. CASE Prepare
    <2>1. Fresh
      BY <1>8 DEF Prepare, PolicyInv, Opening
    <2>2. Len(log) = lineNum
      BY <2>1 DEF Fresh
    <2> QED
      BY <1>8, <1>2, <2>2 DEF Prepare, walk, LineInv, Ending
  <1>9. CASE PrepareFails
    BY <1>9, <1>2 DEF PrepareFails, walk, Return, LineInv, Ending
  <1>10. CASE ScanCall
    <2>1. /\ policy' = policy /\ lineNum' = lineNum + 1
          /\ lineNum' \in 1 .. Len(job.lines) /\ lineNum \in Nat
          /\ Len(log) = lineNum
      BY <1>0, <1>10 DEF ScanCall, LineInv
    <2>2. result' \in Results
      <3>1. PICK n \in 1 .. Len(job.lines) : n = lineNum'
        BY <2>1
      <3>2. job.lines[n].form = "call" /\ Readable(job.lines[n].call)
        BY <1>10, <2>1, <3>1, JobNow DEF ScanCall
      <3>3. result' = EvaluateBound(policy.policy, job.lines[n].call)
        BY <1>10, <3>1 DEF ScanCall
      <3>4. Ready
        BY <1>10, ReadyNow DEF ScanCall
      <3> QED
        BY <3>2, <3>3, <3>4, ScanResult
    <2>3. stage' \in {"ask", "write"} /\ stage = "scan"
      BY <1>10 DEF ScanCall
    <2>4. UNCHANGED <<parseErrors, log, exit, approved>>
      BY <1>10 DEF ScanCall
    <2> QED
      BY <1>0, <1>1, <2>1, <2>2, <2>3, <2>4 DEF LineInv, Ending
  <1>11. CASE ScanBadLine
    <2>1. /\ policy' = policy /\ lineNum' = lineNum + 1
          /\ parseErrors' = parseErrors + 1
          /\ lineNum' \in 1 .. Len(job.lines) /\ lineNum \in Nat
          /\ Len(log) = lineNum
      BY <1>0, <1>11 DEF ScanBadLine, LineInv
    <2>2. result' \in Results
      BY <1>11 DEF ScanBadLine, NoResult, Results, Decisions
    <2> QED
      BY <1>0, <1>1, <1>11, <2>1, <2>2 DEF ScanBadLine, LineInv, Ending
  <1>12. CASE ScanFails
    BY <1>12, <1>2 DEF ScanFails, walk, Return, LineInv, Ending
  <1>13. CASE ApprovalExpires
    BY <1>13, <1>3 DEF ApprovalExpires, Decisions, Codes, ApprovalCodes
  <1>14. CASE DenyAll
    BY <1>14, <1>3 DEF DenyAll, Decisions, Codes, ApprovalCodes
  <1>15. CASE WriteEvent
    BY <1>15, <1>4 DEF WriteEvent, Ship
  <1>16. CASE WriteFails
    <2>1. CASE Ship
      BY <1>16, <1>4, <2>1 DEF WriteFails, Return, Ship
    <2>2. CASE UNCHANGED <<log, sinkVars>>
      BY <1>16, <1>2, <2>2 DEF WriteFails, Return, LineInv, Ending
    <2> QED
      BY <1>16, <2>1, <2>2 DEF WriteFails
  <1>17. CASE AllLinesFailed
    BY <1>17, <1>2 DEF AllLinesFailed, walk, Return, Finished, LineInv, Ending
  <1>18. CASE Finish
    BY <1>18, <1>2 DEF Finish, walk, Return, Finished, LineInv, Ending
  <1>19. CASE SummaryFails
    BY <1>19, <1>2 DEF SummaryFails, walk, Return, Finished, LineInv, Ending
  <1>20. CASE CloseAudit
    BY <1>20, <1>2 DEF CloseAudit, walk, LineInv, Ending
  <1>21. CASE Exit
    BY <1>21, <1>2 DEF Exit, walk, LineInv, Ending
  <1>22. CASE OperatorApproves
    BY <1>22, <1>3 DEF OperatorApproves, Decisions, Codes, ApprovalCodes
  <1>23. CASE OperatorDenies
    BY <1>23, <1>3 DEF OperatorDenies, Decisions, Codes, ApprovalCodes
  <1>24. CASE SinkRuns
    BY <1>24, <1>2 DEF SinkRuns, walk, LineInv, Ending
  <1>25. CASE UNCHANGED vars
    BY <1>25, <1>2 DEF vars, walk, LineInv, Ending
  <1> QED
    BY <1>5, <1>6, <1>7, <1>8, <1>9, <1>10, <1>11, <1>12, <1>13, <1>14, <1>15,
       <1>16, <1>17, <1>18, <1>19, <1>20, <1>21, <1>22, <1>23, <1>24, <1>25 DEF
       Next, Check, Operator, Terminated

(* How the line in hand is decided.                                        *)

(* A step keeps the result in hand that of the line in hand.               *)
LEMMA HandStep ==
  ASSUME PolicyInv, LineInv, HandInv, [Next]_vars
  PROVE  HandInv'
  <1>0. Len(job.lines) \in Nat /\ job' = job
    BY JobNow, Frame
  <1>1. ASSUME stage' \notin {"ask", "write"}
        PROVE  HandInv'
    BY <1>1 DEF HandInv
  <1>2. ASSUME UNCHANGED <<policy, stage, lineNum, result, approved>>
        PROVE  HandInv'
    BY <1>0, <1>2 DEF HandInv, Line, NeedsApproval
  <1>3. ASSUME NEW d \in {"allow", "deny"}, NEW c \in ApprovalCodes, Resolve(d, c),
               d = IF lineNum \in approved' THEN "allow" ELSE "deny"
        PROVE  HandInv'
    <2>1. /\ policy' = policy /\ lineNum' = lineNum /\ stage' = "write"
          /\ stage = "ask" /\ result' = [result EXCEPT !.decision = d, !.code = c]
      BY <1>3 DEF Resolve
    <2>2. /\ result'.decision = d /\ result'.code = c /\ result'.key = result.key
          /\ result'.action = result.action /\ result'.policy = result.policy
      <3>1. result \in Results
        BY DEF LineInv
      <3> QED
        BY <2>1, <3>1 DEF Results
    <2>3. /\ Line.form = "call" /\ result = EvaluateBound(policy.policy, Line.call)
          /\ NeedsApproval(result)
      BY <2>1 DEF HandInv
    <2>4. Line' = Line
      BY <1>0, <2>1 DEF Line
    <2>5. PICK said : said = EvaluateBound(policy.policy, Line.call)
      OBVIOUS
    <2>6. NeedsApproval(said)' = NeedsApproval(said)
      BY <1>0 DEF NeedsApproval
    <2>7. d \in Decisions /\ c # "parse_error"
      BY DEF Decisions, ApprovalCodes
    <2> QED
      BY <1>3, <2>1, <2>2, <2>3, <2>4, <2>5, <2>6, <2>7 DEF HandInv
  <1>4. CASE LoadPolicy
    BY <1>4, <1>1 DEF LoadPolicy
  <1>5. CASE OpenAudit
    BY <1>5, <1>1 DEF OpenAudit, walk
  <1>6. CASE OpenFails
    BY <1>6, <1>1 DEF OpenFails, walk, Return
  <1>7. CASE Prepare
    BY <1>7, <1>1 DEF Prepare, walk
  <1>8. CASE PrepareFails
    BY <1>8, <1>1 DEF PrepareFails, walk, Return
  <1>9. CASE ScanCall
    <2>1. /\ policy' = policy /\ lineNum' \in 1 .. Len(job.lines)
          /\ lineNum' = lineNum + 1 /\ lineNum \in Nat
          /\ Line'.form = "call" /\ approved' = approved
          /\ result' = EvaluateBound(policy.policy, Line'.call)
          /\ stage' = IF NeedsApproval(result') THEN "ask" ELSE "write"
      BY <1>0, <1>9 DEF ScanCall, LineInv, Line
    <2>2. result' \in Results /\ result'.decision \in Decisions
          /\ result'.code # "parse_error"
      <3>1. PICK n \in 1 .. Len(job.lines) : n = lineNum'
        BY <2>1
      <3>2. job.lines[n].form = "call" /\ Readable(job.lines[n].call)
            /\ Line' = job.lines[n]
        BY <1>0, <2>1, <3>1, JobNow DEF Line
      <3>3. Ready
        BY <1>9, ReadyNow DEF ScanCall
      <3>4. "parse_error" \notin EvaluationCodes
        BY DEF EvaluationCodes, RefusalCodes
      <3> QED
        BY <2>1, <3>2, <3>3, <3>4, ScanResult
    <2>3. lineNum' \notin approved'
      BY <2>1 DEF LineInv
    <2>4. NeedsApproval(result)' = NeedsApproval(result')
      BY <1>0 DEF NeedsApproval
    <2>5. PICK said : said = EvaluateBound(policy.policy, Line'.call)
      OBVIOUS
    <2>6. NeedsApproval(said)' = NeedsApproval(said)
      BY <1>0 DEF NeedsApproval
    <2> QED
      BY <2>1, <2>2, <2>3, <2>4, <2>5, <2>6 DEF HandInv
  <1>10. CASE ScanBadLine
    <2>1. /\ lineNum' = lineNum + 1 /\ job.lines[lineNum'].form = "bad"
          /\ stage' = "write"
          /\ result' = [NoResult EXCEPT !.decision = "deny", !.code = "parse_error"]
      BY <1>10 DEF ScanBadLine
    <2>2. Line'.form = "bad"
      BY <1>0, <2>1 DEF Line
    <2>3. result'.decision = "deny" /\ result'.code = "parse_error"
      BY <2>1 DEF NoResult
    <2> QED
      BY <2>1, <2>2, <2>3 DEF HandInv, Decisions
  <1>11. CASE ScanFails
    BY <1>11, <1>1 DEF ScanFails, walk, Return
  <1>12. CASE ApprovalExpires
    <2>1. stage = "ask" /\ approved' = approved
      BY <1>12 DEF ApprovalExpires, Resolve
    <2>2. lineNum \notin approved'
      BY <2>1 DEF HandInv
    <2> QED
      BY <1>12, <1>3, <2>2 DEF ApprovalExpires, ApprovalCodes
  <1>13. CASE DenyAll
    <2>1. stage = "ask" /\ approved' = approved
      BY <1>13 DEF DenyAll, Resolve
    <2>2. lineNum \notin approved'
      BY <2>1 DEF HandInv
    <2> QED
      BY <1>13, <1>3, <2>2 DEF DenyAll, ApprovalCodes
  <1>14. CASE WriteEvent
    BY <1>14, <1>1 DEF WriteEvent
  <1>15. CASE WriteFails
    BY <1>15, <1>1 DEF WriteFails, Return
  <1>16. CASE AllLinesFailed
    BY <1>16, <1>1 DEF AllLinesFailed, walk, Return, Finished
  <1>17. CASE Finish
    BY <1>17, <1>1 DEF Finish, walk, Return, Finished
  <1>18. CASE SummaryFails
    BY <1>18, <1>1 DEF SummaryFails, walk, Return, Finished
  <1>19. CASE CloseAudit
    BY <1>19, <1>1 DEF CloseAudit, walk
  <1>20. CASE Exit
    BY <1>20, <1>1 DEF Exit, walk
  <1>21. CASE OperatorApproves
    BY <1>21, <1>3 DEF OperatorApproves, ApprovalCodes
  <1>22. CASE OperatorDenies
    <2>1. stage = "ask" /\ approved' = approved
      BY <1>22 DEF OperatorDenies, Resolve
    <2>2. lineNum \notin approved'
      BY <2>1 DEF HandInv
    <2> QED
      BY <1>22, <1>3, <2>2 DEF OperatorDenies, ApprovalCodes
  <1>23. CASE SinkRuns
    BY <1>23, <1>2 DEF SinkRuns, walk
  <1>24. CASE UNCHANGED vars
    BY <1>24, <1>2 DEF vars, walk
  <1> QED
    BY <1>4, <1>5, <1>6, <1>7, <1>8, <1>9, <1>10, <1>11, <1>12, <1>13, <1>14,
       <1>15, <1>16, <1>17, <1>18, <1>19, <1>20, <1>21, <1>22, <1>23, <1>24 DEF
       Next, Check, Operator, Terminated

-------------------------------------------------------------------------------
(* The counts.                                                             *)

(* The events of one decision are among those of the log.                  *)
LEMMA LoggedFinite ==
  ASSUME LineInv, NEW d
  PROVE  /\ IsFiniteSet(Logged(d)) /\ Cardinality(Logged(d)) \in 0 .. Len(log)
  <1>1. PICK n \in Nat : n = Len(log)
    BY LenProperties DEF LineInv
  <1>2. Logged(d) \subseteq 1 .. n
    BY <1>1 DEF Logged
  <1>3. IsFiniteSet(1 .. n) /\ Cardinality(1 .. n) = n
    <2>1. /\ IsFiniteSet(1 .. n)
          /\ Cardinality(1 .. n) = IF 1 > n THEN 0 ELSE n - 1 + 1
      <3>1. 1 \in Int /\ n \in Int
        BY <1>1
      <3> QED
        BY <3>1, FS_Interval, Zenon
    <2> QED
      BY <1>1, <2>1
  <1> QED
    BY <1>1, <1>2, <1>3, FS_Subset, FS_CardinalityType

(* One more event is one more of its decision and no other.                *)
LEMMA LoggedOneMore ==
  ASSUME PolicyInv, LineInv, HandInv, stage = "write", log' = Append(log, Event),
         NEW d
  PROVE  Cardinality(Logged(d)')
           = Cardinality(Logged(d)) + (IF result.decision = d THEN 1 ELSE 0)
  <1>1. PICK e \in Events : e = Event /\ e.decision = result.decision
    BY EventTyped
  <1>2. PICK n \in Nat : n = Len(log)
    BY LenProperties DEF LineInv
  <1>3. /\ Len(log') = n + 1 /\ log'[n + 1] = e
        /\ \A i \in 1 .. n : log'[i] = log[i]
    BY <1>1, <1>2 DEF LineInv
  <1>4. /\ IsFiniteSet(Logged(d)) /\ Cardinality(Logged(d)) \in Nat
        /\ n + 1 \notin Logged(d)
    <2>1. IsFiniteSet(Logged(d)) /\ Cardinality(Logged(d)) \in Nat
      BY <1>2, LoggedFinite
    <2>2. n + 1 \notin 1 .. n
      BY <1>2
    <2> QED
      BY <1>2, <2>1, <2>2 DEF Logged
  <1>5. CASE result.decision = d
    <2>1. Logged(d)' = Logged(d) \union {n + 1}
      BY <1>1, <1>2, <1>3, <1>5 DEF Logged
    <2>2. Cardinality(Logged(d) \union {n + 1}) = Cardinality(Logged(d)) + 1
      BY <1>4, FS_AddElement
    <2> QED
      BY <1>5, <2>1, <2>2
  <1>6. CASE result.decision # d
    <2>1. Logged(d)' = Logged(d)
      BY <1>1, <1>2, <1>3, <1>6 DEF Logged
    <2> QED
      BY <1>4, <1>6, <2>1
  <1> QED
    BY <1>5, <1>6

(* A step counts a line as it logs it.                                     *)
LEMMA CountStep ==
  ASSUME PolicyInv, LineInv, HandInv, CountInv, [Next]_vars
  PROVE  CountInv'
  <1>0. Len(job.lines) \in Nat /\ job' = job /\ lineNum \in Nat
    BY JobNow, Frame DEF LineInv
  <1>1. /\ counts \in [Decisions -> 0 .. lineNum]
        /\ \A d \in Decisions : counts[d] \in Nat /\ counts[d] <= lineNum
    BY <1>0 DEF CountInv
  <1>2. ASSUME UNCHANGED <<lineNum, parseErrors, counts, log>>,
               stage' \in {"ask", "write"} => stage \in {"ask", "write"},
               exit' # "error" => exit # "error"
        PROVE  CountInv'
    <2>1. \A d : Logged(d)' = Logged(d)
      BY <1>2 DEF Logged
    <2> QED
      BY <1>0, <1>2, <2>1 DEF CountInv
  <1>3. ASSUME stage = "write", log' = Append(log, Event)
        PROVE  \A i \in 1 .. Len(log') :
                 log'[i].code = "parse_error" => job.lines[i].form = "bad"
    <2>1. PICK e \in Events : e = Event /\ e.code = result.code
      BY <1>3, EventTyped
    <2>2. log \in Seq(Events) /\ Len(log) = lineNum - 1 /\ lineNum \in 1 .. Len(job.lines)
      BY <1>0, <1>3 DEF LineInv
    <2>3. /\ Len(log') = lineNum /\ log'[lineNum] = e
          /\ \A i \in 1 .. Len(log) : log'[i] = log[i]
      BY <1>3, <2>1, <2>2
    <2>4. result.code = "parse_error" => job.lines[lineNum].form = "bad"
      BY <1>3, <2>2, JobNow DEF HandInv, Line
    <2> QED
      BY <2>1, <2>2, <2>3, <2>4 DEF CountInv
  <1>4. ASSUME stage = "write", counts' = counts \/ Count
        PROVE  counts' \in [Decisions -> 0 .. lineNum]
    <2>1. \A d \in Decisions : counts[d] + 1 \in 0 .. lineNum
      BY <1>0, <1>1, <1>4 DEF CountInv
    <2> QED
      BY <1>1, <1>4, <2>1 DEF Count
  <1>5. CASE LoadPolicy
    <2>1. exit = "none" /\ exit # "error"
      BY <1>5 DEF LoadPolicy, LineInv, Ending
    <2> QED
      BY <1>5, <1>2, <2>1 DEF LoadPolicy
  <1>6. CASE OpenAudit
    BY <1>6, <1>2 DEF OpenAudit, walk
  <1>7. CASE OpenFails
    BY <1>7, <1>2 DEF OpenFails, walk, Return
  <1>8. CASE Prepare
    BY <1>8, <1>2 DEF Prepare, walk
  <1>9. CASE PrepareFails
    BY <1>9, <1>2 DEF PrepareFails, walk, Return
  <1>10. CASE ScanCall
    <2>1. /\ lineNum' = lineNum + 1 /\ job.lines[lineNum'].form = "call"
          /\ UNCHANGED <<parseErrors, counts, log, exit>>
      BY <1>10 DEF ScanCall
    <2>2. \A d : Logged(d)' = Logged(d)
      BY <2>1 DEF Logged
    <2>3. counts' \in [Decisions -> 0 .. lineNum']
          /\ \A d \in Decisions : counts'[d] < lineNum'
      BY <1>0, <1>1, <2>1
    <2>4. lineNum' \in 1 .. lineNum'
      BY <1>0, <2>1
    <2> QED
      BY <1>0, <2>1, <2>2, <2>3, <2>4 DEF CountInv
  <1>11. CASE ScanBadLine
    <2>1. /\ lineNum' = lineNum + 1 /\ parseErrors' = parseErrors + 1
          /\ UNCHANGED <<counts, log, exit>>
      BY <1>11 DEF ScanBadLine
    <2>2. \A d : Logged(d)' = Logged(d)
      BY <2>1 DEF Logged
    <2>3. counts' \in [Decisions -> 0 .. lineNum']
          /\ \A d \in Decisions : counts'[d] < lineNum'
      BY <1>0, <1>1, <2>1
    <2>4. ASSUME parseErrors' < lineNum'
          PROVE  \E i \in 1 .. lineNum' : job.lines[i].form = "call"
      <3>1. parseErrors \in Nat
        BY <1>0 DEF LineInv
      <3>2. parseErrors < lineNum
        BY <1>0, <2>1, <2>4, <3>1
      <3>3. PICK i \in 1 .. lineNum : job.lines[i].form = "call"
        BY <3>2 DEF CountInv
      <3>4. i \in 1 .. lineNum'
        BY <1>0, <2>1
      <3> QED
        BY <3>3, <3>4
    <2> QED
      BY <1>0, <2>1, <2>2, <2>3, <2>4 DEF CountInv
  <1>12. CASE ScanFails
    BY <1>12, <1>2 DEF ScanFails, walk, Return
  <1>13. CASE ApprovalExpires
    BY <1>13, <1>2 DEF ApprovalExpires, Resolve
  <1>14. CASE DenyAll
    BY <1>14, <1>2 DEF DenyAll, Resolve
  <1>15. CASE WriteEvent
    <2>1. /\ stage = "write" /\ stage' = "scan" /\ log' = Append(log, Event)
          /\ counts' = [counts EXCEPT ![result.decision] = @ + 1]
          /\ UNCHANGED <<lineNum, parseErrors, exit>>
      BY <1>15 DEF WriteEvent, Count, Ship
    <2>2. counts' \in [Decisions -> 0 .. lineNum]
      BY <1>4, <2>1 DEF Count
    <2>3. ASSUME NEW d \in Decisions, exit' # "error"
          PROVE  counts'[d] = Cardinality(Logged(d)')
      <3>1. counts[d] = Cardinality(Logged(d))
        BY <2>1, <2>3 DEF CountInv
      <3>2. Cardinality(Logged(d)')
              = Cardinality(Logged(d)) + (IF result.decision = d THEN 1 ELSE 0)
        BY <2>1, LoggedOneMore
      <3>3. counts'[d] = counts[d] + (IF result.decision = d THEN 1 ELSE 0)
        BY <1>1, <2>1
      <3> QED
        BY <3>1, <3>2, <3>3
    <2>4. \A i \in 1 .. Len(log') :
            log'[i].code = "parse_error" => job.lines[i].form = "bad"
      BY <1>3, <2>1
    <2> QED
      BY <1>0, <2>1, <2>2, <2>3, <2>4 DEF CountInv
  <1>16. CASE WriteFails
    <2>1. /\ stage = "write" /\ stage' = "close" /\ exit' = "error"
          /\ UNCHANGED <<lineNum, parseErrors>>
          /\ counts' = counts \/ Count
      BY <1>16 DEF WriteFails, Return
    <2>2. counts' \in [Decisions -> 0 .. lineNum]
      BY <1>4, <2>1
    <2>3. \A i \in 1 .. Len(log') :
            log'[i].code = "parse_error" => job.lines[i].form = "bad"
      <3>1. CASE log' = Append(log, Event)
        BY <1>3, <2>1, <3>1
      <3>2. CASE log' = log
        BY <3>2 DEF CountInv
      <3> QED
        BY <1>16, <3>1, <3>2 DEF WriteFails, Ship
    <2> QED
      BY <1>0, <2>1, <2>2, <2>3 DEF CountInv
  <1>17. CASE AllLinesFailed
    BY <1>17, <1>2 DEF AllLinesFailed, walk, Return, Finished
  <1>18. CASE Finish
    <2>1. exit = "none" /\ exit # "error"
      BY <1>18 DEF Finish, Finished, LineInv, Ending
    <2> QED
      BY <1>18, <1>2, <2>1 DEF Finish, walk, Return
  <1>19. CASE SummaryFails
    BY <1>19, <1>2 DEF SummaryFails, walk, Return, Finished
  <1>20. CASE CloseAudit
    BY <1>20, <1>2 DEF CloseAudit, walk
  <1>21. CASE Exit
    BY <1>21, <1>2 DEF Exit, walk
  <1>22. CASE OperatorApproves
    BY <1>22, <1>2 DEF OperatorApproves, Resolve
  <1>23. CASE OperatorDenies
    BY <1>23, <1>2 DEF OperatorDenies, Resolve
  <1>24. CASE SinkRuns
    BY <1>24, <1>2 DEF SinkRuns, walk
  <1>25. CASE UNCHANGED vars
    BY <1>25, <1>2 DEF vars, walk
  <1> QED
    BY <1>5, <1>6, <1>7, <1>8, <1>9, <1>10, <1>11, <1>12, <1>13, <1>14, <1>15,
       <1>16, <1>17, <1>18, <1>19, <1>20, <1>21, <1>22, <1>23, <1>24, <1>25 DEF
       Next, Check, Operator, Terminated

-------------------------------------------------------------------------------
(* The outcome.                                                            *)

(* A step decides the exit code by what has been counted.                  *)
LEMMA OutcomeStep ==
  ASSUME PolicyInv, LineInv, CountInv, OutcomeInv, [Next]_vars
  PROVE  OutcomeInv'
  <1>0. Len(job.lines) \in Nat /\ job' = job
    BY JobNow, Frame
  <1>1. ASSUME UNCHANGED <<lineNum, parseErrors, counts, log, exit, summary>>
        PROVE  OutcomeInv'
    BY <1>0, <1>1 DEF OutcomeInv, GateFails, Matched
  <1>2. ASSUME stage \notin Ending, exit' \in {"none", "error"}, summary' = summary
        PROVE  OutcomeInv'
    BY <1>2 DEF OutcomeInv, LineInv
  <1>3. ASSUME stage \notin Ending, exit' = exit, summary' = summary
        PROVE  OutcomeInv'
    BY <1>3 DEF OutcomeInv, LineInv
  <1>4. CASE LoadPolicy
    <2>1. exit = "none"
      BY <1>4 DEF LoadPolicy, LineInv, Ending
    <2> QED
      BY <1>4, <1>2, <2>1 DEF LoadPolicy, Ending
  <1>5. CASE OpenAudit
    BY <1>5, <1>3 DEF OpenAudit, walk, Ending
  <1>6. CASE OpenFails
    BY <1>6, <1>2 DEF OpenFails, walk, Return, Ending
  <1>7. CASE Prepare
    BY <1>7, <1>3 DEF Prepare, walk, Ending
  <1>8. CASE PrepareFails
    BY <1>8, <1>2 DEF PrepareFails, walk, Return, Ending
  <1>9. CASE ScanCall
    BY <1>9, <1>3 DEF ScanCall, Ending
  <1>10. CASE ScanBadLine
    BY <1>10, <1>3 DEF ScanBadLine, Ending
  <1>11. CASE ScanFails
    BY <1>11, <1>2 DEF ScanFails, walk, Return, Ending
  <1>12. CASE ApprovalExpires
    BY <1>12, <1>3 DEF ApprovalExpires, Resolve, Ending
  <1>13. CASE DenyAll
    BY <1>13, <1>3 DEF DenyAll, Resolve, Ending
  <1>14. CASE WriteEvent
    BY <1>14, <1>3 DEF WriteEvent, Ending
  <1>15. CASE WriteFails
    BY <1>15, <1>2 DEF WriteFails, Return, Ending
  <1>16. CASE AllLinesFailed
    BY <1>16, <1>2 DEF AllLinesFailed, walk, Return, Finished, Ending
  <1>17. CASE Finish
    <2>1. /\ UNCHANGED <<lineNum, parseErrors, counts, log>>
          /\ lineNum = Len(job.lines) /\ Len(log) = lineNum
          /\ lineNum > 0 => parseErrors # lineNum
          /\ exit' = IF GateFails THEN "gate" ELSE "ok"
          /\ summary' = IF job.summary
                        THEN <<[total |-> lineNum, parseErrors |-> parseErrors,
                                counts |-> counts, matched |-> Matched,
                                failed |-> GateFails]>>
                        ELSE <<>>
      BY <1>17 DEF Finish, Finished, Return, walk, LineInv
    <2>2. GateFails' = GateFails /\ Matched' = Matched
      BY <1>0, <2>1 DEF GateFails, Matched
    <2>3. lineNum > 0 => parseErrors < lineNum
      <3>1. lineNum \in Nat /\ parseErrors \in 0 .. lineNum
        BY <1>0 DEF LineInv
      <3> QED
        BY <2>1, <3>1
    <2>4. (exit' = "gate") = GateFails
      BY <2>1 DEF GateFails
    <2> QED
      BY <1>0, <2>1, <2>2, <2>3, <2>4 DEF OutcomeInv
  <1>18. CASE SummaryFails
    BY <1>18, <1>2 DEF SummaryFails, walk, Return, Finished, Ending
  <1>19. CASE CloseAudit
    BY <1>19, <1>1 DEF CloseAudit, walk
  <1>20. CASE Exit
    BY <1>20, <1>1 DEF Exit, walk
  <1>21. CASE OperatorApproves
    BY <1>21, <1>3 DEF OperatorApproves, Resolve, Ending
  <1>22. CASE OperatorDenies
    BY <1>22, <1>3 DEF OperatorDenies, Resolve, Ending
  <1>23. CASE SinkRuns
    BY <1>23, <1>1 DEF SinkRuns, walk
  <1>24. CASE UNCHANGED vars
    BY <1>24, <1>1 DEF vars, walk
  <1> QED
    BY <1>4, <1>5, <1>6, <1>7, <1>8, <1>9, <1>10, <1>11, <1>12, <1>13, <1>14,
       <1>15, <1>16, <1>17, <1>18, <1>19, <1>20, <1>21, <1>22, <1>23, <1>24 DEF
       Next, Check, Operator, Terminated

-------------------------------------------------------------------------------
(* The events.                                                             *)

(* What was decided on the line in hand explains its event.                *)
LEMMA HandExplained ==
  ASSUME PolicyInv, LineInv, HandInv, stage = "write"
  PROVE  Explained(Event)
  <1>1. PICK e : e = Event
    OBVIOUS
  <1>2. /\ e.line = lineNum /\ e.decision = result.decision
        /\ e.code = result.code /\ e.action = result.action
        /\ e.policy = result.policy
        /\ e.mode = IF job.dryRun /\ Line.form = "call" THEN "dry_run" ELSE ""
    BY <1>1, EventTyped
  <1>3. SUFFICES Explained(e)
    BY <1>1
  <1>4. lineNum \in 1 .. Len(job.lines) /\ job.dryRun \in BOOLEAN
    BY JobNow DEF LineInv
  <1>5. CASE Line.form = "bad"
    BY <1>2, <1>5 DEF Explained, HandInv, Line
  <1>6. CASE Line.form # "bad"
    <2>1. Line.form = "call" /\ Readable(Line.call)
      BY <1>4, <1>6, JobNow DEF Line
    <2>2. Ready
      BY ReadyNow
    <2>3. PICK p : p = policy.policy
      OBVIOUS
    <2>4. PICK call : call = Line.call
      OBVIOUS
    <2>5. PICK bound : bound = EvaluateBound(p, call)
      OBVIOUS
    <2>6. PICK said : said = Evaluate(p, call)
      OBVIOUS
    <2>7. PICK a : a = ToolActionDigest(call)
      OBVIOUS
    <2>8. bound = IF ~Exact(call) THEN BindingFailure("action_binding_failed", <<>>)
                  ELSE [decision |-> said.decision, code |-> said.code,
                        key |-> said.key, action |-> a, policy |-> <<p>>]
      BY <2>2, <2>3, <2>5, <2>6, <2>7, BoundIsEvaluate DEF Ready
    <2>9. /\ result.action = bound.action /\ result.policy = bound.policy
          /\ IF NeedsApproval(bound)
             THEN result.decision = IF lineNum \in approved THEN "allow" ELSE "deny"
             ELSE result.decision = bound.decision /\ result.code = bound.code
      BY <2>1, <2>3, <2>4, <2>5 DEF HandInv
    <2>10. job.lines[e.line].form # "bad" /\ job.lines[e.line].call = call
      BY <1>2, <1>6, <2>4 DEF Line
    <2>11. CASE ~Exact(call)
      <3>1. bound = [decision |-> "deny", code |-> "action_binding_failed",
                     key |-> "", action |-> <<>>, policy |-> <<>>]
        BY <2>8, <2>11 DEF BindingFailure
      <3>2. /\ bound.decision = "deny" /\ bound.code = "action_binding_failed"
            /\ bound.action = <<>>
        BY <3>1
      <3> QED
        BY <1>2, <2>9, <2>10, <2>11, <3>2 DEF Explained, NeedsApproval
    <2>12. CASE Exact(call)
      <3>1. PICK d, c, k : d = said.decision /\ c = said.code /\ k = said.key
        OBVIOUS
      <3>2. bound = [decision |-> d, code |-> c, key |-> k, action |-> a,
                     policy |-> <<p>>]
        BY <2>8, <2>12, <3>1
      <3>3. /\ bound.decision = d /\ bound.code = c /\ bound.action = a
            /\ bound.policy = <<p>>
        BY <3>2
      <3>4. e.action = a /\ e.policy = <<p>>
        BY <1>2, <2>9, <3>3
      <3>5. (e.mode = "dry_run") = job.dryRun
        BY <1>2, <1>4, <2>1
      <3>6. IF d = "ask" /\ ~job.dryRun
            THEN e.decision = IF e.line \in approved THEN "allow" ELSE "deny"
            ELSE e.decision = d /\ e.code = c
        BY <1>2, <2>9, <3>3 DEF NeedsApproval
      <3> QED
        BY <2>3, <2>6, <2>7, <2>10, <2>12, <3>1, <3>4, <3>5, <3>6 DEF Explained
    <2> QED
      BY <2>11, <2>12
  <1> QED
    BY <1>5, <1>6

(* A step logs a line with the decision its call and policy explain.       *)
LEMMA ExplainStep ==
  ASSUME PolicyInv, LineInv, HandInv, ExplainInv, [Next]_vars
  PROVE  ExplainInv'
  <1>0. job' = job /\ log \in Seq(Events)
        /\ \A i \in 1 .. Len(log) : log[i].line = i
    BY Frame DEF LineInv
  <1>1. ASSUME NEW e, Explained(e), policy' = policy,
               (e.line \in approved') = (e.line \in approved)
        PROVE  Explained(e)'
    BY <1>0, <1>1 DEF Explained
  <1>2. ASSUME policy' = policy, approved' = approved, log' = log
        PROVE  ExplainInv'
    BY <1>1, <1>2 DEF ExplainInv
  <1>3. ASSUME policy' = policy, approved' = approved, stage = "write",
               log' = Append(log, Event)
        PROVE  ExplainInv'
    <2>1. PICK e \in Events : e = Event /\ Explained(e)
      BY <1>3, EventTyped, HandExplained
    <2>2. /\ Len(log') = Len(log) + 1 /\ Len(log) \in Nat
          /\ \A i \in 1 .. Len(log) : log'[i] = log[i]
          /\ log'[Len(log) + 1] = e
      BY <1>0, <1>3, <2>1
    <2>3. \A i \in 1 .. Len(log') : Explained(log'[i])
      BY <2>1, <2>2 DEF ExplainInv
    <2>4. SUFFICES ASSUME NEW i \in 1 .. Len(log')
                   PROVE  Explained(log[i])'
      BY DEF ExplainInv
    <2>5. PICK x : x = log'[i] /\ Explained(x)
      BY <2>3
    <2>6. Explained(x)'
      BY <1>1, <1>3, <2>5
    <2> QED
      BY <2>5, <2>6 DEF Explained
  <1>4. CASE LoadPolicy
    <2>1. log' = <<>>
      BY <1>4 DEF LoadPolicy, PolicyInv, Opening, Fresh
    <2> QED
      BY <2>1 DEF ExplainInv
  <1>5. CASE OpenAudit
    BY <1>5, <1>2 DEF OpenAudit, walk
  <1>6. CASE OpenFails
    BY <1>6, <1>2 DEF OpenFails, walk, Return
  <1>7. CASE Prepare
    BY <1>7, <1>2 DEF Prepare, walk
  <1>8. CASE PrepareFails
    BY <1>8, <1>2 DEF PrepareFails, walk, Return
  <1>9. CASE ScanCall
    BY <1>9, <1>2 DEF ScanCall
  <1>10. CASE ScanBadLine
    BY <1>10, <1>2 DEF ScanBadLine
  <1>11. CASE ScanFails
    BY <1>11, <1>2 DEF ScanFails, walk, Return
  <1>12. CASE ApprovalExpires
    BY <1>12, <1>2 DEF ApprovalExpires, Resolve
  <1>13. CASE DenyAll
    BY <1>13, <1>2 DEF DenyAll, Resolve
  <1>14. CASE WriteEvent
    BY <1>14, <1>3 DEF WriteEvent, Ship
  <1>15. CASE WriteFails
    BY <1>15, <1>2, <1>3 DEF WriteFails, Return, Ship
  <1>16. CASE AllLinesFailed
    BY <1>16, <1>2 DEF AllLinesFailed, walk, Return, Finished
  <1>17. CASE Finish
    BY <1>17, <1>2 DEF Finish, walk, Return, Finished
  <1>18. CASE SummaryFails
    BY <1>18, <1>2 DEF SummaryFails, walk, Return, Finished
  <1>19. CASE CloseAudit
    BY <1>19, <1>2 DEF CloseAudit, walk
  <1>20. CASE Exit
    BY <1>20, <1>2 DEF Exit, walk
  <1>21. CASE OperatorApproves
    <2>1. /\ policy' = policy /\ log' = log /\ Len(log) = lineNum - 1
          /\ approved' = approved \union {lineNum} /\ lineNum \in Nat
      BY <1>21, JobNow DEF OperatorApproves, Resolve, LineInv
    <2>2. \A i \in 1 .. Len(log) : (log[i].line \in approved') = (log[i].line \in approved)
      BY <1>0, <2>1
    <2>3. \A i \in 1 .. Len(log) : Explained(log[i])'
      BY <1>1, <2>1, <2>2 DEF ExplainInv
    <2> QED
      BY <2>1, <2>3 DEF ExplainInv
  <1>22. CASE OperatorDenies
    BY <1>22, <1>2 DEF OperatorDenies, Resolve
  <1>23. CASE SinkRuns
    BY <1>23, <1>2 DEF SinkRuns, walk
  <1>24. CASE UNCHANGED vars
    BY <1>24, <1>2 DEF vars, walk
  <1> QED
    BY <1>4, <1>5, <1>6, <1>7, <1>8, <1>9, <1>10, <1>11, <1>12, <1>13, <1>14,
       <1>15, <1>16, <1>17, <1>18, <1>19, <1>20, <1>21, <1>22, <1>23, <1>24 DEF
       Next, Check, Operator, Terminated

-------------------------------------------------------------------------------
(* The sink.                                                               *)

(* A step keeps buffer, batch and channel of the sink within their bounds. *)
LEMMA SinkStep ==
  ASSUME SinkInv, MirrorInv, [Next]_vars
  PROVE  SinkInv'
  <1>0. /\ Len(ch) \in Nat /\ Len(batch) \in Nat
        /\ BufferSize \in Nat \ {0} /\ BatchSize \in Nat \ {0}
    BY SinkAssumption, LenProperties DEF MirrorInv
  <1>1. ASSUME UNCHANGED sinkVars,
               \/ stage' = stage
               \/ /\ stage \in {"prepare", "scan", "ask", "write"}
                  /\ stage' \in {"scan", "ask", "write", "close"}
               \/ stage \in {"load", "open"} /\ stage' # "wait"
        PROVE  SinkInv'
    BY <1>1 DEF SinkInv, sinkVars
  <1>2. ASSUME Ship, stage = "write", stage' \in {"scan", "close"}
        PROVE  SinkInv'
    <2>1. CASE sink = "off"
      BY <1>1, <1>2, <2>1 DEF Ship
    <2>2. CASE sink # "off"
      <3>1. Emit(lineNum)
        BY <1>2, <2>2 DEF Ship
      <3>2. /\ UNCHANGED <<sink, batch, flushing>>
            /\ ch' = IF Len(ch) < BufferSize THEN Append(ch, lineNum) ELSE ch
        BY <3>1 DEF Emit
      <3>3. Len(ch') <= BufferSize
        <4>1. CASE Len(ch) < BufferSize
          <5>1. Len(Append(ch, lineNum)) = Len(ch) + 1
            BY DEF MirrorInv
          <5> QED
            BY <1>0, <3>2, <4>1, <5>1
        <4>2. CASE ~(Len(ch) < BufferSize)
          BY <3>2, <4>2 DEF SinkInv
        <4> QED
          BY <4>1, <4>2
      <3>4. sink = "open"
        BY <1>2, <2>2 DEF SinkInv
      <3> QED
        BY <1>2, <3>2, <3>3, <3>4 DEF SinkInv
    <2> QED
      BY <2>1, <2>2
  <1>3. CASE LoadPolicy
    BY <1>3, <1>1 DEF LoadPolicy
  <1>4. CASE OpenAudit
    <2>1. sink = "off"
      BY <1>4 DEF OpenAudit, SinkInv
    <2>2. sink' \in {"off", "open"} /\ stage' = "prepare"
          /\ UNCHANGED <<ch, batch, flushing>>
      BY <1>4, <2>1 DEF OpenAudit, OpenSink, sinkVars
    <2> QED
      BY <2>1, <2>2 DEF SinkInv
  <1>5. CASE OpenFails
    BY <1>5, <1>1 DEF OpenFails, walk, Return
  <1>6. CASE Prepare
    BY <1>6, <1>1 DEF Prepare, walk
  <1>7. CASE PrepareFails
    BY <1>7, <1>1 DEF PrepareFails, walk, Return
  <1>8. CASE ScanCall
    BY <1>8, <1>1 DEF ScanCall
  <1>9. CASE ScanBadLine
    BY <1>9, <1>1 DEF ScanBadLine
  <1>10. CASE ScanFails
    BY <1>10, <1>1 DEF ScanFails, walk, Return
  <1>11. CASE ApprovalExpires
    BY <1>11, <1>1 DEF ApprovalExpires, Resolve
  <1>12. CASE DenyAll
    BY <1>12, <1>1 DEF DenyAll, Resolve
  <1>13. CASE WriteEvent
    BY <1>13, <1>2 DEF WriteEvent
  <1>14. CASE WriteFails
    BY <1>14, <1>1, <1>2 DEF WriteFails, Return
  <1>15. CASE AllLinesFailed
    BY <1>15, <1>1 DEF AllLinesFailed, walk, Return, Finished
  <1>16. CASE Finish
    BY <1>16, <1>1 DEF Finish, walk, Return, Finished
  <1>17. CASE SummaryFails
    BY <1>17, <1>1 DEF SummaryFails, walk, Return, Finished
  <1>18. CASE CloseAudit
    <2>1. CASE sink = "off"
      BY <1>18, <2>1 DEF CloseAudit, SinkInv, sinkVars
    <2>2. CASE sink # "off"
      BY <1>18, <2>2 DEF CloseAudit, SinkInv, CloseSink
    <2> QED
      BY <2>1, <2>2
  <1>19. CASE Exit
    BY <1>19 DEF Exit, SinkInv, sinkVars
  <1>20. CASE OperatorApproves
    BY <1>20, <1>1 DEF OperatorApproves, Resolve
  <1>21. CASE OperatorDenies
    BY <1>21, <1>1 DEF OperatorDenies, Resolve
  <1>22. CASE SinkRuns
    <2>1. stage' = stage
      BY <1>22 DEF SinkRuns
    <2>2. CASE Receive
      <3>1. /\ ch # <<>> /\ ch' = Tail(ch) /\ batch' = Append(batch, Head(ch))
            /\ flushing' = (Len(batch) + 1 >= BatchSize)
            /\ sink' = sink /\ sink \in {"open", "closing"} /\ ~flushing
        BY <2>2 DEF Receive
      <3>2. Len(batch') = Len(batch) + 1 /\ Len(ch') = Len(ch) - 1
        BY <3>1 DEF MirrorInv
      <3>3. /\ Len(ch') <= BufferSize /\ Len(batch') <= BatchSize
            /\ ~flushing' => Len(batch') < BatchSize
        <4>1. PICK c \in Nat, b \in Nat : c = Len(ch) /\ b = Len(batch)
          BY <1>0
        <4>2. c <= BufferSize /\ b < BatchSize
          BY <3>1, <4>1 DEF SinkInv
        <4>3. c - 1 <= BufferSize /\ b + 1 <= BatchSize
          BY <1>0, <4>2
        <4>4. ~flushing' => ~(b + 1 >= BatchSize)
          BY <3>1, <4>1
        <4>5. ~flushing' => b + 1 < BatchSize
          BY <1>0, <4>4
        <4> QED
          BY <3>2, <4>1, <4>3, <4>5
      <3>4. flushing' \in BOOLEAN
        BY <3>1
      <3> QED
        BY <2>1, <3>1, <3>3, <3>4 DEF SinkInv
    <2>3. CASE Flush
      BY <2>1, <2>3 DEF Flush, SinkInv
    <2>4. CASE Deliver
      <3>1. flushing /\ ~flushing' /\ batch' = <<>> /\ UNCHANGED <<sink, ch>>
        BY <2>4 DEF Deliver
      <3>2. Len(batch') <= BatchSize /\ Len(batch') < BatchSize
        BY <1>0, <3>1
      <3>3. flushing' = FALSE
        BY <2>4 DEF Deliver
      <3>4. sink \notin {"off", "closed"}
        BY <3>1 DEF SinkInv
      <3> QED
        BY <2>1, <3>1, <3>2, <3>3, <3>4 DEF SinkInv
    <2>5. CASE Drained
      BY <2>1, <2>5 DEF Drained, SinkInv
    <2> QED
      BY <1>22, <2>2, <2>3, <2>4, <2>5 DEF SinkRuns, Run
  <1>23. CASE UNCHANGED vars
    BY <1>23, <1>1 DEF vars
  <1> QED
    BY <1>3, <1>4, <1>5, <1>6, <1>7, <1>8, <1>9, <1>10, <1>11, <1>12, <1>13,
       <1>14, <1>15, <1>16, <1>17, <1>18, <1>19, <1>20, <1>21, <1>22, <1>23 DEF
       Next, Check, Operator, Terminated

(* Sequences that rise.                                                    *)

(* A rising sequence stays so with a greater number at its end.            *)
LEMMA AppendRising ==
  ASSUME NEW s \in Seq(Nat), Rising(s), NEW e \in Nat, \A x \in Elements(s) : x < e
  PROVE  /\ Append(s, e) \in Seq(Nat) /\ Rising(Append(s, e))
         /\ Elements(Append(s, e)) = Elements(s) \union {e}
  <1>1. PICK n \in Nat : n = Len(s)
    BY LenProperties
  <1>2. PICK t : t = Append(s, e)
    OBVIOUS
  <1>3. /\ t \in Seq(Nat) /\ Len(t) = n + 1 /\ t[n + 1] = e
        /\ \A i \in 1 .. n : t[i] = s[i]
    BY <1>1, <1>2
  <1>4. Elements(t) = Elements(s) \union {e}
    BY <1>1, <1>3 DEF Elements
  <1>5. ASSUME NEW i \in 1 .. n + 1, NEW j \in 1 .. n + 1, i < j
        PROVE  t[i] < t[j]
    <2>1. i \in 1 .. n
      BY <1>5
    <2>2. t[i] = s[i] /\ s[i] \in Elements(s)
      BY <1>1, <1>3, <2>1 DEF Elements
    <2>3. CASE j \in 1 .. n
      BY <1>1, <1>3, <1>5, <2>1, <2>3 DEF Rising
    <2>4. CASE j \notin 1 .. n
      <3>1. j = n + 1
        BY <2>4
      <3> QED
        BY <1>3, <2>2, <3>1
    <2> QED
      BY <2>3, <2>4
  <1>6. Rising(t)
    BY <1>3, <1>5 DEF Rising
  <1> QED
    BY <1>2, <1>3, <1>4, <1>6

(* A rising sequence is its head and a rising tail of greater numbers.     *)
LEMMA TailRising ==
  ASSUME NEW s \in Seq(Nat), Rising(s), s # <<>>
  PROVE  /\ Tail(s) \in Seq(Nat) /\ Rising(Tail(s)) /\ Head(s) \in Nat
         /\ Elements(s) = {Head(s)} \union Elements(Tail(s))
         /\ \A x \in Elements(Tail(s)) : Head(s) < x
  <1>1. PICK n \in Nat : n = Len(s)
    BY LenProperties
  <1>2. PICK t : t = Tail(s)
    OBVIOUS
  <1>3. /\ t \in Seq(Nat) /\ Len(t) = n - 1 /\ n >= 1
        /\ \A i \in 1 .. n - 1 : t[i] = s[i + 1]
    BY <1>1, <1>2
  <1>4. Head(s) = s[1] /\ s[1] \in Nat
    BY <1>1, <1>3
  <1>5. Elements(s) = {s[1]} \union Elements(t)
    <2>1. ASSUME NEW i \in 1 .. n, i # 1 PROVE s[i] \in Elements(t)
      <3>1. i - 1 \in 1 .. n - 1 /\ (i - 1) + 1 = i
        BY <2>1
      <3>2. t[i - 1] = s[i]
        BY <1>3, <3>1
      <3> QED
        BY <1>3, <3>1, <3>2 DEF Elements
    <2>2. ASSUME NEW i \in 1 .. n - 1 PROVE t[i] \in Elements(s)
      <3>1. i + 1 \in 1 .. n
        BY <1>3
      <3> QED
        BY <1>1, <1>3, <3>1 DEF Elements
    <2>3. 1 \in 1 .. n
      BY <1>3
    <2> QED
      BY <1>1, <1>3, <2>1, <2>2, <2>3 DEF Elements
  <1>6. ASSUME NEW i \in 1 .. n - 1 PROVE s[1] < t[i]
    <2>1. 1 \in 1 .. n /\ i + 1 \in 1 .. n /\ 1 < i + 1
      BY <1>3
    <2> QED
      BY <1>1, <1>3, <2>1 DEF Rising
  <1>7. ASSUME NEW i \in 1 .. n - 1, NEW j \in 1 .. n - 1, i < j
        PROVE  t[i] < t[j]
    <2>1. i + 1 \in 1 .. n /\ j + 1 \in 1 .. n /\ i + 1 < j + 1
      BY <1>3, <1>7
    <2> QED
      BY <1>1, <1>3, <2>1 DEF Rising
  <1>8. Rising(t) /\ \A x \in Elements(t) : s[1] < x
    BY <1>3, <1>6, <1>7 DEF Rising, Elements
  <1> QED
    BY <1>2, <1>3, <1>4, <1>5, <1>8

(* Two rising sequences, the first below the second, are one.              *)
LEMMA ConcatRising ==
  ASSUME NEW s \in Seq(Nat), NEW t \in Seq(Nat), Rising(s), Rising(t),
         Below(Elements(s), Elements(t))
  PROVE  /\ s \o t \in Seq(Nat) /\ Rising(s \o t)
         /\ Elements(s \o t) = Elements(s) \union Elements(t)
  <1>1. PICK m \in Nat, n \in Nat : m = Len(s) /\ n = Len(t)
    BY LenProperties
  <1>2. PICK u : u = s \o t
    OBVIOUS
  <1>3. /\ u \in Seq(Nat) /\ Len(u) = m + n
        /\ \A i \in 1 .. m : u[i] = s[i]
        /\ \A i \in 1 .. n : u[m + i] = t[i]
    BY <1>1, <1>2
  <1>4. ASSUME NEW i \in 1 .. m + n
        PROVE  i \in 1 .. m \/ \E k \in 1 .. n : i = m + k
    <2>1. CASE i <= m
      BY <2>1
    <2>2. CASE ~(i <= m)
      <3>1. i - m \in 1 .. n /\ i = m + (i - m)
        BY <2>2
      <3> QED
        BY <3>1
    <2> QED
      BY <2>1, <2>2
  <1>5. Elements(u) = Elements(s) \union Elements(t)
    <2>1. \A i \in 1 .. m : i \in 1 .. m + n
      OBVIOUS
    <2>2. \A i \in 1 .. n : m + i \in 1 .. m + n
      OBVIOUS
    <2>3. ASSUME NEW i \in 1 .. m + n PROVE u[i] \in Elements(s) \union Elements(t)
      <3>1. CASE i \in 1 .. m
        BY <1>1, <1>3, <3>1 DEF Elements
      <3>2. CASE \E k \in 1 .. n : i = m + k
        BY <1>1, <1>3, <3>2 DEF Elements
      <3> QED
        BY <1>4, <3>1, <3>2
    <2>4. ASSUME NEW i \in 1 .. m PROVE s[i] \in Elements(u)
      BY <1>3, <2>1 DEF Elements
    <2>5. ASSUME NEW i \in 1 .. n PROVE t[i] \in Elements(u)
      BY <1>3, <2>2 DEF Elements
    <2>6. \A x \in Elements(u) : x \in Elements(s) \union Elements(t)
      BY <1>3, <2>3 DEF Elements
    <2>7. \A x \in Elements(s) \union Elements(t) : x \in Elements(u)
      BY <1>1, <2>4, <2>5 DEF Elements
    <2> QED
      BY <2>6, <2>7
  <1>6. ASSUME NEW i \in 1 .. m + n, NEW j \in 1 .. m + n, i < j
        PROVE  u[i] < u[j]
    <2>1. CASE i \in 1 .. m /\ j \in 1 .. m
      BY <1>1, <1>3, <1>6, <2>1 DEF Rising
    <2>2. CASE i \in 1 .. m /\ j \notin 1 .. m
      <3>1. PICK k \in 1 .. n : j = m + k
        BY <1>4, <2>2
      <3>2. u[i] = s[i] /\ u[j] = t[k]
        BY <1>3, <2>2, <3>1
      <3>3. s[i] \in Elements(s) /\ t[k] \in Elements(t)
        BY <1>1, <2>2 DEF Elements
      <3> QED
        BY <3>2, <3>3 DEF Below
    <2>3. CASE i \notin 1 .. m
      <3>1. PICK k \in 1 .. n : i = m + k
        BY <1>4, <2>3
      <3>2. j \notin 1 .. m
        BY <1>6, <3>1
      <3>3. PICK l \in 1 .. n : j = m + l
        BY <1>4, <3>2
      <3>4. k < l
        BY <1>6, <3>1, <3>3
      <3>5. u[i] = t[k] /\ u[j] = t[l]
        BY <1>3, <3>1, <3>3
      <3> QED
        BY <1>1, <3>4, <3>5 DEF Rising
    <2> QED
      BY <2>1, <2>2, <2>3
  <1>7. Rising(u)
    BY <1>3, <1>6 DEF Rising
  <1> QED
    BY <1>2, <1>3, <1>5, <1>7

(* Cutting a rising sequence gives two without a common element.           *)
LEMMA SplitRising ==
  ASSUME NEW s \in Seq(Nat), Rising(s), NEW k \in 0 .. Len(s)
  PROVE  LET a == SubSeq(s, 1, k)
             b == SubSeq(s, k + 1, Len(s))
         IN  /\ a \in Seq(Nat) /\ Rising(a)
             /\ Elements(a) \union ToSet(b) = Elements(s)
             /\ Elements(a) \intersect ToSet(b) = {}
  <1>1. PICK n \in Nat : n = Len(s)
    BY LenProperties
  <1>2. PICK a : a = SubSeq(s, 1, k)
    OBVIOUS
  <1>3. PICK b : b = SubSeq(s, k + 1, n)
    OBVIOUS
  <1>4. k \in Nat /\ k <= n
    BY <1>1
  <1>5. /\ a \in Seq(Nat) /\ Len(a) = k /\ \A i \in 1 .. k : a[i] = s[i]
    BY <1>1, <1>2, <1>4
  <1>6. /\ b \in Seq(Nat) /\ Len(b) = n - k
        /\ \A i \in 1 .. n - k : b[i] = s[k + i]
    BY <1>1, <1>3, <1>4
  <1>7. ToSet(b) = {s[i] : i \in k + 1 .. n}
    <2>1. DOMAIN b = 1 .. n - k
      BY <1>6, LenProperties
    <2>2. ASSUME NEW i \in k + 1 .. n PROVE s[i] \in ToSet(b)
      <3>1. i - k \in 1 .. n - k /\ k + (i - k) = i
        BY <1>4
      <3>2. b[i - k] = s[i]
        BY <1>6, <3>1
      <3> QED
        BY <2>1, <3>1, <3>2 DEF ToSet
    <2>3. ASSUME NEW i \in 1 .. n - k PROVE b[i] \in {s[j] : j \in k + 1 .. n}
      <3>1. k + i \in k + 1 .. n
        BY <1>4
      <3> QED
        BY <1>6, <3>1
    <2> QED
      BY <2>1, <2>2, <2>3 DEF ToSet
  <1>8. Elements(a) = {s[i] : i \in 1 .. k}
    BY <1>5 DEF Elements
  <1>9. Elements(s) = {s[i] : i \in 1 .. n}
    BY <1>1 DEF Elements
  <1>10. 1 .. n = (1 .. k) \union (k + 1 .. n)
    BY <1>4
  <1>11. Elements(a) \union ToSet(b) = Elements(s)
    BY <1>7, <1>8, <1>9, <1>10
  <1>12. Elements(a) \intersect ToSet(b) = {}
    <2>1. ASSUME NEW i \in 1 .. k, NEW j \in k + 1 .. n PROVE s[i] # s[j]
      <3>1. i \in 1 .. n /\ j \in 1 .. n /\ i < j
        BY <1>4
      <3>2. s[i] < s[j] /\ s[i] \in Nat
        BY <1>1, <3>1, ElementOfSeq DEF Rising
      <3> QED
        BY <3>2
    <2> QED
      BY <1>7, <1>8, <2>1
  <1>13. Rising(a)
    <2>1. ASSUME NEW i \in 1 .. k, NEW j \in 1 .. k, i < j PROVE a[i] < a[j]
      <3>1. i \in 1 .. n /\ j \in 1 .. n
        BY <1>4
      <3> QED
        BY <1>1, <1>5, <2>1, <3>1 DEF Rising
    <2> QED
      BY <1>5, <2>1 DEF Rising
  <1> QED
    BY <1>1, <1>2, <1>3, <1>5, <1>11, <1>12, <1>13

(* A step loses no event between the log and the sink, and doubles none.   *)
LEMMA MirrorStep ==
  ASSUME PolicyInv, LineInv, SinkInv, MirrorInv, [Next]_vars
  PROVE  MirrorInv'
  <1>0. Len(log) \in Nat
    BY LenProperties DEF LineInv
  <1>1. ASSUME UNCHANGED <<sinkVars, log>> PROVE MirrorInv'
    BY <1>1 DEF MirrorInv, sinkVars
  <1>2. ASSUME Ship, stage = "write" PROVE MirrorInv'
    <2>1. PICK n \in Nat : n = Len(log)
      BY <1>0
    <2>2. lineNum = n + 1
      BY <1>2, <2>1 DEF LineInv
    <2>3. Len(log') = n + 1
      BY <1>2, <2>1 DEF Ship, LineInv
    <2>4. CASE sink = "off"
      <3>1. UNCHANGED sinkVars
        BY <1>2, <2>4 DEF Ship
      <3> QED
        BY <2>4, <3>1 DEF MirrorInv, sinkVars
    <2>5. CASE sink # "off"
      <3>1. Emit(n + 1)
        BY <1>2, <2>2, <2>5 DEF Ship
      <3>2. Elements(sent) \union Elements(batch) \union Elements(ch)
              \union dropped \union failed = 1 .. n
        BY <2>1, <2>5 DEF MirrorInv
      <3>3. n + 1 \notin 1 .. n /\ \A x \in 1 .. n : x < n + 1
        OBVIOUS
      <3>4. 1 .. n + 1 = (1 .. n) \union {n + 1}
        OBVIOUS
      <3>5. UNCHANGED <<sink, batch, sent, failed>>
        BY <3>1 DEF Emit
      <3>6. CASE ch' = Append(ch, n + 1) /\ dropped' = dropped
        <4>1. /\ Append(ch, n + 1) \in Seq(Nat) /\ Rising(Append(ch, n + 1))
              /\ Elements(Append(ch, n + 1)) = Elements(ch) \union {n + 1}
          <5>1. \A x \in Elements(ch) : x < n + 1
            BY <3>2, <3>3
          <5>2. ch \in Seq(Nat) /\ Rising(ch) /\ n + 1 \in Nat
            BY DEF MirrorInv
          <5> QED
            BY <5>1, <5>2, AppendRising
        <4>2. PICK c : c = Append(ch, n + 1)
          OBVIOUS
        <4>3. Elements(ch)' = Elements(ch) \union {n + 1} /\ ch' \in Seq(Nat)
              /\ Rising(ch')
          BY <3>6, <4>1
        <4>4. Below(Elements(sent)', Elements(ch)')
              /\ Below(Elements(batch)', Elements(ch)')
          BY <3>2, <3>3, <3>5, <4>3 DEF Below, MirrorInv
        <4>5. Elements(sent)' = Elements(sent)
              /\ Elements(batch)' = Elements(batch)
          BY <3>5
        <4>6. (Elements(sent)' \union Elements(batch)' \union Elements(ch)')
                \intersect (dropped' \union failed') = {}
          BY <3>2, <3>3, <3>5, <3>6, <4>3, <4>5 DEF MirrorInv
        <4>7. Elements(sent)' \union Elements(batch)' \union Elements(ch)'
                \union dropped' \union failed' = 1 .. Len(log')
          BY <2>3, <3>2, <3>4, <3>5, <3>6, <4>3, <4>5
        <4> QED
          BY <2>5, <3>5, <3>6, <4>3, <4>4, <4>5, <4>6, <4>7 DEF MirrorInv
      <3>7. CASE ch' = ch /\ dropped' = dropped \union {n + 1}
        <4>1. Elements(sent)' = Elements(sent)
              /\ Elements(batch)' = Elements(batch)
              /\ Elements(ch)' = Elements(ch)
          BY <3>5, <3>7
        <4>2. dropped' \intersect failed' = {}
          BY <3>2, <3>3, <3>5, <3>7 DEF MirrorInv
        <4>3. (Elements(sent)' \union Elements(batch)' \union Elements(ch)')
                \intersect (dropped' \union failed') = {}
          BY <3>2, <3>3, <3>5, <3>7, <4>1 DEF MirrorInv
        <4>4. Elements(sent)' \union Elements(batch)' \union Elements(ch)'
                \union dropped' \union failed' = 1 .. Len(log')
          BY <2>3, <3>2, <3>4, <3>5, <3>7, <4>1
        <4> QED
          BY <2>5, <3>5, <3>7, <4>1, <4>2, <4>3, <4>4 DEF MirrorInv
      <3> QED
        BY <3>1, <3>6, <3>7 DEF Emit
    <2> QED
      BY <2>4, <2>5
  <1>3. CASE LoadPolicy
    BY <1>3, <1>1 DEF LoadPolicy, sinkVars
  <1>4. CASE OpenAudit
    <2>1. UNCHANGED log /\ stage = "open"
      BY <1>4 DEF OpenAudit
    <2>2. CASE job.sink
      <3>1. OpenSink
        BY <1>4, <2>2 DEF OpenAudit
      <3>2. log = <<>> /\ Len(log) = 0
        BY <2>1 DEF PolicyInv, Opening, Fresh
      <3>3. 1 .. Len(log') = {}
        BY <2>1, <3>2
      <3> QED
        BY <3>1, <3>3 DEF OpenSink, MirrorInv
    <2>3. CASE ~job.sink
      BY <1>4, <1>1, <2>3 DEF OpenAudit
    <2> QED
      BY <2>2, <2>3
  <1>5. CASE OpenFails
    BY <1>5, <1>1 DEF OpenFails, walk, Return, sinkVars
  <1>6. CASE Prepare
    BY <1>6, <1>1 DEF Prepare, walk, sinkVars
  <1>7. CASE PrepareFails
    BY <1>7, <1>1 DEF PrepareFails, walk, Return, sinkVars
  <1>8. CASE ScanCall
    BY <1>8, <1>1 DEF ScanCall, sinkVars
  <1>9. CASE ScanBadLine
    BY <1>9, <1>1 DEF ScanBadLine, sinkVars
  <1>10. CASE ScanFails
    BY <1>10, <1>1 DEF ScanFails, walk, Return, sinkVars
  <1>11. CASE ApprovalExpires
    BY <1>11, <1>1 DEF ApprovalExpires, Resolve, sinkVars
  <1>12. CASE DenyAll
    BY <1>12, <1>1 DEF DenyAll, Resolve, sinkVars
  <1>13. CASE WriteEvent
    BY <1>13, <1>2 DEF WriteEvent
  <1>14. CASE WriteFails
    BY <1>14, <1>1, <1>2 DEF WriteFails
  <1>15. CASE AllLinesFailed
    BY <1>15, <1>1 DEF AllLinesFailed, walk, Return, Finished, sinkVars
  <1>16. CASE Finish
    BY <1>16, <1>1 DEF Finish, walk, Return, Finished, sinkVars
  <1>17. CASE SummaryFails
    BY <1>17, <1>1 DEF SummaryFails, walk, Return, Finished, sinkVars
  <1>18. CASE CloseAudit
    <2>1. UNCHANGED <<ch, batch, dropped, sent, failed, log>>
      BY <1>18 DEF CloseAudit, CloseSink, sinkVars
    <2>2. (sink = "off") = (sink' = "off")
      BY <1>18 DEF CloseAudit, CloseSink, sinkVars
    <2> QED
      BY <2>1, <2>2 DEF MirrorInv
  <1>19. CASE Exit
    BY <1>19, <1>1 DEF Exit, walk, sinkVars
  <1>20. CASE OperatorApproves
    BY <1>20, <1>1 DEF OperatorApproves, Resolve, sinkVars
  <1>21. CASE OperatorDenies
    BY <1>21, <1>1 DEF OperatorDenies, Resolve, sinkVars
  <1>22. CASE SinkRuns
    <2>1. log' = log
      BY <1>22 DEF SinkRuns
    <2>2. PICK all : all = IF sink = "off" THEN {} ELSE 1 .. Len(log)
      OBVIOUS
    <2>3. CASE Receive
      <3>1. /\ ch # <<>> /\ ch' = Tail(ch) /\ batch' = Append(batch, Head(ch))
            /\ UNCHANGED <<sink, dropped, sent, failed>>
        BY <2>3 DEF Receive
      <3>2. PICK h, t : h = Head(ch) /\ t = Tail(ch)
        OBVIOUS
      <3>3. /\ t \in Seq(Nat) /\ Rising(t) /\ h \in Nat
            /\ Elements(ch) = {h} \union Elements(t)
            /\ \A x \in Elements(t) : h < x
        BY <3>1, <3>2, TailRising DEF MirrorInv
      <3>4. \A x \in Elements(batch) : x < h
        BY <3>3 DEF MirrorInv, Below
      <3>5. PICK b : b = Append(batch, h)
        OBVIOUS
      <3>6. /\ b \in Seq(Nat) /\ Rising(b)
            /\ Elements(b) = Elements(batch) \union {h}
        BY <3>3, <3>4, <3>5, AppendRising DEF MirrorInv
      <3>7. ch' = t /\ batch' = b
        BY <3>1, <3>2, <3>5
      <3>8. Below(Elements(sent), Elements(b))
            /\ Below(Elements(sent), Elements(t))
            /\ Below(Elements(b), Elements(t))
        BY <3>3, <3>6 DEF MirrorInv, Below
      <3>9. /\ Elements(sent) \union Elements(b) \union Elements(t)
               = Elements(sent) \union Elements(batch) \union Elements(ch)
        BY <3>3, <3>6
      <3>10. /\ Elements(sent)' = Elements(sent) /\ Elements(batch)' = Elements(b)
             /\ Elements(ch)' = Elements(t)
        BY <3>1, <3>7
      <3>11. (Elements(sent) \union Elements(b) \union Elements(t))
               \intersect (dropped \union failed) = {}
             /\ dropped \intersect failed = {}
        BY <3>9 DEF MirrorInv
      <3>12. Elements(sent) \union Elements(b) \union Elements(t)
               \union dropped \union failed = all
        BY <2>2, <3>9 DEF MirrorInv
      <3>13. sent \in Seq(Nat) /\ Rising(sent)
        BY DEF MirrorInv
      <3> QED
        BY <2>1, <2>2, <3>1, <3>3, <3>6, <3>7, <3>8, <3>10, <3>11, <3>12,
           <3>13 DEF MirrorInv
    <2>4. CASE Flush
      BY <2>1, <2>4, <1>1 DEF Flush, MirrorInv
    <2>5. CASE Deliver
      <3>1. PICK k \in 0 .. Len(batch) :
              /\ sent' = sent \o SubSeq(batch, 1, k)
              /\ failed' =
                   failed \union ToSet(SubSeq(batch, k + 1, Len(batch)))
        BY <2>5 DEF Deliver
      <3>2. batch' = <<>> /\ UNCHANGED <<sink, ch, dropped>>
        BY <2>5 DEF Deliver
      <3>3. PICK a, F : /\ a = SubSeq(batch, 1, k)
                        /\ F = ToSet(SubSeq(batch, k + 1, Len(batch)))
        OBVIOUS
      <3>4. /\ a \in Seq(Nat) /\ Rising(a)
            /\ Elements(a) \union F = Elements(batch)
            /\ Elements(a) \intersect F = {}
        BY <3>3, SplitRising DEF MirrorInv
      <3>5. Below(Elements(sent), Elements(a))
        BY <3>4 DEF MirrorInv, Below
      <3>6. PICK s : s = sent \o a
        OBVIOUS
      <3>7. /\ s \in Seq(Nat) /\ Rising(s)
            /\ Elements(s) = Elements(sent) \union Elements(a)
        BY <3>4, <3>5, <3>6, ConcatRising DEF MirrorInv
      <3>8. sent' = s /\ failed' = failed \union F
        BY <3>1, <3>3, <3>6
      <3>9. /\ Elements(<<>>) = {} /\ Rising(<<>>) /\ <<>> \in Seq(Nat)
        BY DEF Elements, Rising
      <3>10. Below(Elements(s), {}) /\ Below({}, Elements(ch))
             /\ Below(Elements(s), Elements(ch))
        BY <3>4, <3>7 DEF MirrorInv, Below
      <3>11. Elements(s) \intersect F = {}
        <4>1. \A x \in Elements(sent), y \in Elements(batch) : x # y
          <5>1. Elements(sent) \subseteq Nat
            BY ElementOfSeq DEF MirrorInv, Elements
          <5> QED
            BY <5>1 DEF MirrorInv, Below
        <4> QED
          BY <3>4, <3>7, <4>1
      <3>12. Elements(ch) \intersect F = {}
        <4>1. \A x \in Elements(batch), y \in Elements(ch) : x # y
          <5>1. Elements(batch) \subseteq Nat
            BY ElementOfSeq DEF MirrorInv, Elements
          <5> QED
            BY <5>1 DEF MirrorInv, Below
        <4> QED
          BY <3>4, <4>1
      <3>13. dropped \intersect (failed \union F) = {}
        BY <3>4 DEF MirrorInv
      <3>14. (Elements(s) \union Elements(ch))
               \intersect (dropped \union (failed \union F)) = {}
        BY <3>4, <3>7, <3>11, <3>12 DEF MirrorInv
      <3>15. Elements(s) \union {} \union Elements(ch)
               \union dropped \union (failed \union F) = all
        BY <2>2, <3>4, <3>7 DEF MirrorInv
      <3>16. /\ Elements(sent)' = Elements(s) /\ Elements(batch)' = {}
             /\ Elements(ch)' = Elements(ch) /\ Rising(batch')
        BY <3>2, <3>8, <3>9
      <3>17. ch \in Seq(Nat) /\ Rising(ch)
        BY DEF MirrorInv
      <3> QED
        BY <2>1, <2>2, <3>2, <3>7, <3>8, <3>9, <3>10, <3>13, <3>14, <3>15,
           <3>16, <3>17 DEF MirrorInv
    <2>6. CASE Drained
      <3>1. UNCHANGED <<ch, batch, dropped, sent, failed>>
            /\ sink # "off" /\ sink' # "off"
        BY <2>6 DEF Drained
      <3> QED
        BY <2>1, <3>1 DEF MirrorInv
    <2> QED
      BY <1>22, <2>3, <2>4, <2>5, <2>6 DEF SinkRuns, Run
  <1>23. CASE UNCHANGED vars
    BY <1>23, <1>1 DEF vars
  <1> QED
    BY <1>3, <1>4, <1>5, <1>6, <1>7, <1>8, <1>9, <1>10, <1>11, <1>12, <1>13,
       <1>14, <1>15, <1>16, <1>17, <1>18, <1>19, <1>20, <1>21, <1>22, <1>23 DEF
       Next, Check, Operator, Terminated

-------------------------------------------------------------------------------
(* The invariant.                                                          *)

(* What the properties below follow from.  It says what the log, the       *)
(* counts, the line in hand and the sink are at every stage of runCheck.   *)
THEOREM Invariance == Spec => []Inv
  <1>1. ASSUME Inv, [Next]_vars PROVE Inv'
    <2>1. /\ PolicyInv /\ LineInv /\ HandInv /\ CountInv /\ OutcomeInv
          /\ ExplainInv /\ SinkInv /\ MirrorInv
      BY <1>1 DEF Inv
    <2>2. PolicyInv' /\ LineInv' /\ HandInv' /\ CountInv' /\ OutcomeInv'
      BY <1>1, <2>1, PolicyStep, LineStep, HandStep, CountStep, OutcomeStep
    <2>3. ExplainInv' /\ SinkInv' /\ MirrorInv'
      BY <1>1, <2>1, ExplainStep, SinkStep, MirrorStep
    <2> QED
      BY <2>2, <2>3 DEF Inv
  <1> QED
    BY <1>1, InitInv, PTL DEF Spec

(* The elements of a sequence, as a quantifier and as a set.               *)
LEMMA ElementsToSet ==
  ASSUME NEW S, NEW s \in Seq(S)
  PROVE  ToSet(s) = Elements(s)
  BY LenProperties DEF ToSet, Elements

(* TypeOK: what runCheck keeps has the shape its variables have, and only  *)
(* lines it has scanned are in the log or with the sink.                   *)
THEOREM TypeCorrect == Spec => []TypeOK
  <1>1. ASSUME Inv PROVE TypeOK
    <2>1. PolicyInv /\ LineInv /\ CountInv /\ OutcomeInv /\ SinkInv /\ MirrorInv
      BY <1>1 DEF Inv
    <2>2. stage \in {"load", "open", "prepare", "scan", "ask", "write", "close",
                     "wait", "exited"}
      BY <2>1 DEF PolicyInv, Opening, Walking, Ending
    <2>3. /\ lineNum \in 0 .. Len(job.lines) /\ parseErrors \in 0 .. lineNum
          /\ result \in Results
          /\ Len(log) <= lineNum /\ approved \subseteq 1 .. lineNum
          /\ exit \in {"none", "ok", "gate", "error"}
      BY <2>1 DEF LineInv
    <2>4. counts \in [Decisions -> 0 .. lineNum]
      BY <2>1 DEF CountInv
    <2>5. Len(summary) <= 1
      <3>1. summary = <<>> \/ \E x : summary = <<x>>
        BY <2>1, <2>3 DEF OutcomeInv
      <3>2. \A x : Len(<<x>>) = 1
        OBVIOUS
      <3>3. Len(<<>>) = 0
        OBVIOUS
      <3>4. CASE summary = <<>>
        BY <3>3, <3>4
      <3>5. CASE \E x : summary = <<x>>
        <4>1. PICK x : summary = <<x>>
          BY <3>5
        <4>2. Len(summary) = 1
          BY <3>2, <4>1
        <4> QED
          BY <4>2
      <3> QED
        BY <3>1, <3>4, <3>5
    <2>6. /\ sink \in {"off", "open", "closing", "closed"} /\ flushing \in BOOLEAN
          /\ Len(ch) <= BufferSize /\ Len(batch) <= BatchSize
      BY <2>1 DEF SinkInv
    <2>7. ToSet(ch) \union ToSet(batch) \union ToSet(sent) \union dropped
            \union failed \subseteq 1 .. lineNum
      <3>1. /\ ToSet(ch) = Elements(ch) /\ ToSet(batch) = Elements(batch)
            /\ ToSet(sent) = Elements(sent)
        BY <2>1, ElementsToSet DEF MirrorInv
      <3>2. 1 .. Len(log) \subseteq 1 .. lineNum
        <4>1. PICK n \in Nat : n = Len(log)
          BY <2>1, LenProperties DEF LineInv
        <4>2. lineNum \in Int
          <5>1. Len(job.lines) \in Nat
            BY <2>1, JobLines DEF PolicyInv
          <5> QED
            BY <2>3, <5>1
        <4> QED
          BY <2>3, <4>1, <4>2
      <3> QED
        BY <2>1, <3>1, <3>2 DEF MirrorInv
    <2> QED
      BY <2>2, <2>3, <2>4, <2>5, <2>6, <2>7 DEF TypeOK
  <1> QED
    BY <1>1, Invariance, PTL

(* The call in hand and what the policy says of it.                        *)
LEMMA Said ==
  ASSUME Inv, InHand, Exact(Line.call)
  PROVE  /\ Parsed(policy.policy) /\ Names(policy.policy) \subseteq ToSet(NameOrder)
         /\ Readable(Line.call)
         /\ Decides(policy.policy, Line.call,
                    Evaluate(policy.policy, Line.call))
         /\ result.key = Evaluate(policy.policy, Line.call).key
         /\ result.decision # "deny" =>
              Evaluate(policy.policy, Line.call).decision # "deny"
  <1>1. PolicyInv /\ LineInv /\ HandInv
    BY DEF Inv
  <1>2. stage \in {"ask", "write"} /\ Line.form = "call"
    BY DEF InHand
  <1>3. Ready
    BY <1>1, <1>2 DEF PolicyInv
  <1>4. Readable(Line.call)
    <2>1. lineNum \in 1 .. Len(job.lines)
      <3>1. Len(job.lines) \in Nat
        BY <1>1, JobLines DEF PolicyInv
      <3> QED
        BY <1>1, <1>2, <3>1 DEF LineInv
    <2> QED
      BY <1>1, <1>2, <2>1, JobLines DEF PolicyInv, Line
  <1>5. PICK p, c : p = policy.policy /\ c = Line.call
    OBVIOUS
  <1>6. Parsed(p) /\ Compiles(p) /\ Names(p) \subseteq ToSet(NameOrder)
    BY <1>3, <1>5 DEF Ready
  <1>7. PICK e : e = Evaluate(p, c)
    OBVIOUS
  <1>8. Decides(p, c, e)
    BY <1>4, <1>5, <1>6, <1>7, EvaluateDecides
  <1>9. PICK said : said = EvaluateBound(p, c)
    OBVIOUS
  <1>10. said.key = e.key /\ said.decision = e.decision
    <2>1. said = [decision |-> e.decision, code |-> e.code, key |-> e.key,
                  action |-> ToolActionDigest(c), policy |-> <<p>>]
      BY <1>5, <1>6, <1>7, <1>9, BoundIsEvaluate
    <2>2. PICK d, o, k, a : /\ d = e.decision /\ o = e.code /\ k = e.key
                            /\ a = ToolActionDigest(c)
      OBVIOUS
    <2>3. said = [decision |-> d, code |-> o, key |-> k, action |-> a,
                  policy |-> <<p>>]
      BY <2>1, <2>2
    <2> QED
      BY <2>2, <2>3
  <1>11. result.key = said.key
         /\ (result.decision # "deny" => said.decision # "deny")
    <2>1. CASE stage = "ask"
      BY <1>1, <1>5, <1>9, <2>1 DEF HandInv
    <2>2. CASE stage = "write"
      BY <1>1, <1>2, <1>5, <1>9, <2>2 DEF HandInv, NeedsApproval
    <2> QED
      BY <1>2, <2>1, <2>2
  <1> QED
    BY <1>4, <1>5, <1>6, <1>7, <1>8, <1>10, <1>11

(* RulePrecedence: a call falls under the rule of its exact name, or of    *)
(* the first group, or of the first pattern that matches it.               *)
THEOREM RulePrecedenceCorrect == Spec => []RulePrecedence
  <1>1. ASSUME Inv, InHand, Exact(Line.call)
        PROVE  FallsUnder(policy.policy, Line.call.tool, result.key)
    <2>1. PICK p, tool, key :
            p = policy.policy /\ tool = Line.call.tool /\ key = result.key
      OBVIOUS
    <2>2. IsPolicy(p) /\ Names(p) \subseteq ToSet(NameOrder)
      BY <1>1, <2>1, Said DEF Parsed
    <2>3. key = LookupRule(p, tool)
      BY <1>1, <2>1, Said DEF Decides
    <2>4. FallsUnder(p, tool, key)
      BY <2>2, <2>3, LookupIsFirst
    <2> QED
      BY <2>1, <2>4
  <1>2. Inv => RulePrecedence
    BY <1>1 DEF RulePrecedence, FallsUnder, GroupsFor, PatternsFor
  <1> QED
    BY <1>2, Invariance, PTL

(* ConstraintsFailClosed: a call that is not refused carries every         *)
(* argument its rule constrains, each of them one the rule allows.         *)
THEOREM ConstraintsFailClosedCorrect == Spec => []ConstraintsFailClosed
  <1>1. ASSUME Inv, InHand, result.key # "", result.decision # "deny"
        PROVE  Exact(Line.call)
    <2>1. PolicyInv /\ HandInv /\ stage \in {"ask", "write"} /\ Line.form = "call"
      BY <1>1 DEF Inv, InHand
    <2>2. Parsed(policy.policy) /\ Compiles(policy.policy)
      BY <2>1 DEF PolicyInv, Ready
    <2>3. PICK p, c, said : /\ p = policy.policy /\ c = Line.call
                            /\ said = EvaluateBound(p, c)
      OBVIOUS
    <2>4. result.key = said.key
      BY <2>1, <2>3 DEF HandInv
    <2> SUFFICES ASSUME ~Exact(c) PROVE FALSE
      BY <2>3
    <2>5. said = BindingFailure("action_binding_failed", <<>>)
      BY <2>2, <2>3, BoundIsEvaluate
    <2>6. said.key = ""
      BY <2>5 DEF BindingFailure
    <2> QED
      BY <1>1, <2>4, <2>6
  <1>2. ASSUME NEW p, Parsed(p), Names(p) \subseteq ToSet(NameOrder),
               NEW call, Readable(call), NEW key \in DOMAIN p.tools,
               Passes(p, p.tools[key], call)
        PROVE  LET rule == p.tools[key]
                   path == StringArg(call, "path")
                   url == StringArg(call, "url")
                   command == StringArg(call, "command")
               IN  /\ path # "" => ~Text[path].unsafe
                   /\ Constrains(rule.paths) =>
                        path # "" /\ MeetsLists(rule.paths, Text[path].clean)
                   /\ \A f \in DOMAIN rule.args :
                        /\ f \in DOMAIN call.args /\ ~call.args[f].nil
                        /\ MeetsLists(rule.args[f], call.args[f].text)
                   /\ Constrains(rule.urls) =>
                        /\ url # "" /\ Text[url].url = "plain"
                        /\ MeetsLists(rule.urls, url)
                   /\ rule.command.deny \union rule.command.executables # {} =>
                        /\ command # "" /\ ~MatchesAny(rule.command.deny, command)
                        /\ rule.command.executables # {} =>
                             Text[command].executable \in rule.command.executables
                   /\ MemoryIsSet(rule.memory) =>
                        MeetsMemory(p, rule.memory, call)
    <2>1. PICK rule : rule = p.tools[key]
      OBVIOUS
    <2>2. DOMAIN rule.args \subseteq ToSet(NameOrder)
      BY <1>2, <2>1 DEF Names
    <2>3. ValidMemory(rule.memory) /\ rule.memory.bytes \in Int
      BY <1>2, <2>1, ParsedParsable DEF Parsable, ValidRules, IsPolicy
    <2>4. StringArg(call, "url") \in DOMAIN Text
      BY <1>2, ReadableText
    <2>5. /\ Unrefused(PathChecks(rule, call)) /\ Unrefused(ArgChecks(rule, call))
          /\ Unrefused(URLChecks(rule, call))
          /\ Unrefused(CommandChecks(rule, call))
          /\ Unrefused(MemoryChecks(p, rule, call))
      BY <1>2, <2>1 DEF Passes
    <2>6. LET path == StringArg(call, "path")
          IN  /\ path # "" => ~Text[path].unsafe
              /\ Constrains(rule.paths) =>
                   path # "" /\ MeetsLists(rule.paths, Text[path].clean)
      BY <2>5, PathRefusals DEF Constrains, MeetsLists
    <2>7. \A f \in DOMAIN rule.args :
            /\ f \in DOMAIN call.args /\ ~call.args[f].nil
            /\ MeetsLists(rule.args[f], call.args[f].text)
      BY <2>2, <2>5, ArgRefusals DEF MeetsLists
    <2>8. LET url == StringArg(call, "url")
          IN  Constrains(rule.urls) =>
                /\ url # "" /\ Text[url].url = "plain"
                /\ MeetsLists(rule.urls, url)
      BY <2>4, <2>5, URLRefusals DEF Constrains, MeetsLists
    <2>9. LET command == StringArg(call, "command")
          IN  rule.command.deny \union rule.command.executables # {} =>
                /\ command # "" /\ ~MatchesAny(rule.command.deny, command)
                /\ rule.command.executables # {} =>
                     Text[command].executable \in rule.command.executables
      BY <2>5, CommandRefusals
    <2>10. MemoryIsSet(rule.memory) => MeetsMemory(p, rule.memory, call)
      <3>1. PICK m : m = rule.memory
        OBVIOUS
      <3> QED
        BY <1>2, <2>3, <2>5, <3>1, MemoryRefusals DEF MeetsMemory
    <2> QED
      BY <2>1, <2>6, <2>7, <2>8, <2>9, <2>10
  <1>3. ASSUME Inv, InHand, result.key # "", result.decision # "deny"
        PROVE  /\ Parsed(policy.policy)
               /\ Names(policy.policy) \subseteq ToSet(NameOrder)
               /\ Readable(Line.call)
               /\ result.key \in DOMAIN policy.policy.tools
               /\ Passes(policy.policy, policy.policy.tools[result.key], Line.call)
    <2>1. PICK p, c, e : /\ p = policy.policy /\ c = Line.call
                         /\ e = Evaluate(p, c)
      OBVIOUS
    <2>2. /\ Parsed(p) /\ Names(p) \subseteq ToSet(NameOrder) /\ Readable(c)
          /\ Decides(p, c, e) /\ result.key = e.key /\ e.decision # "deny"
      BY <1>1, <1>3, <2>1, Said
    <2> QED
      BY <1>3, <2>1, <2>2 DEF Decides
  <1>4. Inv => ConstraintsFailClosed
    <2> SUFFICES ASSUME Inv, InHand, result.key # "", result.decision # "deny"
                 PROVE  ConstraintsFailClosed
      BY DEF ConstraintsFailClosed
    <2>1. PICK p, c, k : /\ p = policy.policy /\ c = Line.call
                         /\ k = result.key
      OBVIOUS
    <2>2. /\ Parsed(p) /\ Names(p) \subseteq ToSet(NameOrder) /\ Readable(c)
          /\ k \in DOMAIN p.tools /\ Passes(p, p.tools[k], c)
      BY <1>3, <2>1
    <2> QED
      BY <1>2, <2>1, <2>2 DEF ConstraintsFailClosed
  <1> QED
    BY <1>4, Invariance, PTL

(* EventsExplained: every event of the log can be reproduced from its line *)
(* and the policy, but for the operator's answers.                         *)
THEOREM EventsExplainedCorrect == Spec => []EventsExplained
  <1>1. Inv => EventsExplained
    BY DEF Inv, ExplainInv, Explained, EventsExplained
  <1> QED
    BY <1>1, Invariance, PTL

(* ExitAgreesWithLog: the gate fails exactly when the log holds a decision *)
(* it names, never in a dry run, and the summary counts what is logged.    *)
THEOREM ExitAgreesWithLogCorrect == Spec => []ExitAgreesWithLog
  <1>1. ASSUME Inv, exit \in {"ok", "gate"}
        PROVE  /\ Len(log) = Len(job.lines)
               /\ log # <<>> =>
                    \E i \in 1 .. Len(log) : log[i].code # "parse_error"
               /\ (exit = "gate") = ((\E d \in job.failOn :
                                        Cardinality(Logged(d)) > 0)
                                       /\ ~job.dryRun)
               /\ job.summary =>
                    /\ summary[1].counts
                         = [d \in Decisions |-> Cardinality(Logged(d))]
                    /\ summary[1].failed = (exit = "gate")
    <2>1. /\ PolicyInv /\ LineInv /\ CountInv /\ OutcomeInv
      BY <1>1 DEF Inv
    <2>2. /\ Len(log) = lineNum /\ lineNum = Len(job.lines)
          /\ lineNum > 0 => parseErrors < lineNum
          /\ (exit = "gate") = GateFails
          /\ summary = IF job.summary
                       THEN <<[total |-> lineNum, parseErrors |-> parseErrors,
                               counts |-> counts, matched |-> Matched,
                               failed |-> GateFails]>>
                       ELSE <<>>
      BY <1>1, <2>1 DEF OutcomeInv
    <2>3. \A d \in Decisions : counts[d] = Cardinality(Logged(d))
      BY <1>1, <2>1 DEF CountInv
    <2>4. counts \in [Decisions -> 0 .. lineNum] /\ lineNum \in Nat
      BY <2>1, <2>2, LenProperties DEF CountInv, LineInv
    <2>5. ASSUME log # <<>>
          PROVE  \E i \in 1 .. Len(log) : log[i].code # "parse_error"
      <3>1. lineNum > 0
        <4>1. Len(log) # 0
          BY <2>1, <2>5, EmptySeq DEF LineInv
        <4> QED
          BY <2>2, <2>4, <4>1
      <3>2. PICK i \in 1 .. lineNum : job.lines[i].form = "call"
        BY <2>1, <2>2, <3>1 DEF CountInv
      <3>3. log[i].code # "parse_error"
        BY <2>1, <2>2, <3>2 DEF CountInv
      <3> QED
        BY <2>2, <3>2, <3>3
    <2>6. Matched > 0 <=> \E d \in job.failOn : Cardinality(Logged(d)) > 0
      <3>1. job.failOn \subseteq {"deny", "ask"}
        BY <2>1, JobsAssumption DEF PolicyInv
      <3>2. PICK m \in Nat, n \in Nat : m = counts["deny"] /\ n = counts["ask"]
        BY <2>4 DEF Decisions
      <3>3. /\ Cardinality(Logged("deny")) = m
            /\ Cardinality(Logged("ask")) = n
        BY <2>3, <3>2 DEF Decisions
      <3>4. Matched = (IF "deny" \in job.failOn THEN m ELSE 0)
                        + (IF "ask" \in job.failOn THEN n ELSE 0)
        BY <3>2 DEF Matched
      <3>5. (\E d \in job.failOn : Cardinality(Logged(d)) > 0)
              <=> \/ "deny" \in job.failOn /\ m > 0
                  \/ "ask" \in job.failOn /\ n > 0
        BY <3>1, <3>3
      <3>6. (IF "deny" \in job.failOn THEN m ELSE 0)
              + (IF "ask" \in job.failOn THEN n ELSE 0) > 0
              <=> \/ "deny" \in job.failOn /\ m > 0
                  \/ "ask" \in job.failOn /\ n > 0
        OBVIOUS
      <3> QED
        BY <3>4, <3>5, <3>6
    <2>7. (exit = "gate") = ((\E d \in job.failOn :
                                Cardinality(Logged(d)) > 0) /\ ~job.dryRun)
      BY <2>2, <2>6 DEF GateFails
    <2>8. ASSUME job.summary
          PROVE  /\ summary[1].counts
                      = [d \in Decisions |-> Cardinality(Logged(d))]
                 /\ summary[1].failed = (exit = "gate")
      <3>1. PICK c, m, n, q, g : /\ c = counts /\ m = Matched /\ g = GateFails
                                 /\ n = lineNum /\ q = parseErrors
        OBVIOUS
      <3>2. PICK x : x = [total |-> n, parseErrors |-> q, counts |-> c,
                          matched |-> m, failed |-> g]
        OBVIOUS
      <3>3. summary = <<x>>
        BY <2>2, <2>8, <3>1, <3>2
      <3>4. summary[1] = x
        BY <3>3
      <3>5. x.counts = c /\ x.failed = g
        BY <3>2
      <3>6. c = [d \in Decisions |-> Cardinality(Logged(d))]
        <4>1. c = [d \in Decisions |-> c[d]]
          BY <2>4, <3>1
        <4> QED
          BY <2>3, <3>1, <4>1
      <3> QED
        BY <2>2, <3>1, <3>4, <3>5, <3>6
    <2> QED
      BY <2>2, <2>5, <2>7, <2>8
  <1>2. ASSUME Inv PROVE /\ \A i \in 1 .. Len(log) : log[i].line = i
                         /\ summary # <<>> => exit \in {"ok", "gate"}
    BY <1>2 DEF Inv, LineInv, OutcomeInv
  <1>3. Inv => ExitAgreesWithLog
    BY <1>1, <1>2 DEF ExitAgreesWithLog, Logged
  <1> QED
    BY <1>3, Invariance, PTL

(* SinkMirrorsLog: every event of the log is with the sink once, in the    *)
(* order of the log, or counted as dropped or failed, and none is left     *)
(* behind.                                                                 *)
THEOREM SinkMirrorsLogCorrect == Spec => []SinkMirrorsLog
  <1>1. ASSUME Inv PROVE SinkMirrorsLog
    <2>1. LineInv /\ SinkInv /\ MirrorInv
      BY <1>1 DEF Inv
    <2>2. PICK sb :
            /\ sb = sent \o batch /\ sb \in Seq(Nat) /\ Rising(sb)
            /\ Elements(sb) = Elements(sent) \union Elements(batch)
      BY <2>1, ConcatRising DEF MirrorInv
    <2>3. Below(Elements(sb), Elements(ch))
      BY <2>1, <2>2 DEF MirrorInv, Below
    <2>4. PICK carried :
            /\ carried = sb \o ch /\ carried \in Seq(Nat) /\ Rising(carried)
            /\ Elements(carried) = Elements(sb) \union Elements(ch)
      BY <2>1, <2>2, <2>3, ConcatRising DEF MirrorInv
    <2>5. carried = sent \o batch \o ch
      BY <2>2, <2>4
    <2>6. ToSet(carried)
            = Elements(sent) \union Elements(batch) \union Elements(ch)
      BY <2>2, <2>4, ElementsToSet
    <2>7. {log[i].line : i \in 1 .. Len(log)} = 1 .. Len(log)
      BY <2>1 DEF LineInv
    <2>8. \A i, j \in 1 .. Len(carried) : i < j => carried[i] < carried[j]
      BY <2>4 DEF Rising
    <2>9. /\ ToSet(carried) \intersect (dropped \union failed) = {}
          /\ dropped \intersect failed = {}
          /\ ToSet(carried) \union dropped \union failed
               = IF sink = "off" THEN {}
                 ELSE {log[i].line : i \in 1 .. Len(log)}
      BY <2>1, <2>6, <2>7 DEF MirrorInv
    <2>10. stage = "exited" => batch \o ch = <<>>
      <3>1. stage = "exited" => batch = <<>> /\ ch = <<>>
        BY <2>1 DEF SinkInv
      <3>2. <<>> \o <<>> = <<>>
        OBVIOUS
      <3> QED
        BY <3>1, <3>2
    <2> QED
      BY <2>5, <2>8, <2>9, <2>10 DEF SinkMirrorsLog
  <1> QED
    BY <1>1, Invariance, PTL

-------------------------------------------------------------------------------
(* The policy in use and the tree it was loaded from.                      *)

LoadedInv == job \in Jobs /\ (stage # "load" => policy = LoadFile(job.fs))

(* The policy in use stays the one the tree gave.                          *)
LEMMA LoadedStep ==
  ASSUME LoadedInv, [Next]_vars
  PROVE  LoadedInv'
  <1>0. job' = job
    BY Frame
  <1>1. CASE LoadPolicy
    BY <1>1, <1>0 DEF LoadPolicy, LoadedInv
  <1>2. CASE OpenAudit
    BY <1>2, <1>0 DEF OpenAudit, walk, LoadedInv
  <1>3. CASE OpenFails
    BY <1>3, <1>0 DEF OpenFails, walk, Return, LoadedInv
  <1>4. CASE Prepare
    BY <1>4, <1>0 DEF Prepare, walk, LoadedInv
  <1>5. CASE PrepareFails
    BY <1>5, <1>0 DEF PrepareFails, walk, Return, LoadedInv
  <1>6. CASE ScanCall
    BY <1>6, <1>0 DEF ScanCall, LoadedInv
  <1>7. CASE ScanBadLine
    BY <1>7, <1>0 DEF ScanBadLine, LoadedInv
  <1>8. CASE ScanFails
    BY <1>8, <1>0 DEF ScanFails, walk, Return, LoadedInv
  <1>9. CASE ApprovalExpires
    BY <1>9, <1>0 DEF ApprovalExpires, Resolve, LoadedInv
  <1>10. CASE DenyAll
    BY <1>10, <1>0 DEF DenyAll, Resolve, LoadedInv
  <1>11. CASE WriteEvent
    BY <1>11, <1>0 DEF WriteEvent, LoadedInv
  <1>12. CASE WriteFails
    BY <1>12, <1>0 DEF WriteFails, Return, LoadedInv
  <1>13. CASE AllLinesFailed
    BY <1>13, <1>0 DEF AllLinesFailed, walk, Return, Finished, LoadedInv
  <1>14. CASE Finish
    BY <1>14, <1>0 DEF Finish, walk, Return, Finished, LoadedInv
  <1>15. CASE SummaryFails
    BY <1>15, <1>0 DEF SummaryFails, walk, Return, Finished, LoadedInv
  <1>16. CASE CloseAudit
    BY <1>16, <1>0 DEF CloseAudit, walk, LoadedInv
  <1>17. CASE Exit
    BY <1>17, <1>0 DEF Exit, walk, LoadedInv
  <1>18. CASE OperatorApproves
    BY <1>18, <1>0 DEF OperatorApproves, Resolve, LoadedInv
  <1>19. CASE OperatorDenies
    BY <1>19, <1>0 DEF OperatorDenies, Resolve, LoadedInv
  <1>20. CASE SinkRuns
    BY <1>20, <1>0 DEF SinkRuns, walk, LoadedInv
  <1>21. CASE UNCHANGED vars
    BY <1>21, <1>0 DEF vars, walk, sinkVars, LoadedInv
  <1> QED
    BY <1>1, <1>2, <1>3, <1>4, <1>5, <1>6, <1>7, <1>8, <1>9, <1>10, <1>11,
       <1>12, <1>13, <1>14, <1>15, <1>16, <1>17, <1>18, <1>19, <1>20, <1>21 DEF
       Next, Check, Operator, Terminated

(* Once it has loaded a policy, check works with that policy to the end    *)
(* (runCheck, policy.LoadFile).                                            *)
THEOREM Loads == Spec => []LoadedInv
  <1>1. Init => LoadedInv
    BY DEF Init, LoadedInv
  <1>2. LoadedInv /\ [Next]_vars => LoadedInv'
    BY LoadedStep
  <1> QED
    BY <1>1, <1>2, PTL DEF Spec

(* The files of the job are a tree whose names the order knows.            *)
LEMMA TreeNow ==
  ASSUME LoadedInv
  PROVE  /\ IsTree(job.fs)
         /\ \A f \in DOMAIN job.fs.content :
              Names(job.fs.content[f].policy) \subseteq ToSet(NameOrder)
  BY JobsAssumption DEF LoadedInv

(* The order of the files, as the walks over imports give it.              *)
LEMMA OrderOf ==
  ASSUME NEW fs, IsTree(fs)
  PROVE  \E order : /\ IsWalk(order, "order", fs)
                    /\ LoadOrder(fs) = order[<<fs.root>>]
  <1>1. PICK order :
          order = CHOOSE g : g = [path \in Paths(fs) |->
                    Ordered(fs, path, Children(fs, path, g))]
    OBVIOUS
  <1>2. IsWalk(order, "order", fs)
    BY <1>1, OrderWalk
  <1>3. LoadOrder(fs) = order[<<fs.root>>]
    BY <1>1 DEF LoadOrder, Ordered
  <1> QED
    BY <1>2, <1>3

(* ValidateAgrees: `agentfence validate' accepts a policy exactly when     *)
(* LoadFile does and every file of it passes ValidateStrict.               *)
THEOREM ValidateAgreesCorrect == Spec => []ValidateAgrees
  <1>1. ASSUME LoadedInv PROVE ValidateAgrees
    <2> SUFFICES ASSUME stage # "load"
                 PROVE  ValidateFileStrict(job.fs) = {}
                          <=> /\ policy.err = "none"
                              /\ \A f \in ToSet(LoadOrder(job.fs)) :
                                   StrictErrors(job.fs.content[f].policy) = {}
      BY DEF ValidateAgrees
    <2>1. PICK fs : fs = job.fs
      OBVIOUS
    <2>2. IsTree(fs) /\ policy = LoadFile(fs)
      BY <1>1, <2>1, TreeNow DEF LoadedInv
    <2>3. PICK order : IsWalk(order, "order", fs)
                       /\ LoadOrder(fs) = order[<<fs.root>>]
      BY <2>2, OrderOf
    <2>4. ValidateFileStrict(fs) = {}
            <=> /\ LoadFile(fs).err = "none"
                /\ \A f \in ToSet(order[<<fs.root>>]) :
                     StrictErrors(fs.content[f].policy) = {}
      BY <2>2, <2>3, WalksAgree
    <2> QED
      BY <2>1, <2>2, <2>3, <2>4
  <1> QED
    BY <1>1, Loads, PTL

-------------------------------------------------------------------------------
(* The layers of a policy.                                                 *)

(* Wins, as LastLayerWins says it of one field.                            *)
ScalarLast(p, L, field, unset) ==
  LET j == LastOf({i \in 1 .. Len(L) : L[i][field] # unset})
  IN  p[field] = IF j = 0 THEN unset ELSE L[j][field]

KeysOfLast(p, L, field) ==
  /\ DOMAIN p[field] = UNION {DOMAIN l[field] : l \in ToSet(L)}
  /\ \A k \in DOMAIN p[field] :
       p[field][k]
         = L[LastOf({i \in 1 .. Len(L) : k \in DOMAIN L[i][field]})][field][k]

Says(p, L) ==
  /\ \A field \in {"version", "decision", "format", "mode"} :
       ScalarLast(p, L, field, "")
  /\ ScalarLast(p, L, "minLength", 0)
  /\ KeysOfLast(p, L, "tools") /\ KeysOfLast(p, L, "groups")
  /\ p.patterns = FlattenSeq([i \in 1 .. Len(L) |-> L[i].patterns])
  /\ p.redact = \E l \in ToSet(L) : l.redact
  /\ p.include = \E l \in ToSet(L) : l.include
  /\ p.taint = \E l \in ToSet(L) : l.taint

(* LastLayerWins' scalar part from the last set value of a column.         *)
LEMMA ScalarWins ==
  ASSUME NEW P, NEW L, L \in Seq(P), NEW field, NEW unset, NEW p,
         LastSet(p[field], unset, Column(L, field))
  PROVE  ScalarLast(p, L, field, unset)
  <1>1. PICK n \in Nat : n = Len(L)
    BY LenProperties
  <1>2. PICK c : c = Column(L, field)
    OBVIOUS
  <1>3. c = [i \in 1 .. n |-> L[i][field]]
    BY <1>1, <1>2 DEF Column
  <1>4. Len(c) = n
    <2>1. c \in [1 .. n -> {L[i][field] : i \in 1 .. n}]
      BY <1>3
    <2> QED
      BY <2>1, FcnLen
  <1>5. PICK I : I = {i \in 1 .. n : c[i] # unset}
    OBVIOUS
  <1>6. I = {i \in 1 .. n : L[i][field] # unset}
    BY <1>3, <1>5
  <1>7. p[field] = IF LastOf(I) = 0 THEN unset ELSE c[LastOf(I)]
    BY <1>2, <1>4, <1>5, LastSetIs
  <1>8. LastOf(I) = 0 \/ LastOf(I) \in 1 .. n
    <2>1. CASE I = {}
      BY <2>1 DEF LastOf
    <2>2. CASE I # {}
      <3>1. I \in SUBSET (1 .. n)
        BY <1>5
      <3>2. Max(I) \in I
        BY <2>2, <3>1, MaxIndex
      <3> QED
        BY <2>2, <3>1, <3>2 DEF LastOf
    <2> QED
      BY <2>1, <2>2
  <1>9. p[field] = IF LastOf(I) = 0 THEN unset ELSE L[LastOf(I)][field]
    BY <1>3, <1>7, <1>8
  <1> QED
    BY <1>1, <1>6, <1>9 DEF ScalarLast

(* LastLayerWins' keys from the last value of each key in a column.        *)
LEMMA KeysWinLast ==
  ASSUME NEW P, NEW L, L \in Seq(P), NEW field, NEW p,
         KeysLast(p[field], Column(L, field))
  PROVE  KeysOfLast(p, L, field)
  <1>1. PICK n \in Nat : n = Len(L)
    BY LenProperties
  <1>2. PICK c : c = Column(L, field)
    OBVIOUS
  <1>3. c = [i \in 1 .. n |-> L[i][field]]
    BY <1>1, <1>2 DEF Column
  <1>4. Len(c) = n
    <2>1. c \in [1 .. n -> {L[i][field] : i \in 1 .. n}]
      BY <1>3
    <2> QED
      BY <2>1, FcnLen
  <1>5. PICK f : f = p[field]
    OBVIOUS
  <1>6. KeysLast(f, c)
    BY <1>2, <1>5
  <1>7. DOMAIN f = UNION {DOMAIN l[field] : l \in ToSet(L)}
    <2>1. \A k : k \in DOMAIN f <=> \E i \in 1 .. n : k \in DOMAIN L[i][field]
      BY <1>3, <1>4, <1>6 DEF KeysLast
    <2>2. \A l : l \in ToSet(L) <=> \E i \in 1 .. n : l = L[i]
      <3>1. DOMAIN L = 1 .. n
        BY <1>1, LenProperties
      <3> QED
        BY <3>1 DEF ToSet
    <2>3. \A k : (\E i \in 1 .. n : k \in DOMAIN L[i][field])
                   <=> \E l \in ToSet(L) : k \in DOMAIN l[field]
      BY <2>2
    <2> QED
      BY <2>1, <2>3
  <1>8. ASSUME NEW k \in DOMAIN f
        PROVE  f[k] = L[LastOf({i \in 1 .. n : k \in DOMAIN L[i][field]})][field][k]
    <2>1. PICK I : I = {i \in 1 .. n : k \in DOMAIN c[i]}
      OBVIOUS
    <2>2. I = {i \in 1 .. n : k \in DOMAIN L[i][field]}
      BY <1>3, <2>1
    <2>3. f[k] = c[LastOf(I)][k] /\ LastOf(I) \in 1 .. n
      BY <1>4, <1>6, <2>1, KeysLastIs
    <2>4. c[LastOf(I)] = L[LastOf(I)][field]
      BY <1>3, <2>3
    <2> QED
      BY <2>2, <2>3, <2>4
  <1> QED
    BY <1>1, <1>5, <1>7, <1>8 DEF KeysOfLast

(* LastLayerWins: of the files a policy is made of, the last to set a      *)
(* scalar, a tool or a group counts, the patterns of all are kept in       *)
(* order, and a flag one of them sets stays set (mergePolicy).             *)
THEOREM LastLayerWinsCorrect == Spec => []LastLayerWins
  <1>1. ASSUME LoadedInv, PolicyLoaded
        PROVE  \E L : /\ L = [i \in 1 .. Len(LoadOrder(job.fs)) |->
                                ApplyDefaults(job.fs.content[LoadOrder(job.fs)[i]].policy)]
                      /\ \E P : L \in Seq(P) /\ \A l \in P : IsPolicy(l)
                      /\ Wins(policy.policy, L)
    <2>1. PICK fs : fs = job.fs
      OBVIOUS
    <2>2. IsTree(fs) /\ policy = LoadFile(fs) /\ policy.err = "none"
      BY <1>1, <2>1, TreeNow DEF LoadedInv, PolicyLoaded
    <2>3. PICK order : IsWalk(order, "order", fs)
                       /\ LoadOrder(fs) = order[<<fs.root>>]
      BY <2>2, OrderOf
    <2>4. PICK F : F = LoadOrder(fs)
      OBVIOUS
    <2>5. PICK L : L = Given(fs, F)
      OBVIOUS
    <2>6. F \in Seq(DOMAIN fs.content) /\ Wins(policy.policy, L)
      BY <2>2, <2>3, <2>4, <2>5, LayersWin
    <2>7. L \in Seq(Given1(fs)) /\ \A l \in Given1(fs) : IsPolicy(l)
      BY <2>2, <2>5, <2>6, GivenFacts
    <2>8. L = [i \in 1 .. Len(F) |-> ApplyDefaults(fs.content[F[i]].policy)]
      <3>1. PICK n \in Nat : n = Len(F)
        BY <2>6, LenProperties
      <3>2. PICK h : h = [f \in DOMAIN fs.content |->
                            ApplyDefaults(fs.content[f].policy)]
        OBVIOUS
      <3>3. L = [i \in 1 .. n |-> h[F[i]]]
        BY <2>5, <3>1, <3>2 DEF Given, Mapped
      <3>4. \A i \in 1 .. n : h[F[i]] = ApplyDefaults(fs.content[F[i]].policy)
        <4>1. \A i \in 1 .. n : F[i] \in DOMAIN fs.content
          BY <2>6, <3>1, ElementOfSeq
        <4> QED
          BY <3>2, <4>1
      <3> QED
        BY <3>1, <3>3, <3>4
    <2> QED
      BY <2>1, <2>4, <2>6, <2>7, <2>8
  <1>2. ASSUME NEW p, NEW P, NEW L, L \in Seq(P), \A l \in P : IsPolicy(l),
               Wins(p, L)
        PROVE  Says(p, L)
    <2>1. ASSUME NEW field \in {"version", "decision", "format", "mode"}
          PROVE  ScalarLast(p, L, field, "")
      <3>1. LastSet(p[field], "", Column(L, field))
        BY <1>2 DEF Wins
      <3> QED
        BY <1>2, <3>1, ScalarWins
    <2>2. ScalarLast(p, L, "minLength", 0)
      <3>1. LastSet(p["minLength"], 0, Column(L, "minLength"))
        BY <1>2 DEF Wins
      <3> QED
        BY <1>2, <3>1, ScalarWins
    <2>3. KeysOfLast(p, L, "tools") /\ KeysOfLast(p, L, "groups")
      <3>1. KeysLast(p["tools"], Column(L, "tools"))
        BY <1>2 DEF Wins
      <3>2. KeysLast(p["groups"], Column(L, "groups"))
        BY <1>2 DEF Wins
      <3>3. KeysOfLast(p, L, "tools")
        BY <1>2, <3>1, KeysWinLast
      <3>4. KeysOfLast(p, L, "groups")
        BY <1>2, <3>2, KeysWinLast
      <3> QED
        BY <3>3, <3>4
    <2>4. p.patterns = FlattenSeq([i \in 1 .. Len(L) |-> L[i].patterns])
      <3>1. PICK c : c = Column(L, "patterns")
        OBVIOUS
      <3>2. \A l \in P : l["patterns"] \in Seq(Pattern)
        BY <1>2 DEF IsPolicy, Pattern
      <3>3. Columns(L \o L, L, L, "patterns", Seq(Pattern))
        BY <1>2, <3>2, ColumnFacts
      <3>4. c \in Seq(Seq(Pattern))
        BY <3>1, <3>3 DEF Columns
      <3>5. Joined(p.patterns, c)
        BY <1>2, <3>1 DEF Wins
      <3>6. p.patterns = FlattenSeq(c)
        BY <3>4, <3>5, JoinedIsFlat
      <3> QED
        BY <3>1, <3>6 DEF Column
    <2>5. \A l : l \in ToSet(L) <=> \E i \in 1 .. Len(L) : l = L[i]
      <3>1. DOMAIN L = 1 .. Len(L)
        BY <1>2, LenProperties
      <3> QED
        BY <3>1 DEF ToSet
    <2>6. p.redact = \E l \in ToSet(L) : l.redact
      <3>1. p.redact = \E i \in 1 .. Len(L) : L[i].redact
        BY <1>2 DEF Wins
      <3>2. (\E i \in 1 .. Len(L) : L[i].redact) <=> \E l \in ToSet(L) : l.redact
        BY <2>5
      <3> QED
        BY <3>1, <3>2
    <2>7. p.include = \E l \in ToSet(L) : l.include
      <3>1. p.include = \E i \in 1 .. Len(L) : L[i].include
        BY <1>2 DEF Wins
      <3>2. (\E i \in 1 .. Len(L) : L[i].include) <=> \E l \in ToSet(L) : l.include
        BY <2>5
      <3> QED
        BY <3>1, <3>2
    <2>8. p.taint = \E l \in ToSet(L) : l.taint
      <3>1. p.taint = \E i \in 1 .. Len(L) : L[i].taint
        BY <1>2 DEF Wins
      <3>2. (\E i \in 1 .. Len(L) : L[i].taint) <=> \E l \in ToSet(L) : l.taint
        BY <2>5
      <3> QED
        BY <3>1, <3>2
    <2> QED
      BY <2>1, <2>2, <2>3, <2>4, <2>6, <2>7, <2>8 DEF Says
  <1>3. ASSUME LoadedInv PROVE LastLayerWins
    <2> SUFFICES ASSUME PolicyLoaded PROVE LastLayerWins
      BY DEF LastLayerWins
    <2> DEFINE L == [i \in 1 .. Len(LoadOrder(job.fs)) |->
                       ApplyDefaults(job.fs.content[LoadOrder(job.fs)[i]].policy)]
    <2>1. PICK M, P : /\ M = L /\ M \in Seq(P) /\ \A l \in P : IsPolicy(l)
                      /\ Wins(policy.policy, M)
      BY <1>1, <1>3
    <2>2. Says(policy.policy, M)
      BY <1>2, <2>1
    <2>3. Says(policy.policy, L)
      BY <2>1, <2>2
    <2> QED
      BY <2>3 DEF Says, LastLayerWins, ScalarLast, KeysOfLast, LastOf,
         SelectLastInSeq
  <1> QED
    BY <1>3, Loads, PTL
=============================================================================
