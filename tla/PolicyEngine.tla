---------------------------- MODULE PolicyEngine ----------------------------
(***************************************************************************)
(* The stateless policy engine, internal/engine/engine.go, and the bound   *)
(* evaluation of internal/engine/binding.go: which rule a call falls       *)
(* under, whether it meets the rule's constraints, and the decision.       *)
(*                                                                         *)
(* A call is [id, tool, args]; an argument is [text, string, nil, exact]:  *)
(* its text (what %v prints when it is no string), whether it is a string, *)
(* whether it is nil, and whether it is free of floating-point numbers.    *)
(* What the checks read off a text is in the constant Text.                *)
(***************************************************************************)
EXTENDS PolicyFiles

CONSTANTS
  NameOrder,   \* tool, group and argument names, in string order
  Text,        \* for each text: [clean, unsafe, url, executable, size]
  Globs        \* the pairs <<pattern, text>> matchesGlob accepts

(* clean: the path cleaned.  unsafe: evaluatePathSafety refuses the path.  *)
(* url: "invalid", "file" and "ip" for a URL without a host, of that       *)
(* scheme, with a bare address as its host.  executable: the first token,  *)
(* "" if there is none.  Names are not empty: ParseToolCall asks for one,  *)
(* and a rule or group named "" is left out.                               *)
ASSUME EngineAssumption ==
  /\ NameOrder \in Seq(STRING \ {""})
  /\ \A i, j \in 1 .. Len(NameOrder) : i # j => NameOrder[i] # NameOrder[j]
  /\ "" \in DOMAIN Text
  /\ \A t \in DOMAIN Text :
       /\ Text[t].unsafe \in BOOLEAN
       /\ Text[t].url \in {"plain", "invalid", "file", "ip"}
       /\ Text[t].size \in Nat

MatchesGlob(pattern, text) ==
  pattern \in {".", "./"} \/ <<pattern, text>> \in Globs

MatchesAny(patterns, text) == \E p \in patterns : MatchesGlob(p, text)

(* Defect: the last one, as a map of Go might give it.                     *)
LastName(S) ==
  LET i == SelectLastInSeq(NameOrder, LAMBDA n : n \in S)
  IN  IF i = 0 THEN "" ELSE NameOrder[i]

(* The first of the names S in string order, "" when there is none.        *)
FirstName(S) ==
  LET i == SelectInSeq(NameOrder, LAMBDA n : n \in S)
  IN  IF i = 0 THEN "" ELSE NameOrder[i]

-------------------------------------------------------------------------------
(* lookupRule: the key of the rule for a tool, "" when there is none.  A   *)
(* group whose member matches but which has no rule is passed over.        *)

LookupRule(p, tool) ==
  LET byGroup == FirstName({g \in DOMAIN p.groups \intersect DOMAIN p.tools :
                              \E i \in 1 .. Len(p.groups[g]) :
                                MatchesGlob(p.groups[g][i], tool)})
      byGlob == FirstName({k \in DOMAIN p.tools \ DOMAIN p.groups :
                             MatchesGlob(k, tool)})
  IN  IF tool \in DOMAIN p.tools THEN tool
      ELSE IF byGroup # "" THEN byGroup
      ELSE byGlob

-------------------------------------------------------------------------------
(* Constraints.  Each is a list of checks <<refused, code>> made in order; *)
(* the first that refuses gives the reason code.                           *)

RefusalCodes ==
  {"path_missing", "path_unsafe", "path_denied", "path_not_allowed",
   "arg_missing", "arg_denied", "arg_not_allowed",
   "url_missing", "url_invalid", "url_file_scheme", "url_bare_ip",
   "url_denied", "url_not_allowed",
   "command_missing", "command_empty", "command_denied",
   "command_executable_not_allowed",
   "memory_scope_invalid", "memory_scope_exceeded", "memory_payload_missing",
   "memory_size_exceeded", "memory_sensitivity_invalid",
   "memory_sensitivity_exceeded"}

FirstRefusal(checks) ==
  LET i == SelectInSeq(checks, LAMBDA c : c[1])
  IN  IF i = 0 THEN "" ELSE checks[i][2]

(* The argument if it is there and a string, "" otherwise.                 *)
StringArg(call, name) ==
  IF name \in DOMAIN call.args /\ call.args[name].string
  THEN call.args[name].text ELSE ""

(* A path is checked for safety even when the rule does not constrain it.  *)
PathChecks(rule, call) ==
  LET lists == rule.paths
      path == StringArg(call, "path")
      cleaned == Text[path].clean
  IN  << <<path = "" /\ lists.allow \union lists.deny # {}, "path_missing">>,
         <<path # "" /\ Text[path].unsafe, "path_unsafe">>,
         <<path # "" /\ MatchesAny(lists.deny, cleaned), "path_denied">>,
         <<path # "" /\ lists.allow # {} /\ ~MatchesAny(lists.allow, cleaned),
           "path_not_allowed">> >>

(* The arguments are looked at in string order.                            *)
ArgChecks(rule, call) ==
  LET Missing(f) == f \notin DOMAIN call.args \/ call.args[f].nil
      Refusal(f) ==
        IF f \notin DOMAIN rule.args THEN ""
        ELSE IF Missing(f) THEN "arg_missing"
        ELSE IF MatchesAny(rule.args[f].deny, call.args[f].text)
        THEN "arg_denied"
        ELSE IF /\ rule.args[f].allow # {}
                /\ ~MatchesAny(rule.args[f].allow, call.args[f].text)
        THEN "arg_not_allowed"
        ELSE ""
  IN  [i \in 1 .. Len(NameOrder) |->
         <<Refusal(NameOrder[i]) # "", Refusal(NameOrder[i])>>]

URLChecks(rule, call) ==
  LET lists == rule.urls
      set == lists.allow \union lists.deny # {}
      url == StringArg(call, "url")
  IN  << <<set /\ url = "", "url_missing">>,
         <<set /\ Text[url].url = "invalid", "url_invalid">>,
         <<set /\ Text[url].url = "file", "url_file_scheme">>,
         <<set /\ Text[url].url = "ip", "url_bare_ip">>,
         <<MatchesAny(lists.deny, url), "url_denied">>,
         <<lists.allow # {} /\ ~MatchesAny(lists.allow, url),
           "url_not_allowed">> >>

(* Defect: a command that is missing is not checked.                       *)
CommandChecksPresent(rule, call) ==
  LET allowed == rule.command.executables
      command == StringArg(call, "command")
  IN  << <<MatchesAny(rule.command.deny, command), "command_denied">>,
         <</\ allowed # {} /\ command # ""
           /\ Text[command].executable \notin allowed,
           "command_executable_not_allowed">> >>

CommandChecks(rule, call) ==
  LET allowed == rule.command.executables
      denied == rule.command.deny
      command == StringArg(call, "command")
      executable == Text[command].executable
  IN  << <<command = "" /\ allowed \union denied # {}, "command_missing">>,
         <<MatchesAny(denied, command), "command_denied">>,
         <<allowed # {} /\ executable = "", "command_empty">>,
         <<allowed # {} /\ executable \notin allowed,
           "command_executable_not_allowed">> >>

-------------------------------------------------------------------------------
(* memory_write.                                                           *)

MemoryIsSet(m) ==
  m.scope # "" \/ m.sensitivity # "" \/ m.bytes > 0 \/ m.fields # <<>>

MemoryScope(call) ==
  LET scope == StringArg(call, "scope")
  IN  IF scope = "" THEN "session" ELSE scope

(* The first payload field that holds a string that is not empty.          *)
MemoryPayload(m, call) ==
  LET fields == IF m.fields = <<>> THEN <<"value", "content">> ELSE m.fields
      i == SelectInSeq(fields, LAMBDA f : StringArg(call, f) # "")
  IN  IF i = 0 THEN "" ELSE StringArg(call, fields[i])

(* A sensitivity that is stated but is none of the three, or no string.    *)
UnknownSensitivity(call) ==
  /\ "sensitivity" \in DOMAIN call.args
  /\ Rank(MemorySensitivities, StringArg(call, "sensitivity")) < 0

(* A pattern of the policy matches the payload, whether or not the policy  *)
(* enables the redaction of the log.                                       *)
MatchesPattern(p, text) ==
  \E i \in 1 .. Len(p.patterns) : text \in p.patterns[i].matches

(* The higher of what the call states and what the patterns detect.        *)
MemorySensitivity(p, payload, call) ==
  LET stated == StringArg(call, "sensitivity")
      detected == IF MatchesPattern(p, payload) THEN "high" ELSE "low"
  IN  IF Rank(MemorySensitivities, stated) > Rank(MemorySensitivities, detected)
      THEN stated ELSE detected

MemoryChecks(p, rule, call) ==
  LET m == rule.memory
      set == MemoryIsSet(m)
      scope == Rank(MemoryScopes, MemoryScope(call))
      payload == MemoryPayload(m, call)
      sensitivity == Rank(MemorySensitivities,
                          MemorySensitivity(p, payload, call))
  IN  << <<m.scope # "" /\ scope < 0, "memory_scope_invalid">>,
         <<m.scope # "" /\ scope > Rank(MemoryScopes, m.scope),
           "memory_scope_exceeded">>,
         <<set /\ payload = "", "memory_payload_missing">>,
         <<m.bytes > 0 /\ Text[payload].size > m.bytes,
           "memory_size_exceeded">>,
         <<m.sensitivity # "" /\ UnknownSensitivity(call),
           "memory_sensitivity_invalid">>,
         <</\ m.sensitivity # ""
           /\ sensitivity > Rank(MemorySensitivities, m.sensitivity),
           "memory_sensitivity_exceeded">> >>

-------------------------------------------------------------------------------
(* Engine.evaluateDecisionCore, and the key of the rule it went by.        *)

Evaluate(p, call) ==
  LET key == LookupRule(p, call.tool)
      rule == p.tools[key]
      refusal == FirstRefusal(PathChecks(rule, call) \o ArgChecks(rule, call)
                                \o URLChecks(rule, call)
                                \o CommandChecks(rule, call)
                                \o MemoryChecks(p, rule, call))
  IN  IF key = ""
      THEN [decision |-> p.decision, code |-> "default_decision", key |-> ""]
      ELSE IF refusal # ""
      THEN [decision |-> "deny", code |-> refusal, key |-> key]
      ELSE [decision |-> rule.decision, code |-> "rule_match", key |-> key]

-------------------------------------------------------------------------------
(* Engine.EvaluateBound: the decision on an exact copy of the call by a    *)
(* copy of the policy, with the digests of both.  A digest is the value it *)
(* is taken over: the call without its id, the policy with its defaults.   *)
(* It is kept in a sequence, empty when there is none.                     *)

Exact(call) == \A a \in DOMAIN call.args : call.args[a].exact

ToolActionDigest(call) == <<[tool |-> call.tool, args |-> call.args]>>

(* SnapshotResolvedPolicy, and the engine made from the copy.              *)
SnapshotPolicy(p) ==
  LET copy == ParsePolicy(p)
  IN  IF Compiles(copy.policy) THEN copy ELSE Failed("pattern")

EffectivePolicyDigest(p) == <<ParsePolicy(p).policy>>

BindingFailure(code, action) ==
  [decision |-> "deny", code |-> code, key |-> "", action |-> action,
   policy |-> <<>>]

EvaluateBound(p, call) ==
  LET copy == SnapshotPolicy(p)
      action == ToolActionDigest(call)
      result == Evaluate(copy.policy, call)
  IN  IF ~Exact(call) THEN BindingFailure("action_binding_failed", <<>>)
      ELSE IF copy.err # "none"
      THEN BindingFailure("policy_binding_failed", action)
      ELSE [decision |-> result.decision, code |-> result.code,
            key |-> result.key, action |-> action,
            policy |-> EffectivePolicyDigest(copy.policy)]
===============================================================================
