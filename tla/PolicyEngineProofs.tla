------------------------- MODULE PolicyEngineProofs -------------------------
(***************************************************************************)
(* Lemmas about policies and the engine, for every policy and every call:  *)
(* the digests that evaluations are bound to are taken over all that a     *)
(* decision depends on, and over a policy whose defaults are set for good. *)
(***************************************************************************)
EXTENDS PolicyEngine, PolicyFilesProofs

-------------------------------------------------------------------------------
(* Snapshots.                                                              *)

(* A policy that was snapshotted is its own digest: taking the snapshot of *)
(* it again changes nothing.                                               *)
LEMMA SnapshotIsDigest ==
  ASSUME NEW p, IsPolicy(p), SnapshotPolicy(p).err = "none"
  PROVE  EffectivePolicyDigest(SnapshotPolicy(p).policy)
           = <<SnapshotPolicy(p).policy>>
  <1>1. SnapshotPolicy(p) = ParsePolicy(p) /\ ParsePolicy(p).err = "none"
    BY DEF SnapshotPolicy, Failed
  <1>2. ParsePolicy(ParsePolicy(p).policy) = ParsePolicy(p)
    BY <1>1, DefaultsIdempotent DEF ParsePolicy, Loaded, Failed
  <1> QED
    BY <1>1, <1>2 DEF EffectivePolicyDigest

-------------------------------------------------------------------------------
(* What a decision depends on.                                             *)

(* The call that the digest of c describes.                                *)
Anonymous(c) == [id |-> "", tool |-> c.tool, args |-> c.args]

(* The path checks do not look at the id of a call.                        *)
LEMMA PathChecksAnonymous ==
  ASSUME NEW rule, NEW c
  PROVE  PathChecks(rule, c) = PathChecks(rule, Anonymous(c))
  BY DEF PathChecks, StringArg, Anonymous

(* The argument checks do not look at the id of a call.                    *)
LEMMA ArgChecksAnonymous ==
  ASSUME NEW rule, NEW c
  PROVE  ArgChecks(rule, c) = ArgChecks(rule, Anonymous(c))
  BY DEF ArgChecks, Anonymous

(* The URL checks do not look at the id of a call.                         *)
LEMMA URLChecksAnonymous ==
  ASSUME NEW rule, NEW c
  PROVE  URLChecks(rule, c) = URLChecks(rule, Anonymous(c))
  BY DEF URLChecks, StringArg, Anonymous

(* The command checks do not look at the id of a call.                     *)
LEMMA CommandChecksAnonymous ==
  ASSUME NEW rule, NEW c
  PROVE  CommandChecks(rule, c) = CommandChecks(rule, Anonymous(c))
  BY DEF CommandChecks, StringArg, Anonymous

(* The payload of a memory write does not depend on the id.                *)
LEMMA MemoryPayloadAnonymous ==
  ASSUME NEW m, NEW c
  PROVE  MemoryPayload(m, c) = MemoryPayload(m, Anonymous(c))
  <1>1. PICK d : d = Anonymous(c)
    OBVIOUS
  <1>2. \A n : StringArg(c, n) = StringArg(d, n)
    BY <1>1 DEF StringArg, Anonymous
  <1> DEFINE Fields == IF m.fields = <<>> THEN <<"value", "content">> ELSE m.fields
             Strings(x) == {i \in 1 .. Len(Fields) : StringArg(x, Fields[i]) # ""}
             First(x) == IF Strings(x) # {} THEN Min(Strings(x)) ELSE 0
  <1>3. \A x : MemoryPayload(m, x) =
                 IF First(x) = 0 THEN "" ELSE StringArg(x, Fields[First(x)])
    BY DEF MemoryPayload, SelectInSeq
  <1>4. Strings(c) = Strings(d)
    BY <1>2
  <1>5. First(c) = First(d)
    BY <1>4
  <1> HIDE DEF First
  <1> QED
    BY <1>1, <1>2, <1>3, <1>5

(* The memory checks do not look at the id of a call.                      *)
LEMMA MemoryChecksAnonymous ==
  ASSUME NEW p, NEW rule, NEW c
  PROVE  MemoryChecks(p, rule, c) = MemoryChecks(p, rule, Anonymous(c))
  <1>1. PICK d : d = Anonymous(c)
    OBVIOUS
  <1>2. MemoryScope(c) = MemoryScope(d)
    BY <1>1 DEF MemoryScope, StringArg, Anonymous
  <1>3. MemoryPayload(rule.memory, c) = MemoryPayload(rule.memory, d)
    BY <1>1, MemoryPayloadAnonymous
  <1>4. \A t : MemorySensitivity(p, t, c) = MemorySensitivity(p, t, d)
    BY <1>1 DEF MemorySensitivity, StringArg, Anonymous
  <1>5. UnknownSensitivity(c) <=> UnknownSensitivity(d)
    BY <1>1 DEF UnknownSensitivity, StringArg, Anonymous
  <1> QED
    BY <1>1, <1>2, <1>3, <1>4, <1>5 DEF MemoryChecks

(* The id is the only part of a call that its digest leaves out, and the   *)
(* engine does not look at it.                                             *)
LEMMA SameActionSameDecision ==
  ASSUME NEW p, NEW c, NEW d, ToolActionDigest(c) = ToolActionDigest(d)
  PROVE  Evaluate(p, c) = Evaluate(p, d)
  <1>1. \A x : Evaluate(p, x) = Evaluate(p, Anonymous(x))
    <2> SUFFICES ASSUME NEW x PROVE Evaluate(p, x) = Evaluate(p, Anonymous(x))
      OBVIOUS
    <2>1. Anonymous(x).tool = x.tool
      BY DEF Anonymous
    <2> QED
      BY <2>1, PathChecksAnonymous, ArgChecksAnonymous, URLChecksAnonymous,
         CommandChecksAnonymous, MemoryChecksAnonymous DEF Evaluate
  <1>2. Anonymous(c) = Anonymous(d)
    BY DEF ToolActionDigest, Anonymous
  <1> QED
    BY <1>1, <1>2

(* What carries a policy digest was decided by the policy of the digest.   *)
LEMMA BoundToDigests ==
  ASSUME NEW p, IsPolicy(p), NEW c, EvaluateBound(p, c).policy # <<>>
  PROVE  \E copy : LET result == Evaluate(copy, c)
                   IN  EvaluateBound(p, c)
                         = [decision |-> result.decision, code |-> result.code,
                            key |-> result.key,
                            action |-> ToolActionDigest(c), policy |-> <<copy>>]
  <1>1. Exact(c) /\ SnapshotPolicy(p).err = "none"
    BY DEF EvaluateBound, BindingFailure
  <1>2. EffectivePolicyDigest(SnapshotPolicy(p).policy)
          = <<SnapshotPolicy(p).policy>>
    BY <1>1, SnapshotIsDigest
  <1> QED
    BY <1>1, <1>2 DEF EvaluateBound

(* binding.go:10-17, "the evidence needed to reproduce that decision": two *)
(* bound evaluations with one policy digest and one action digest agree in *)
(* decision, reason code and rule, though the two policies they were given *)
(* set their defaults or not and the two calls have ids of their own.      *)
THEOREM SameDigestSameDecision ==
  ASSUME NEW p, NEW q, IsPolicy(p), IsPolicy(q), NEW c, NEW d,
         EvaluateBound(p, c).policy = EvaluateBound(q, d).policy,
         EvaluateBound(p, c).action = EvaluateBound(q, d).action,
         EvaluateBound(p, c).policy # <<>>
  PROVE  EvaluateBound(p, c) = EvaluateBound(q, d)
  <1>1. PICK s : LET result == Evaluate(s, c)
                 IN  EvaluateBound(p, c)
                       = [decision |-> result.decision, code |-> result.code,
                          key |-> result.key,
                          action |-> ToolActionDigest(c), policy |-> <<s>>]
    BY BoundToDigests
  <1>2. PICK t : LET result == Evaluate(t, d)
                 IN  EvaluateBound(q, d)
                       = [decision |-> result.decision, code |-> result.code,
                          key |-> result.key,
                          action |-> ToolActionDigest(d), policy |-> <<t>>]
    BY BoundToDigests
  <1>3. s = t /\ ToolActionDigest(c) = ToolActionDigest(d)
    BY <1>1, <1>2
  <1>4. Evaluate(s, c) = Evaluate(t, d)
    BY <1>3, SameActionSameDecision
  <1> QED
    BY <1>1, <1>2, <1>3, <1>4

-------------------------------------------------------------------------------
(* Which rule a call falls under.                                          *)

(* A name's rank is its index in the order, less one.                      *)
LEMMA NameIndex ==
  /\ Len(NameOrder) \in Nat /\ DOMAIN NameOrder = 1 .. Len(NameOrder)
  /\ "" \notin ToSet(NameOrder)
  /\ \A i \in 1 .. Len(NameOrder) : Rank(NameOrder, NameOrder[i]) = i - 1
  <1>1. /\ Len(NameOrder) \in Nat /\ DOMAIN NameOrder = 1 .. Len(NameOrder)
        /\ \A i \in 1 .. Len(NameOrder) : NameOrder[i] \in STRING \ {""}
    <2>1. NameOrder \in Seq(STRING \ {""})
      BY EngineAssumption
    <2> QED
      BY <2>1, ElementOfSeq, LenProperties
  <1>2. ASSUME NEW i \in 1 .. Len(NameOrder)
        PROVE  Rank(NameOrder, NameOrder[i]) = i - 1
    <2> DEFINE I == {j \in 1 .. Len(NameOrder) : NameOrder[j] = NameOrder[i]}
    <2>1. I = {i}
      BY EngineAssumption
    <2>2. Min(I) = i
      <3>1. I \in SUBSET (1 .. Len(NameOrder)) /\ I # {} /\ (Min(I) \in I => Min(I) = i)
        BY <2>1
      <3> HIDE DEF I
      <3> QED
        BY <1>1, <3>1, MinIndex
    <2>3. Rank(NameOrder, NameOrder[i]) = (IF I # {} THEN Min(I) ELSE 0) - 1
      BY DEF Rank, SelectInSeq
    <2> QED
      BY <2>1, <2>2, <2>3
  <1> QED
    BY <1>1, <1>2 DEF ToSet

(* FirstName picks the least of a set of names, and nothing of none.       *)
LEMMA FirstNameFacts ==
  ASSUME NEW S, S \subseteq ToSet(NameOrder)
  PROVE  /\ S = {} => FirstName(S) = ""
         /\ S # {} => /\ FirstName(S) \in S /\ FirstName(S) # ""
                      /\ \A x \in S : ~(Rank(NameOrder, x) < Rank(NameOrder, FirstName(S)))
  <1> DEFINE I == {j \in 1 .. Len(NameOrder) : NameOrder[j] \in S}
  <1>1. FirstName(S) = IF (IF I # {} THEN Min(I) ELSE 0) = 0 THEN ""
                       ELSE NameOrder[IF I # {} THEN Min(I) ELSE 0]
    BY DEF FirstName, SelectInSeq
  <1>2. I = {} <=> S = {}
    BY NameIndex DEF ToSet
  <1>3. CASE S = {}
    BY <1>1, <1>2, <1>3
  <1>4. CASE S # {}
    <2>1. I \in SUBSET (1 .. Len(NameOrder)) /\ I # {}
      BY <1>2, <1>4
    <2>2. Min(I) \in I /\ \A j \in I : Min(I) <= j
      <3> HIDE DEF I
      <3> QED
        BY <2>1, NameIndex, MinIndex
    <2>3. PICK m \in 1 .. Len(NameOrder) : m = Min(I)
      BY <2>1, <2>2
    <2>4. FirstName(S) = NameOrder[m] /\ NameOrder[m] \in S
      <3>1. m # 0
        BY <2>3
      <3> QED
        BY <1>1, <2>1, <2>2, <2>3, <3>1
    <2>5. ASSUME NEW x \in S
          PROVE  ~(Rank(NameOrder, x) < Rank(NameOrder, FirstName(S)))
      <3>1. PICK j \in 1 .. Len(NameOrder) : NameOrder[j] = x
        BY NameIndex DEF ToSet
      <3>2. m <= j
        BY <2>2, <2>3, <3>1
      <3>3. Rank(NameOrder, x) = j - 1 /\ Rank(NameOrder, FirstName(S)) = m - 1
        BY <2>4, <3>1, NameIndex
      <3>4. j \in Int /\ m \in Int
        OBVIOUS
      <3> QED
        BY <3>2, <3>3, <3>4
    <2>6. FirstName(S) # ""
      BY <2>4, NameIndex
    <2> QED
      BY <1>4, <2>4, <2>5, <2>6
  <1> QED
    BY <1>3, <1>4

(* The groups with a rule that have a member matching tool, and the        *)
(* patterns, which are no groups, that match it.                           *)
GroupsFor(p, tool) ==
  {g \in DOMAIN p.groups \intersect DOMAIN p.tools :
     \E m \in ToSet(p.groups[g]) : MatchesGlob(m, tool)}

PatternsFor(p, tool) ==
  {k \in DOMAIN p.tools \ DOMAIN p.groups : MatchesGlob(k, tool)}

(* The rule of the exact name, or else the first group, or else the first  *)
(* pattern.                                                                *)
FallsUnder(p, tool, key) ==
  \/ key = tool /\ tool \in DOMAIN p.tools
  \/ /\ tool \notin DOMAIN p.tools
     /\ \/ /\ key \in GroupsFor(p, tool)
           /\ \A g \in GroupsFor(p, tool) :
                ~(Rank(NameOrder, g) < Rank(NameOrder, key))
        \/ /\ GroupsFor(p, tool) = {} /\ key \in PatternsFor(p, tool)
           /\ \A k \in PatternsFor(p, tool) :
                ~(Rank(NameOrder, k) < Rank(NameOrder, key))
        \/ GroupsFor(p, tool) = {} /\ PatternsFor(p, tool) = {} /\ key = ""

(* lookupRule finds a rule of the policy or none: that of the tool's name, *)
(* else of the first group, else of the first pattern in string order.     *)
LEMMA LookupIsFirst ==
  ASSUME NEW p, IsPolicy(p), Names(p) \subseteq ToSet(NameOrder), NEW tool,
         NEW key, key = LookupRule(p, tool)
  PROVE  key \in {""} \union DOMAIN p.tools /\ FallsUnder(p, tool, key)
  <1>1. GroupsFor(p, tool)
          = {g \in DOMAIN p.groups \intersect DOMAIN p.tools :
               \E i \in 1 .. Len(p.groups[g]) : MatchesGlob(p.groups[g][i], tool)}
    <2>1. ASSUME NEW g \in DOMAIN p.groups
          PROVE  DOMAIN p.groups[g] = 1 .. Len(p.groups[g])
      <3>1. p.groups[g] \in Seq(STRING)
        BY DEF IsPolicy
      <3> QED
        BY <3>1, LenProperties
    <2> QED
      BY <2>1 DEF GroupsFor, ToSet
  <1>2. /\ GroupsFor(p, tool) \subseteq ToSet(NameOrder)
        /\ PatternsFor(p, tool) \subseteq ToSet(NameOrder)
    BY DEF GroupsFor, PatternsFor, Names
  <1>3. key = IF tool \in DOMAIN p.tools THEN tool
              ELSE IF FirstName(GroupsFor(p, tool)) # ""
              THEN FirstName(GroupsFor(p, tool))
              ELSE FirstName(PatternsFor(p, tool))
    BY <1>1 DEF LookupRule, PatternsFor
  <1>4. /\ GroupsFor(p, tool) \subseteq DOMAIN p.tools
        /\ PatternsFor(p, tool) \subseteq DOMAIN p.tools
    BY DEF GroupsFor, PatternsFor
  <1> QED
    BY <1>2, <1>3, <1>4, FirstNameFacts DEF FallsUnder

-------------------------------------------------------------------------------
(* Checks and refusals.                                                    *)

(* A check gives its code when it refuses.                                 *)
Refusing == {c \in BOOLEAN \X (RefusalCodes \union {""}) : c[1] => c[2] # ""}

Unrefused(checks) == \A i \in 1 .. Len(checks) : ~checks[i][1]

(* A list of checks gives the code of one, or no check refuses.            *)
LEMMA Refusals ==
  ASSUME NEW checks \in Seq(Refusing)
  PROVE  /\ FirstRefusal(checks) \in RefusalCodes \union {""}
         /\ FirstRefusal(checks) = "" => Unrefused(checks)
  <1> DEFINE I == {i \in 1 .. Len(checks) : checks[i][1]}
  <1>1. FirstRefusal(checks) = IF (IF I # {} THEN Min(I) ELSE 0) = 0 THEN ""
                               ELSE checks[IF I # {} THEN Min(I) ELSE 0][2]
    BY DEF FirstRefusal, SelectInSeq
  <1>2. CASE I = {}
    BY <1>1, <1>2 DEF Unrefused
  <1>3. CASE I # {}
    <2>1. I \in SUBSET (1 .. Len(checks)) /\ Len(checks) \in Nat
      BY LenProperties
    <2>2. Min(I) \in I
      <3> HIDE DEF I
      <3> QED
        BY <1>3, <2>1, MinIndex
    <2>3. PICK m \in 1 .. Len(checks) : m = Min(I) /\ checks[m][1]
      BY <2>2
    <2>4. FirstRefusal(checks) = checks[m][2]
      <3>1. m # 0
        BY <2>3
      <3> QED
        BY <1>1, <1>3, <2>3, <3>1
    <2>5. checks[m] \in Refusing
      BY <2>1, <2>3, ElementOfSeq
    <2> QED
      BY <2>3, <2>4, <2>5 DEF Refusing
  <1> QED
    BY <1>2, <1>3

(* No check of two lists refuses if none of their concatenation does.      *)
LEMMA ConcatRefusals ==
  ASSUME NEW s \in Seq(Refusing), NEW t \in Seq(Refusing)
  PROVE  /\ s \o t \in Seq(Refusing)
         /\ Unrefused(s \o t) => Unrefused(s) /\ Unrefused(t)
  <1>1. /\ s \o t \in Seq(Refusing) /\ Len(s \o t) = Len(s) + Len(t)
        /\ Len(s) \in Nat /\ Len(t) \in Nat
        /\ \A i \in 1 .. Len(s) : (s \o t)[i] = s[i]
        /\ \A i \in 1 .. Len(t) : (s \o t)[Len(s) + i] = t[i]
    BY ConcatProperties, LenProperties
  <1>2. SUFFICES ASSUME Unrefused(s \o t)
                 PROVE  Unrefused(s) /\ Unrefused(t)
    BY <1>1
  <1>3. ASSUME NEW i \in 1 .. Len(s) PROVE ~s[i][1]
    <2>1. i \in 1 .. Len(s \o t)
      BY <1>1
    <2> QED
      BY <1>1, <1>2, <2>1 DEF Unrefused
  <1>4. ASSUME NEW i \in 1 .. Len(t) PROVE ~t[i][1]
    <2>1. Len(s) + i \in 1 .. Len(s \o t)
      BY <1>1
    <2>2. (s \o t)[Len(s) + i] = t[i]
      BY <1>1
    <2> QED
      BY <1>2, <2>1, <2>2 DEF Unrefused
  <1> QED
    BY <1>3, <1>4 DEF Unrefused

(* A path that evaluatePathConstraints lets through is there if it is      *)
(* constrained, is safe, and is on the right lists.                        *)
LEMMA PathRefusals ==
  ASSUME NEW rule, NEW call
  PROVE  /\ PathChecks(rule, call) \in Seq(Refusing)
         /\ Unrefused(PathChecks(rule, call)) =>
              LET path == StringArg(call, "path")
              IN  /\ path # "" => ~Text[path].unsafe
                  /\ rule.paths.allow \union rule.paths.deny # {} => path # ""
                  /\ path # "" =>
                       /\ ~MatchesAny(rule.paths.deny, Text[path].clean)
                       /\ rule.paths.allow # {} =>
                            MatchesAny(rule.paths.allow, Text[path].clean)
  <1> DEFINE path == StringArg(call, "path")
             A == path = "" /\ rule.paths.allow \union rule.paths.deny # {}
             B == path # "" /\ Text[path].unsafe
             C == path # "" /\ MatchesAny(rule.paths.deny, Text[path].clean)
             D == /\ path # "" /\ rule.paths.allow # {}
                  /\ ~MatchesAny(rule.paths.allow, Text[path].clean)
  <1>1. PathChecks(rule, call)
          = << <<A, "path_missing">>, <<B, "path_unsafe">>, <<C, "path_denied">>,
               <<D, "path_not_allowed">> >>
    BY DEF PathChecks
  <1>2. A \in BOOLEAN /\ B \in BOOLEAN /\ C \in BOOLEAN /\ D \in BOOLEAN
    OBVIOUS
  <1>3. Unrefused(PathChecks(rule, call)) => ~A /\ ~B /\ ~C /\ ~D
    <2> HIDE DEF A, B, C, D
    <2> QED
      BY <1>1, <1>2 DEF Unrefused
  <1>4. PathChecks(rule, call) \in Seq(Refusing)
    <2> HIDE DEF A, B, C, D
    <2>1. /\ <<A, "path_missing">> \in Refusing
          /\ <<B, "path_unsafe">> \in Refusing
          /\ <<C, "path_denied">> \in Refusing
          /\ <<D, "path_not_allowed">> \in Refusing
      BY <1>2 DEF Refusing, RefusalCodes
    <2> QED
      BY <1>1, <2>1
  <1> QED
    BY <1>3, <1>4

(* Arguments that evaluateArgConstraints lets through are there and on the *)
(* right lists.                                                            *)
LEMMA ArgRefusals ==
  ASSUME NEW rule, NEW call, DOMAIN rule.args \subseteq ToSet(NameOrder)
  PROVE  /\ ArgChecks(rule, call) \in Seq(Refusing)
         /\ Unrefused(ArgChecks(rule, call)) =>
              \A f \in DOMAIN rule.args :
                /\ f \in DOMAIN call.args /\ ~call.args[f].nil
                /\ ~MatchesAny(rule.args[f].deny, call.args[f].text)
                /\ rule.args[f].allow # {} =>
                     MatchesAny(rule.args[f].allow, call.args[f].text)
  <1> DEFINE Refusal(f) ==
               IF f \notin DOMAIN rule.args THEN ""
               ELSE IF f \notin DOMAIN call.args \/ call.args[f].nil
               THEN "arg_missing"
               ELSE IF MatchesAny(rule.args[f].deny, call.args[f].text)
               THEN "arg_denied"
               ELSE IF /\ rule.args[f].allow # {}
                       /\ ~MatchesAny(rule.args[f].allow, call.args[f].text)
               THEN "arg_not_allowed"
               ELSE ""
  <1>1. ArgChecks(rule, call)
          = [i \in 1 .. Len(NameOrder) |->
               <<Refusal(NameOrder[i]) # "", Refusal(NameOrder[i])>>]
    BY DEF ArgChecks
  <1>2. \A f : Refusal(f) \in RefusalCodes \union {""}
    BY DEF RefusalCodes
  <1>3. \A f \in DOMAIN rule.args : Refusal(f) = "" =>
                /\ f \in DOMAIN call.args /\ ~call.args[f].nil
                /\ ~MatchesAny(rule.args[f].deny, call.args[f].text)
                /\ rule.args[f].allow # {} =>
                     MatchesAny(rule.args[f].allow, call.args[f].text)
    OBVIOUS
  <1> HIDE DEF Refusal
  <1>4. ArgChecks(rule, call) \in Seq(Refusing)
    <2>1. \A f : <<Refusal(f) # "", Refusal(f)>> \in Refusing
      BY <1>2 DEF Refusing
    <2>2. ArgChecks(rule, call) \in [1 .. Len(NameOrder) -> Refusing]
      BY <1>1, <2>1
    <2>3. PICK n \in Nat : n = Len(NameOrder)
      BY NameIndex
    <2>4. [1 .. n -> Refusing] \subseteq Seq(Refusing)
      OBVIOUS
    <2> QED
      BY <2>2, <2>3, <2>4
  <1>5. ASSUME Unrefused(ArgChecks(rule, call)), NEW f \in DOMAIN rule.args
        PROVE  Refusal(f) = ""
    <2>1. PICK i \in 1 .. Len(NameOrder) : NameOrder[i] = f
      BY NameIndex DEF ToSet
    <2>2. PICK n \in Nat : n = Len(NameOrder)
      BY NameIndex
    <2>3. PICK checks : checks = ArgChecks(rule, call)
      OBVIOUS
    <2>4. DOMAIN checks = 1 .. n /\ checks[i] = <<Refusal(f) # "", Refusal(f)>>
      BY <1>1, <2>1, <2>2, <2>3
    <2>5. Len(checks) = n
      <3>1. checks \in Seq(Refusing)
        BY <1>4, <2>3
      <3>2. PICK m \in Nat : m = Len(checks)
        BY <3>1, LenProperties
      <3>3. 1 .. m = 1 .. n
        BY <2>4, <3>1, <3>2, LenProperties
      <3>4. m = n
        BY <3>3
      <3> QED
        BY <3>2, <3>4
    <2>6. ~checks[i][1]
      BY <1>5, <2>2, <2>3, <2>5 DEF Unrefused
    <2> SUFFICES ASSUME Refusal(f) # "" PROVE FALSE
      OBVIOUS
    <2>7. PICK t \in BOOLEAN : t /\ checks[i] = <<t, Refusal(f)>>
      BY <2>4
    <2>8. PICK x : x = checks[i]
      OBVIOUS
    <2>9. x = <<t, Refusal(f)>>
      BY <2>7, <2>8
    <2>10. x[1] = t
      BY <2>9
    <2> QED
      BY <2>6, <2>7, <2>8, <2>10
  <1> QED
    BY <1>3, <1>4, <1>5

(* A URL that evaluateURLConstraints lets through is there, is well        *)
(* formed, names a host and is on the right lists.                         *)
LEMMA URLRefusals ==
  ASSUME NEW rule, NEW call, StringArg(call, "url") \in DOMAIN Text
  PROVE  /\ URLChecks(rule, call) \in Seq(Refusing)
         /\ Unrefused(URLChecks(rule, call)) =>
              LET url == StringArg(call, "url")
              IN  rule.urls.allow \union rule.urls.deny # {} =>
                    /\ url # "" /\ Text[url].url = "plain"
                    /\ ~MatchesAny(rule.urls.deny, url)
                    /\ rule.urls.allow # {} => MatchesAny(rule.urls.allow, url)
  <1> DEFINE url == StringArg(call, "url")
             set == rule.urls.allow \union rule.urls.deny # {}
             A == set /\ url = ""
             B == set /\ Text[url].url = "invalid"
             C == set /\ Text[url].url = "file"
             D == set /\ Text[url].url = "ip"
             E == MatchesAny(rule.urls.deny, url)
             F == rule.urls.allow # {} /\ ~MatchesAny(rule.urls.allow, url)
  <1>1. URLChecks(rule, call)
          = << <<A, "url_missing">>, <<B, "url_invalid">>,
               <<C, "url_file_scheme">>, <<D, "url_bare_ip">>,
               <<E, "url_denied">>, <<F, "url_not_allowed">> >>
    BY DEF URLChecks
  <1>2. /\ A \in BOOLEAN /\ B \in BOOLEAN /\ C \in BOOLEAN /\ D \in BOOLEAN
        /\ E \in BOOLEAN /\ F \in BOOLEAN
    BY DEF MatchesAny
  <1>3. Unrefused(URLChecks(rule, call)) => ~A /\ ~B /\ ~C /\ ~D /\ ~E /\ ~F
    <2> HIDE DEF A, B, C, D, E, F
    <2> QED
      BY <1>1, <1>2 DEF Unrefused
  <1>4. URLChecks(rule, call) \in Seq(Refusing)
    <2> HIDE DEF A, B, C, D, E, F
    <2>1. /\ <<A, "url_missing">> \in Refusing
          /\ <<B, "url_invalid">> \in Refusing
          /\ <<C, "url_file_scheme">> \in Refusing
          /\ <<D, "url_bare_ip">> \in Refusing
          /\ <<E, "url_denied">> \in Refusing
          /\ <<F, "url_not_allowed">> \in Refusing
      BY <1>2 DEF Refusing, RefusalCodes
    <2> QED
      BY <1>1, <2>1
  <1>5. Text[url].url \in {"plain", "invalid", "file", "ip"}
    BY EngineAssumption
  <1> QED
    BY <1>3, <1>4, <1>5

(* A command that evaluateCommandConstraints lets through is there, is not *)
(* denied, and its executable is allowed.                                  *)
LEMMA CommandRefusals ==
  ASSUME NEW rule, NEW call
  PROVE  /\ CommandChecks(rule, call) \in Seq(Refusing)
         /\ Unrefused(CommandChecks(rule, call)) =>
              LET command == StringArg(call, "command")
              IN  rule.command.deny \union rule.command.executables # {} =>
                    /\ command # "" /\ ~MatchesAny(rule.command.deny, command)
                    /\ rule.command.executables # {} =>
                         Text[command].executable \in rule.command.executables
  <1> DEFINE command == StringArg(call, "command")
             allowed == rule.command.executables
             A == command = "" /\ allowed \union rule.command.deny # {}
             B == MatchesAny(rule.command.deny, command)
             C == allowed # {} /\ Text[command].executable = ""
             D == allowed # {} /\ Text[command].executable \notin allowed
  <1>1. CommandChecks(rule, call)
          = << <<A, "command_missing">>, <<B, "command_denied">>,
               <<C, "command_empty">>,
               <<D, "command_executable_not_allowed">> >>
    BY DEF CommandChecks
  <1>2. A \in BOOLEAN /\ B \in BOOLEAN /\ C \in BOOLEAN /\ D \in BOOLEAN
    BY DEF MatchesAny
  <1>3. Unrefused(CommandChecks(rule, call)) => ~A /\ ~B /\ ~C /\ ~D
    <2> HIDE DEF A, B, C, D
    <2> QED
      BY <1>1, <1>2 DEF Unrefused
  <1>4. CommandChecks(rule, call) \in Seq(Refusing)
    <2> HIDE DEF A, B, C, D
    <2>1. /\ <<A, "command_missing">> \in Refusing
          /\ <<B, "command_denied">> \in Refusing
          /\ <<C, "command_empty">> \in Refusing
          /\ <<D, "command_executable_not_allowed">> \in Refusing
      BY <1>2 DEF Refusing, RefusalCodes
    <2> QED
      BY <1>1, <2>1
  <1>5. allowed \union rule.command.deny = rule.command.deny \union allowed
    OBVIOUS
  <1> QED
    BY <1>3, <1>4, <1>5

(* The place of a word in an order of three.                               *)
LEMMA RankOfThree ==
  ASSUME NEW a, NEW b, NEW c, a # b, b # c, a # c, NEW x,
         NEW s, s = <<a, b, c>>
  PROVE  Rank(s, x) = IF x = a THEN 0 ELSE IF x = b THEN 1
                      ELSE IF x = c THEN 2 ELSE -1
  <1> DEFINE I == {i \in 1 .. Len(s) : s[i] = x}
  <1>1. Rank(s, x) = (IF I # {} THEN Min(I) ELSE 0) - 1
    BY DEF Rank, SelectInSeq
  <1>2. Len(s) = 3 /\ s[1] = a /\ s[2] = b /\ s[3] = c
    OBVIOUS
  <1>3. I = IF x = a THEN {1} ELSE IF x = b THEN {2}
            ELSE IF x = c THEN {3} ELSE {}
    BY <1>2
  <1>4. ASSUME I # {} PROVE Min(I) \in I
    <2>1. I \in SUBSET (1 .. 3)
      BY <1>2
    <2> HIDE DEF I
    <2> QED
      BY <1>4, <2>1, MinIndex
  <1> HIDE DEF I
  <1> QED
    BY <1>1, <1>3, <1>4

(* The ranks of the three sensitivities, and of anything else.             *)
LEMMA SensitivityRanks ==
  \A x : Rank(MemorySensitivities, x)
           = IF x = "low" THEN 0 ELSE IF x = "medium" THEN 1
             ELSE IF x = "high" THEN 2 ELSE -1
  BY RankOfThree DEF MemorySensitivities

(* The ranks of the three scopes, and of anything else.                    *)
LEMMA ScopeRanks ==
  \A x : Rank(MemoryScopes, x)
           = IF x = "session" THEN 0 ELSE IF x = "project" THEN 1
             ELSE IF x = "global" THEN 2 ELSE -1
  BY RankOfThree DEF MemoryScopes

(* What the checks read off the texts of the call is known.                *)
Readable(call) ==
  \A a \in DOMAIN call.args : call.args[a].text \in DOMAIN Text

(* What a call says where the checks look is a text they know.             *)
LEMMA ReadableText ==
  ASSUME NEW call, Readable(call)
  PROVE  /\ \A name : StringArg(call, name) \in DOMAIN Text
         /\ \A m : MemoryPayload(m, call) \in DOMAIN Text
  <1>1. \A name : StringArg(call, name) \in DOMAIN Text
    BY EngineAssumption DEF StringArg, Readable
  <1>2. ASSUME NEW m PROVE MemoryPayload(m, call) \in DOMAIN Text
    <2> DEFINE fields == IF m.fields = <<>> THEN <<"value", "content">> ELSE m.fields
    <2>1. PICK i : MemoryPayload(m, call)
                     = IF i = 0 THEN "" ELSE StringArg(call, fields[i])
      BY DEF MemoryPayload
    <2> QED
      BY <1>1, <2>1, EngineAssumption
  <1> QED
    BY <1>1, <1>2

(* The sensitivity the checks go by is at least the one the call states,   *)
(* and high when a pattern matches the payload.                            *)
LEMMA SensitivityIsHigher ==
  ASSUME NEW p, NEW payload, NEW call, NEW limit,
         limit \in {"low", "medium", "high"},
         ~(Rank(MemorySensitivities, MemorySensitivity(p, payload, call))
             > Rank(MemorySensitivities, limit))
  PROVE  /\ MatchesPattern(p, payload) => limit = "high"
         /\ Rank(MemorySensitivities, StringArg(call, "sensitivity"))
              <= Rank(MemorySensitivities, limit)
  <1>1. PICK stated : stated = StringArg(call, "sensitivity")
    OBVIOUS
  <1>2. PICK detected : detected = IF MatchesPattern(p, payload) THEN "high" ELSE "low"
    OBVIOUS
  <1>3. PICK higher : higher = MemorySensitivity(p, payload, call)
    OBVIOUS
  <1>4. higher = IF Rank(MemorySensitivities, stated)
                      > Rank(MemorySensitivities, detected)
                 THEN stated ELSE detected
    BY <1>1, <1>2, <1>3 DEF MemorySensitivity
  <1>5. PICK r \in Int, q \in Int, l \in Int :
          /\ r = Rank(MemorySensitivities, stated)
          /\ q = Rank(MemorySensitivities, detected)
          /\ l = Rank(MemorySensitivities, limit)
    BY SensitivityRanks
  <1>6. r <= l /\ q <= l
    <2>1. Rank(MemorySensitivities, higher) = IF r > q THEN r ELSE q
      BY <1>4, <1>5
    <2>2. ~((IF r > q THEN r ELSE q) > l)
      BY <1>3, <1>5, <2>1
    <2> QED
      BY <2>2
  <1>7. MatchesPattern(p, payload) => limit = "high"
    <2> SUFFICES ASSUME MatchesPattern(p, payload) PROVE limit = "high"
      OBVIOUS
    <2>1. q = 2
      BY <1>2, <1>5, SensitivityRanks
    <2>2. l >= 2
      BY <1>6, <2>1
    <2> QED
      BY <1>5, <2>2, SensitivityRanks
  <1> QED
    BY <1>1, <1>5, <1>6, <1>7

(* A write that evaluateMemoryWriteConstraints lets through has a payload  *)
(* within its size, scope and sensitivity.                                 *)
LEMMA MemoryRefusals ==
  ASSUME NEW p, NEW rule, NEW call, NEW m, m = rule.memory,
         ValidMemory(m), m.bytes \in Int,
         Readable(call)
  PROVE  /\ MemoryChecks(p, rule, call) \in Seq(Refusing)
         /\ Unrefused(MemoryChecks(p, rule, call)) /\ MemoryIsSet(m) =>
              LET payload == MemoryPayload(m, call)
              IN  /\ payload # ""
                  /\ m.bytes > 0 => Text[payload].size <= m.bytes
                  /\ m.scope # "" =>
                       Rank(MemoryScopes, MemoryScope(call))
                         \in 0 .. Rank(MemoryScopes, m.scope)
                  /\ m.sensitivity # "" =>
                       /\ ~UnknownSensitivity(call)
                       /\ MatchesPattern(p, payload) => m.sensitivity = "high"
                       /\ Rank(MemorySensitivities, StringArg(call, "sensitivity"))
                            <= Rank(MemorySensitivities, m.sensitivity)
  <1> DEFINE scope == Rank(MemoryScopes, MemoryScope(call))
             payload == MemoryPayload(m, call)
             sensitivity == Rank(MemorySensitivities,
                                 MemorySensitivity(p, payload, call))
             A == m.scope # "" /\ scope < 0
             B == m.scope # "" /\ scope > Rank(MemoryScopes, m.scope)
             C == MemoryIsSet(m) /\ payload = ""
             D == m.bytes > 0 /\ Text[payload].size > m.bytes
             E == m.sensitivity # "" /\ UnknownSensitivity(call)
             F == /\ m.sensitivity # ""
                  /\ sensitivity > Rank(MemorySensitivities, m.sensitivity)
  <1>1. MemoryChecks(p, rule, call)
          = << <<A, "memory_scope_invalid">>, <<B, "memory_scope_exceeded">>,
               <<C, "memory_payload_missing">>, <<D, "memory_size_exceeded">>,
               <<E, "memory_sensitivity_invalid">>,
               <<F, "memory_sensitivity_exceeded">> >>
    BY DEF MemoryChecks
  <1>2. /\ A \in BOOLEAN /\ B \in BOOLEAN /\ C \in BOOLEAN /\ D \in BOOLEAN
        /\ E \in BOOLEAN /\ F \in BOOLEAN
    OBVIOUS
  <1>3. Unrefused(MemoryChecks(p, rule, call)) => ~A /\ ~B /\ ~C /\ ~D /\ ~E /\ ~F
    <2> HIDE DEF A, B, C, D, E, F
    <2> QED
      BY <1>1, <1>2 DEF Unrefused
  <1>4. MemoryChecks(p, rule, call) \in Seq(Refusing)
    <2> HIDE DEF A, B, C, D, E, F
    <2>1. /\ <<A, "memory_scope_invalid">> \in Refusing
          /\ <<B, "memory_scope_exceeded">> \in Refusing
          /\ <<C, "memory_payload_missing">> \in Refusing
          /\ <<D, "memory_size_exceeded">> \in Refusing
          /\ <<E, "memory_sensitivity_invalid">> \in Refusing
          /\ <<F, "memory_sensitivity_exceeded">> \in Refusing
      BY <1>2 DEF Refusing, RefusalCodes
    <2> QED
      BY <1>1, <2>1
  <1>5. SUFFICES ASSUME ~A, ~B, ~C, ~D, ~E, ~F, MemoryIsSet(m)
                 PROVE  /\ payload # ""
                        /\ m.bytes > 0 => Text[payload].size <= m.bytes
                        /\ m.scope # "" => scope \in 0 .. Rank(MemoryScopes, m.scope)
                        /\ m.sensitivity # "" =>
                             /\ ~UnknownSensitivity(call)
                             /\ MatchesPattern(p, payload) => m.sensitivity = "high"
                             /\ Rank(MemorySensitivities, StringArg(call, "sensitivity"))
                                  <= Rank(MemorySensitivities, m.sensitivity)
    BY <1>3, <1>4
  <1>6. payload # ""
    BY <1>5
  <1>7. ASSUME m.bytes > 0 PROVE Text[payload].size <= m.bytes
    <2>1. payload \in DOMAIN Text
      BY ReadableText
    <2>2. PICK n \in Nat : n = Text[payload].size
      BY <2>1, EngineAssumption
    <2>3. PICK b \in Int : b = m.bytes
      OBVIOUS
    <2>4. ~(n > b)
      BY <1>5, <1>7, <2>2, <2>3
    <2> QED
      BY <2>2, <2>3, <2>4
  <1>8. ASSUME m.scope # "" PROVE scope \in 0 .. Rank(MemoryScopes, m.scope)
    <2>1. PICK s \in Int, l \in Int : s = scope /\ l = Rank(MemoryScopes, m.scope)
      BY ScopeRanks
    <2>2. ~(s < 0) /\ ~(s > l)
      BY <1>5, <1>8, <2>1
    <2>3. s \in 0 .. l
      BY <2>2
    <2> QED
      BY <2>1, <2>3
  <1>9. ASSUME m.sensitivity # ""
        PROVE  /\ MatchesPattern(p, payload) => m.sensitivity = "high"
               /\ Rank(MemorySensitivities, StringArg(call, "sensitivity"))
                    <= Rank(MemorySensitivities, m.sensitivity)
    <2>1. m.sensitivity \in {"low", "medium", "high"}
      <3>1. Rank(MemorySensitivities, m.sensitivity) >= 0
        BY <1>9 DEF ValidMemory
      <3> QED
        BY <3>1, SensitivityRanks
    <2>2. ~(Rank(MemorySensitivities, MemorySensitivity(p, payload, call))
              > Rank(MemorySensitivities, m.sensitivity))
      BY <1>5, <1>9
    <2> HIDE DEF payload
    <2> QED
      BY <2>1, <2>2, SensitivityIsHigher
  <1> QED
    BY <1>5, <1>6, <1>7, <1>8, <1>9

-------------------------------------------------------------------------------
(* Decisions.                                                              *)

(* No check of the rule refuses the call.                                  *)
Passes(p, rule, call) ==
  /\ Unrefused(PathChecks(rule, call)) /\ Unrefused(ArgChecks(rule, call))
  /\ Unrefused(URLChecks(rule, call)) /\ Unrefused(CommandChecks(rule, call))
  /\ Unrefused(MemoryChecks(p, rule, call))

(* All the checks of a rule together refuse with a code, or the call meets *)
(* every constraint.                                                       *)
LEMMA RefusalOrPass ==
  ASSUME NEW p, NEW rule, NEW call, DOMAIN rule.args \subseteq ToSet(NameOrder),
         ValidMemory(rule.memory), rule.memory.bytes \in Int,
         Readable(call),
         NEW refusal,
         refusal = FirstRefusal(PathChecks(rule, call) \o ArgChecks(rule, call)
                                  \o URLChecks(rule, call)
                                  \o CommandChecks(rule, call)
                                  \o MemoryChecks(p, rule, call))
  PROVE  /\ refusal \in RefusalCodes \union {""}
         /\ refusal = "" => Passes(p, rule, call)
  <1>1. PICK a \in Seq(Refusing) : a = PathChecks(rule, call)
    BY PathRefusals
  <1>2. PICK b \in Seq(Refusing) : b = ArgChecks(rule, call)
    BY ArgRefusals
  <1>3. PICK c \in Seq(Refusing) : c = URLChecks(rule, call)
    <2>1. StringArg(call, "url") \in DOMAIN Text
      BY ReadableText
    <2> QED
      BY <2>1, URLRefusals
  <1>4. PICK d \in Seq(Refusing) : d = CommandChecks(rule, call)
    BY CommandRefusals
  <1>5. PICK e \in Seq(Refusing) : e = MemoryChecks(p, rule, call)
    BY MemoryRefusals
  <1>6. PICK ab \in Seq(Refusing) :
          ab = a \o b /\ (Unrefused(ab) => Unrefused(a) /\ Unrefused(b))
    BY ConcatRefusals
  <1>7. PICK abc \in Seq(Refusing) :
          abc = ab \o c /\ (Unrefused(abc) => Unrefused(ab) /\ Unrefused(c))
    BY ConcatRefusals
  <1>8. PICK abcd \in Seq(Refusing) :
          abcd = abc \o d /\ (Unrefused(abcd) => Unrefused(abc) /\ Unrefused(d))
    BY ConcatRefusals
  <1>9. PICK all \in Seq(Refusing) :
          all = abcd \o e /\ (Unrefused(all) => Unrefused(abcd) /\ Unrefused(e))
    BY ConcatRefusals
  <1>10. refusal = FirstRefusal(all)
    BY <1>1, <1>2, <1>3, <1>4, <1>5, <1>6, <1>7, <1>8, <1>9
  <1> QED
    BY <1>1, <1>2, <1>3, <1>4, <1>5, <1>6, <1>7, <1>8, <1>9, <1>10, Refusals
       DEF Passes

(* The fields of a result.                                                 *)
LEMMA ResultFields ==
  ASSUME NEW d, NEW c, NEW k, NEW r,
         r = [decision |-> d, code |-> c, key |-> k]
  PROVE  r.decision = d /\ r.code = c /\ r.key = k
  OBVIOUS

(* What the result r of an evaluation says of the call.                    *)
Decides(p, call, r) ==
  /\ r.key = LookupRule(p, call.tool)
  /\ r.key \in {""} \union DOMAIN p.tools
  /\ r.decision \in Decisions
  /\ r.code \in RefusalCodes \union {"rule_match", "default_decision"}
  /\ r.key # "" /\ r.decision # "deny" => Passes(p, p.tools[r.key], call)

(* A call goes by the rule that lookupRule finds, or by the default; it is *)
(* denied under a rule a check of which refuses it, and otherwise decided  *)
(* as the rule says: a decision that is not deny has passed every check.   *)
LEMMA EvaluateDecides ==
  ASSUME NEW p, Parsed(p), Names(p) \subseteq ToSet(NameOrder),
         NEW call, Readable(call)
  PROVE  Decides(p, call, Evaluate(p, call))
  <1>r. PICK r : r = Evaluate(p, call)
    OBVIOUS
  <1> SUFFICES Decides(p, call, r)
    BY <1>r
  <1>1. PICK key : key = LookupRule(p, call.tool)
    OBVIOUS
  <1>2. key \in {""} \union DOMAIN p.tools
    BY <1>1, LookupIsFirst DEF Parsed
  <1>3. p.decision \in Decisions /\ ValidRules(p) /\ IsPolicy(p)
    BY ParsedParsable DEF Parsable
  <1>4. CASE key = ""
    <2>1. r = [decision |-> p.decision, code |-> "default_decision", key |-> ""]
      BY <1>r, <1>1, <1>4 DEF Evaluate
    <2>2. /\ r.decision = p.decision /\ r.code = "default_decision" /\ r.key = ""
      BY <2>1, ResultFields
    <2>3. r.key = LookupRule(p, call.tool)
      BY <1>1, <1>4, <2>2
    <2>4. r.decision \in Decisions
      BY <1>3, <2>2
    <2>5. r.code \in RefusalCodes \union {"rule_match", "default_decision"}
      BY <2>2
    <2> QED
      BY <2>2, <2>3, <2>4, <2>5 DEF Decides
  <1>5. CASE key # ""
    <2>1. PICK rule : rule = p.tools[key]
      OBVIOUS
    <2>2. PICK refusal :
            refusal = FirstRefusal(PathChecks(rule, call) \o ArgChecks(rule, call)
                                     \o URLChecks(rule, call)
                                     \o CommandChecks(rule, call)
                                     \o MemoryChecks(p, rule, call))
      OBVIOUS
    <2>3. r = IF refusal # ""
              THEN [decision |-> "deny", code |-> refusal, key |-> key]
              ELSE [decision |-> rule.decision, code |-> "rule_match", key |-> key]
      BY <1>r, <1>1, <1>5, <2>1, <2>2 DEF Evaluate
    <2>4. key \in DOMAIN p.tools
      BY <1>2, <1>5
    <2>5. /\ rule.decision \in Decisions /\ ValidMemory(rule.memory)
          /\ rule.memory.bytes \in Int
      BY <1>3, <2>1, <2>4 DEF ValidRules, IsPolicy
    <2>6. DOMAIN rule.args \subseteq ToSet(NameOrder)
      BY <2>1, <2>4 DEF Names
    <2>7. /\ refusal \in RefusalCodes \union {""}
          /\ refusal = "" => Passes(p, rule, call)
      BY <2>2, <2>5, <2>6, RefusalOrPass
    <2>8. CASE refusal = ""
      <3>1. /\ r.decision = rule.decision /\ r.code = "rule_match" /\ r.key = key
        BY <2>3, <2>8, ResultFields
      <3> QED
        BY <1>1, <2>1, <2>4, <2>5, <2>7, <2>8, <3>1 DEF Decides
    <2>9. CASE refusal # ""
      <3>1. /\ r.decision = "deny" /\ r.code = refusal /\ r.key = key
        BY <2>3, <2>9, ResultFields
      <3>2. "deny" \in Decisions
        BY DEF Decisions
      <3> QED
        BY <1>1, <2>4, <2>7, <2>9, <3>1, <3>2 DEF Decides
    <2> QED
      BY <2>8, <2>9
  <1> QED
    BY <1>4, <1>5

(* A policy that was loaded is its own snapshot, and the bound evaluation  *)
(* is the evaluation by it, unless the call has no exact digest.           *)
LEMMA BoundIsEvaluate ==
  ASSUME NEW p, Parsed(p), Compiles(p), NEW call
  PROVE  EvaluateBound(p, call)
           = IF ~Exact(call) THEN BindingFailure("action_binding_failed", <<>>)
             ELSE [decision |-> Evaluate(p, call).decision,
                   code |-> Evaluate(p, call).code,
                   key |-> Evaluate(p, call).key,
                   action |-> ToolActionDigest(call), policy |-> <<p>>]
  <1>1. SnapshotPolicy(p) = Loaded(p)
    BY DEF Parsed, SnapshotPolicy, Loaded
  <1>2. EffectivePolicyDigest(p) = <<p>>
    BY DEF Parsed, EffectivePolicyDigest, Loaded
  <1> QED
    BY <1>1, <1>2 DEF EvaluateBound, Loaded
===============================================================================
