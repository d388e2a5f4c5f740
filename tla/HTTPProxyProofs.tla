--------------------------- MODULE HTTPProxyProofs ---------------------------
(***************************************************************************)
(* Proofs about the HTTP proxy, for any number of requests and members of  *)
(* a batch, and every set of tools, values and configurations.             *)
(***************************************************************************)
EXTENDS HTTPProxy, FiniteSetTheorems, TLAPS

CallMembers == [kind : {"call"}, tool : Tools, arg : Values]

Gating == {"evaluate", "resolve", "audit", "emit"}

(* What a handler has in hand at each place.                               *)
InHand(r) ==
  /\ pc[r] = "idle" => body[r] = None /\ at[r] = 0
  /\ pc[r] # "idle" => /\ body[r] \in Bodies
                       /\ at[r] \in 1 .. Len(body[r].members) + 1
  /\ \A k \in 1 .. at[r] - 1 : body[r].members[k] \in CallMembers
  /\ pc[r] \in Gating => /\ at[r] <= Len(body[r].members)
                         /\ Member(r) \in CallMembers
  /\ pc[r] \in {"forward", "stream", "copy", "observe"} =>
       at[r] = Len(body[r].members) + 1
  /\ pc[r] \in {"stream", "copy", "observe"} => result[r] \in Values \union {Empty}
  /\ pc[r] \in {"audit", "emit"} => /\ decision[r] \in {"allow", "deny", "ask"}
                                    /\ code[r] \in Codes
  /\ pc[r] = "emit" => Event(r) \in log

TypeInv == TypeOK /\ \A r \in Reqs : InHand(r)

(* A body has at most MaxMembers members, a lone call exactly one.         *)
LEMMA BodyShape ==
  ASSUME NEW b \in Bodies
  PROVE  /\ b.members \in Seq(Members)
         /\ Len(b.members) \in 0 .. MaxMembers
         /\ b.form = "call" => Len(b.members) = 1
         /\ b # None
  <1>1. b \in AllBodies /\ b # None /\ MaxMembers \in Nat
        /\ (b.form = "call" => Len(b.members) = 1)
    BY HTTPAssumption
  <1>2. \E n \in 0 .. MaxMembers : b.members \in [1 .. n -> Members]
    <2>1. CASE b.members = <<>>
      <3>1. b.members \in [1 .. 0 -> Members] /\ 0 \in 0 .. MaxMembers
        BY <1>1, <2>1
      <3> QED
        BY <3>1
    <2>2. CASE b.members \in UNION {[1 .. n -> Members] : n \in 0 .. MaxMembers}
      BY <2>2
    <2> QED
      BY <1>1, <2>1, <2>2 DEF AllBodies
  <1> QED
    BY <1>1, <1>2

(* A member that is not malformed is a call.                               *)
LEMMA MemberKinds ==
  ASSUME NEW b \in Bodies, NEW k \in 1 .. Len(b.members), ~Malformed(b, k)
  PROVE  b.members[k] \in CallMembers
  <1>1. b.members[k] \in Members
    BY BodyShape
  <1>2. b.members[k].kind # "malformed"
    BY DEF Malformed
  <1> QED
    BY <1>1, <1>2 DEF Members, CallMembers

(* Before the first request no handler has anything in hand.               *)
LEMMA InitType == Init => TypeInv
  <1> SUFFICES ASSUME Init PROVE TypeInv
    OBVIOUS
  <1>1. /\ opts \in Configs /\ 0 \in 0 .. MaxMembers + 1
        /\ pc = [r \in Reqs |-> "idle"] /\ at = [r \in Reqs |-> 0]
        /\ stage = "serving" /\ abrupt = FALSE
    BY HTTPAssumption DEF Init
  <1>2. /\ body \in [Reqs -> Bodies \union {None}]
        /\ at \in [Reqs -> 0 .. MaxMembers + 1]
        /\ decision \in [Reqs -> {"none", "allow", "deny", "ask"}]
        /\ code \in [Reqs -> Codes \union {"none"}]
        /\ result \in [Reqs -> Values \union {Empty, None}]
        /\ tracked \in [Values -> Tools \union {None}]
        /\ verdict \in [Calls -> {"none", "allow", "deny"}]
    BY <1>1 DEF Init
  <1>3. TypeOK
    BY <1>1, <1>2 DEF Init, TypeOK
  <1>4. \A r \in Reqs : InHand(r)
    BY DEF Init, InHand, Gating
  <1> QED
    BY <1>3, <1>4 DEF TypeInv

(* The four ways an approval ends, and the operator's three, are Settle.   *)
Settles(r) == \E o \in Outcomes : Settle(r, o)

(* Relaying the response and observing it.                                 *)
Relays(r) == Stream(r) \/ EndOfBody(r) \/ Truncated(r) \/ Observe(r)

(* What a handler does but take the terminal, the ways of settling a call  *)
(* taken together.                                                         *)
Acts(r) ==
  \/ Evaluate(r) \/ Settles(r) \/ Audit(r) \/ Emit(r) \/ Forward(r)
  \/ Relays(r)

(* The steps of Serve and of the deferred calls, and the taking of the     *)
(* terminal, leave every handler where it is.                              *)
ServeStep ==
  UNCHANGED <<opts, handlers, audit, taint, outcome, sending>>

(* A handler takes the terminal or acts.                                   *)
LEMMA HandlerSteps ==
  ASSUME NEW r \in Reqs, Handle(r)
  PROVE  Prompt(r) \/ Acts(r)
  BY DEF Handle, Acts, Relays, Settles, Outcomes, OperatorAnswers,
     ApprovalExpires, ApprovalCancelled, ApprovalRefused

(* A step is one of these or one of a single handler.                      *)
LEMMA NextCases ==
  ASSUME TypeOK, [Next]_vars
  PROVE  \/ /\ ServeStep /\ abrupt' \in BOOLEAN
            /\ stage' \in {"serving", "draining", "closing", "fileClosed",
                          "sinkClosed", "exited"}
            /\ prompting' \in Reqs \union {None}
         \/ \E r \in Reqs : Arrive(r) \/ Acts(r)
  <1>1. CASE \E r \in Reqs : Prompt(r)
    BY <1>1 DEF Prompt, ServeStep, TypeOK
  <1>2. CASE \E r \in Reqs : Arrive(r) \/ Acts(r)
    BY <1>2
  <1>3. CASE \/ Signal \/ ListenFails \/ ServeEnds \/ Terminated
             \/ UNCHANGED vars
    BY <1>3 DEF ServeEnds, Signal, ListenFails, Drained, Deadline, CloseFile,
       CloseSink, Exit, Move, Terminated, ServeStep, vars, TypeOK
  <1> QED
    BY <1>1, <1>2, <1>3, HandlerSteps DEF Next

(* A handler's step leaves the other handlers and their calls alone.       *)
Untouched(s) ==
  /\ pc'[s] = pc[s] /\ body'[s] = body[s] /\ at'[s] = at[s]
  /\ decision'[s] = decision[s] /\ code'[s] = code[s] /\ result'[s] = result[s]

(* A handler leaves what the other handlers hold alone.                    *)
LEMMA OthersUntouched ==
  ASSUME TypeOK, NEW r \in Reqs, Arrive(r) \/ Acts(r),
         NEW s \in Reqs, s # r
  PROVE  Untouched(s)
  <1> USE DEF handlers, audit, taint, outcome, sending
  <1>1. CASE Arrive(r)
    BY <1>1 DEF Arrive, Goto, TypeOK, Untouched
  <1>2. CASE Evaluate(r)
    BY <1>2 DEF Evaluate, Goto, TypeOK, Untouched
  <1>3. CASE Settles(r)
    BY <1>3 DEF Settles, Settle, Continue, NextMember, Blocked, Goto, TypeOK,
       Untouched
  <1>4. CASE Audit(r) \/ Emit(r)
    BY <1>4 DEF Audit, Emit, AfterAudit, Continue, NextMember, Blocked, Goto,
       TypeOK, Untouched
  <1>5. CASE Forward(r) \/ Relays(r)
    BY <1>5 DEF Relays, Forward, Stream, EndOfBody, CopyReturns, Observe,
       Truncated, Goto, TypeOK, Untouched
  <1> QED
    BY <1>1, <1>2, <1>3, <1>4, <1>5 DEF Acts, Relays

(* What a handler has in hand stays good while the log only grows.         *)
LEMMA OthersInHand ==
  ASSUME NEW s \in Reqs, InHand(s), Untouched(s), log \subseteq log'
  PROVE  InHand(s)'
  BY DEF InHand, Untouched, Member, Event, ThisCall

(* Where a batch goes next: to its next call, to the end, or upstream.     *)
LEMMA TurnToCases ==
  ASSUME NEW b \in Bodies, NEW k \in 1 .. Len(b.members) + 1
  PROVE  /\ TurnTo(b, k) \in {"forward", "evaluate", "done"}
         /\ TurnTo(b, k) = "forward" <=> k = Len(b.members) + 1
         /\ TurnTo(b, k) = "evaluate" => b.members[k] \in CallMembers
  BY BodyShape, MemberKinds DEF TurnTo

(* Going on to the next member, or not.                                    *)
LEMMA ContinueTypes ==
  ASSUME TypeOK, NEW r \in Reqs, InHand(r), pc[r] \in Gating,
         NEW d, Continue(r, d), body' = body
  PROVE  /\ pc' \in [Reqs -> {"idle", "evaluate", "resolve", "audit", "emit",
                              "forward", "stream", "copy", "observe", "done"}]
         /\ at' \in [Reqs -> 0 .. MaxMembers + 1]
         /\ answer' \in [Reqs -> {"none", "refused", "blocked", "failed",
                                  "reply", "aborted"}]
         /\ pc'[r] \in {"evaluate", "forward", "done"}
         /\ InHand(r)'
  <1>1. /\ body[r] \in Bodies /\ at[r] \in 1 .. Len(body[r].members)
        /\ body[r].members[at[r]] \in CallMembers
    BY DEF InHand, Gating, Member
  <1>2. Len(body[r].members) \in 0 .. MaxMembers /\ MaxMembers \in Nat
    BY <1>1, BodyShape, HTTPAssumption
  <1>3. CASE NextMember(r)
    <2> DEFINE next == TurnTo(body[r], at[r] + 1)
    <2>1. /\ next \in {"forward", "evaluate", "done"}
          /\ next = "forward" => at[r] + 1 = Len(body[r].members) + 1
          /\ next = "evaluate" => /\ body[r].members[at[r] + 1] \in CallMembers
                                  /\ at[r] + 1 # Len(body[r].members) + 1
      BY <1>1, <1>2, TurnToCases
    <2>2. pc' = [pc EXCEPT ![r] = next] /\ at' = [at EXCEPT ![r] = @ + 1]
          /\ answer' = [answer EXCEPT ![r] = IF next = "done" THEN "refused"
                                             ELSE @]
      BY <1>3 DEF NextMember, Goto
    <2> HIDE DEF next
    <2>3. /\ pc' \in [Reqs -> {"idle", "evaluate", "resolve", "audit", "emit",
                               "forward", "stream", "copy", "observe", "done"}]
          /\ answer' \in [Reqs -> {"none", "refused", "blocked", "failed",
                                   "reply", "aborted"}]
          /\ at' \in [Reqs -> 0 .. MaxMembers + 1]
      BY <1>1, <1>2, <2>1, <2>2 DEF TypeOK
    <2>4. pc'[r] = next /\ at'[r] = at[r] + 1
      BY <2>2 DEF TypeOK
    <2>5. \A k \in 1 .. at'[r] - 1 : body[r].members[k] \in CallMembers
      BY <1>1, <1>2, <2>4 DEF InHand
    <2> QED
      BY <1>1, <1>2, <2>1, <2>3, <2>4, <2>5 DEF InHand, Gating, Member
  <1>4. CASE Blocked(r)
    BY <1>1, <1>4 DEF TypeOK, Blocked, Goto, InHand, Gating
  <1> QED
    BY <1>3, <1>4 DEF Continue

(* A handler that deals with a member has a call.                          *)
LEMMA ThisCallType ==
  ASSUME NEW r \in Reqs, InHand(r), pc[r] \in Gating
  PROVE  ThisCall(r) \in Calls
  <1>1. /\ body[r] \in Bodies /\ at[r] \in 1 .. Len(body[r].members)
    BY DEF InHand, Gating
  <1> QED
    BY <1>1, BodyShape, HTTPAssumption DEF ThisCall, Calls

(* Every step keeps the types and what each handler has in hand.           *)
LEMMA TypeStep == TypeInv /\ [Next]_vars => TypeInv'
  <1> SUFFICES ASSUME TypeInv, [Next]_vars PROVE TypeInv'
    OBVIOUS
  <1> USE DEF handlers, audit, taint, outcome, sending
  <1>0. TypeOK
    BY DEF TypeInv
  <1>1. CASE /\ ServeStep /\ abrupt' \in BOOLEAN
             /\ stage' \in {"serving", "draining", "closing", "fileClosed",
                           "sinkClosed", "exited"}
             /\ prompting' \in Reqs \union {None}
    <2>1. TypeOK'
      BY <1>0, <1>1 DEF TypeOK, ServeStep
    <2>2. ASSUME NEW r \in Reqs PROVE InHand(r)'
      <3>1. InHand(r)
        BY DEF TypeInv
      <3> QED
        BY <1>1, <3>1, OthersInHand DEF ServeStep, Untouched
    <2> QED
      BY <2>1, <2>2 DEF TypeInv
  <1>2. ASSUME NEW r \in Reqs, Arrive(r) \/ Acts(r)
        PROVE  TypeInv'
    <2>1. InHand(r)
      BY DEF TypeInv
    <2>2. SUFFICES TypeOK' /\ InHand(r)' /\ log \subseteq log'
      BY <1>0, <1>2, <2>2, OthersUntouched, OthersInHand DEF TypeInv
    <2>3. CASE Arrive(r)
      <3>1. PICK b \in Bodies :
              LET next == IF Refused(b) THEN "done" ELSE TurnTo(b, 1) IN
              /\ body' = [body EXCEPT ![r] = b]
              /\ Goto(r, next)
              /\ answer' = [answer EXCEPT ![r] =
                              IF next = "done" THEN "refused" ELSE @]
        BY <2>3 DEF Arrive
      <3>2. 1 \in 1 .. Len(b.members) + 1 /\ 1 \in 0 .. MaxMembers + 1
        BY BodyShape, HTTPAssumption
      <3> DEFINE next == IF Refused(b) THEN "done" ELSE TurnTo(b, 1)
      <3>3. /\ next \in {"forward", "evaluate", "done"}
            /\ next = "forward" => 1 = Len(b.members) + 1
            /\ next = "evaluate" => /\ b.members[1] \in CallMembers
                                    /\ 1 # Len(b.members) + 1
        BY <3>2, TurnToCases
      <3>4. pc' = [pc EXCEPT ![r] = next] /\ at' = [at EXCEPT ![r] = 1]
            /\ body' = [body EXCEPT ![r] = b]
            /\ answer' = [answer EXCEPT ![r] =
                            IF next = "done" THEN "refused" ELSE @]
        BY <2>3, <3>1 DEF Arrive, Goto
      <3> HIDE DEF next
      <3>5. /\ pc' \in [Reqs -> {"idle", "evaluate", "resolve", "audit", "emit",
                               "forward", "stream", "copy", "observe", "done"}]
            /\ answer' \in [Reqs -> {"none", "refused", "blocked", "failed",
                                     "reply", "aborted"}]
            /\ at' \in [Reqs -> 0 .. MaxMembers + 1]
            /\ body' \in [Reqs -> Bodies \union {None}]
            /\ heard' \in [Reqs -> SUBSET Values]
            /\ known' \in [Reqs -> SUBSET Values]
        BY <1>0, <2>3, <3>2, <3>3, <3>4 DEF TypeOK, Arrive
      <3>6. pc'[r] = next /\ at'[r] = 1 /\ body'[r] = b
        BY <1>0, <3>4 DEF TypeOK
      <3>7. Len(b.members) \in Nat
        BY BodyShape
      <3>8. InHand(r)'
        BY <3>2, <3>3, <3>6, <3>7 DEF InHand, Gating, Member
      <3> QED
        BY <1>0, <2>3, <3>5, <3>8 DEF TypeOK, Arrive
    <2>4. CASE Evaluate(r)
      <3>1. ThisCall(r) \in Calls /\ Member(r) \in CallMembers
        BY <2>1, <2>4, ThisCallType DEF Evaluate, Gating, InHand
      <3>2. Static[Member(r).tool] \in {"allow", "deny", "ask"}
        BY <3>1, HTTPAssumption DEF CallMembers
      <3> DEFINE d == Static[Member(r).tool]
                 e == IF Tainted(Member(r).arg) THEN Escalated(d) ELSE d
      <3>3. e \in {"allow", "deny", "ask"}
        BY <3>2 DEF Escalated
      <3>4. /\ decision' = [decision EXCEPT ![r] = e]
            /\ code' = [code EXCEPT ![r] = IF e = d THEN "policy" ELSE "taint"]
            /\ verdict' = IF e = "ask" THEN verdict
                          ELSE [verdict EXCEPT ![ThisCall(r)] = e]
            /\ pc' = [pc EXCEPT ![r] = AfterEvaluate(Single(r), e)]
        BY <2>4 DEF Evaluate, Goto
      <3> HIDE DEF e, d
      <3>5. AfterEvaluate(Single(r), e) \in {"resolve", "audit"}
        BY DEF AfterEvaluate
      <3>6. verdict' \in [Calls -> {"none", "allow", "deny"}]
        BY <1>0, <3>1, <3>3, <3>4 DEF TypeOK
      <3>7. /\ decision' \in [Reqs -> {"none", "allow", "deny", "ask"}]
            /\ code' \in [Reqs -> Codes \union {"none"}]
            /\ pc' \in [Reqs -> {"idle", "evaluate", "resolve", "audit", "emit",
                                 "forward", "stream", "copy", "observe", "done"}]
            /\ decision'[r] = e /\ code'[r] \in Codes
            /\ pc'[r] \in {"resolve", "audit"}
        BY <1>0, <3>3, <3>4, <3>5 DEF TypeOK, Codes
      <3>8. TypeOK'
        BY <1>0, <2>4, <3>6, <3>7 DEF TypeOK, Evaluate
      <3>9. InHand(r)'
        BY <2>1, <2>4, <3>3, <3>7 DEF InHand, Evaluate, Gating, Member
      <3> QED
        BY <2>4, <3>8, <3>9 DEF Evaluate
    <2>5. CASE Settles(r)
      <3>1. PICK o \in Outcomes : Settle(r, o)
        BY <2>5 DEF Settles
      <3> DEFINE d == IF o = "approved" THEN "allow" ELSE "deny"
      <3>2. ThisCall(r) \in Calls /\ pc[r] = "resolve" /\ o \in Codes
            /\ d \in {"allow", "deny"}
        BY <2>1, <3>1, ThisCallType DEF Settle, Gating, Codes
      <3>3. /\ verdict' = [verdict EXCEPT ![ThisCall(r)] = d]
            /\ decision' = [decision EXCEPT ![r] = d]
            /\ code' = [code EXCEPT ![r] = o]
            /\ approved' = approved \/ approved' = approved \union {ThisCall(r)}
            /\ body' = body /\ log' = log
        BY <3>1 DEF Settle
      <3>4. \/ Goto(r, "audit") /\ at' = at /\ answer' = answer
            \/ Continue(r, d)
        BY <3>1 DEF Settle
      <3> HIDE DEF d
      <3>5. /\ verdict' \in [Calls -> {"none", "allow", "deny"}]
            /\ decision' \in [Reqs -> {"none", "allow", "deny", "ask"}]
            /\ code' \in [Reqs -> Codes \union {"none"}]
            /\ approved' \subseteq Calls
            /\ decision'[r] = d /\ code'[r] = o
        BY <1>0, <3>2, <3>3 DEF TypeOK
      <3>6. /\ pc' \in [Reqs -> {"idle", "evaluate", "resolve", "audit", "emit",
                                 "forward", "stream", "copy", "observe", "done"}]
            /\ at' \in [Reqs -> 0 .. MaxMembers + 1]
            /\ answer' \in [Reqs -> {"none", "refused", "blocked", "failed",
                                     "reply", "aborted"}]
            /\ InHand(r)'
        <4>1. CASE Continue(r, d)
          BY <1>0, <2>1, <3>2, <3>3, <4>1, ContinueTypes DEF Gating
        <4>2. CASE Goto(r, "audit") /\ at' = at /\ answer' = answer
          <5>1. pc' = [pc EXCEPT ![r] = "audit"]
            BY <4>2 DEF Goto
          <5> QED
            BY <1>0, <2>1, <3>2, <3>3, <3>5, <4>2, <5>1
            DEF TypeOK, InHand, Gating, Member
        <4> QED
          BY <3>4, <4>1, <4>2
      <3> QED
        BY <1>0, <3>1, <3>3, <3>5, <3>6 DEF TypeOK, Settle
    <2>6. CASE Audit(r) \/ Emit(r)
      <3> DEFINE ev == Event(r)
                 c == ThisCall(r)
      <3>1. /\ c \in Calls /\ decision[r] \in {"allow", "deny", "ask"}
            /\ code[r] \in Codes /\ pc[r] \in Gating /\ pc[r] # "idle"
        BY <2>1, <2>6, ThisCallType DEF Audit, Emit, Gating, InHand
      <3>2. ev \in Events
        BY <3>1 DEF Event, Events
      <3>3. \/ /\ log' = log \union {ev} /\ lost' = lost
            \/ /\ log' = log /\ lost' = lost \union {c}
            \/ log' = log /\ lost' = lost
        BY <2>6 DEF Audit, Emit
      <3>4. \/ mirrored' = mirrored
            \/ mirrored' = mirrored \union {ev} /\ ev \in log
        BY <2>1, <2>6 DEF Audit, Emit, InHand
      <3>5. writing' \in Reqs \union {None}
        BY <1>0, <2>6 DEF Audit, Emit, TypeOK
      <3>6. /\ UNCHANGED <<opts, body, decision, code, result, prompting, taint,
                           verdict, approved, upstream, sending, stage, abrupt>>
        BY <2>6 DEF Audit, Emit
      <3>7. \/ AfterAudit(r)
            \/ /\ Goto(r, "done") /\ at' = at
               /\ answer' = [answer EXCEPT ![r] = "aborted"]
            \/ Goto(r, "emit") /\ at' = at /\ answer' = answer /\ ev \in log'
        BY <2>6 DEF Audit, Emit
      <3> HIDE DEF ev, c
      <3>8. /\ log' \subseteq Events /\ lost' \subseteq Calls
            /\ mirrored' \subseteq log' /\ log \subseteq log'
        BY <1>0, <3>1, <3>2, <3>3, <3>4 DEF TypeOK
      <3>9. /\ pc' \in [Reqs -> {"idle", "evaluate", "resolve", "audit", "emit",
                                 "forward", "stream", "copy", "observe", "done"}]
            /\ at' \in [Reqs -> 0 .. MaxMembers + 1]
            /\ answer' \in [Reqs -> {"none", "refused", "blocked", "failed",
                                     "reply", "aborted"}]
            /\ InHand(r)'
        <4>1. CASE Continue(r, decision[r])
          BY <1>0, <2>1, <3>1, <3>6, <4>1, ContinueTypes
        <4>2. CASE Goto(r, "resolve") /\ UNCHANGED <<at, answer>>
          <5>1. pc' = [pc EXCEPT ![r] = "resolve"]
            BY <4>2 DEF Goto
          <5> QED
            BY <1>0, <2>1, <3>1, <3>6, <4>2, <5>1 DEF TypeOK, InHand, Gating, Member
        <4>3. CASE Goto(r, "done") /\ at' = at
                   /\ answer' = [answer EXCEPT ![r] = "aborted"]
          <5>1. pc' = [pc EXCEPT ![r] = "done"]
            BY <4>3 DEF Goto
          <5> QED
            BY <1>0, <2>1, <3>1, <3>6, <4>3, <5>1 DEF TypeOK, InHand, Gating
        <4>4. CASE Goto(r, "emit") /\ at' = at /\ answer' = answer
                   /\ ev \in log'
          <5>1. pc' = [pc EXCEPT ![r] = "emit"]
            BY <4>4 DEF Goto
          <5>2. Event(r)' = ev
            BY <3>6, <4>4 DEF ev, Event, ThisCall
          <5> QED
            BY <1>0, <2>1, <3>1, <3>6, <4>4, <5>1, <5>2
            DEF TypeOK, InHand, Gating, Member
        <4> QED
          BY <3>7, <4>1, <4>2, <4>3, <4>4 DEF AfterAudit
      <3> QED
        BY <1>0, <3>5, <3>6, <3>8, <3>9 DEF TypeOK
    <2>7. CASE Forward(r) \/ Relays(r)
      <3>1. /\ pc[r] \in {"forward", "stream", "copy", "observe"}
            /\ UNCHANGED <<opts, body, at, decision, code, prompting, audit,
                           verdict, approved, sending, stage, abrupt>>
        BY <2>7 DEF Relays, Forward, Stream, EndOfBody, CopyReturns, Observe,
           Truncated
      <3>2. \E p \in {"stream", "copy", "observe", "done"} : Goto(r, p)
        BY <2>7 DEF Relays, Forward, Stream, EndOfBody, CopyReturns, Observe,
           Truncated
      <3>3. /\ pc' \in [Reqs -> {"idle", "evaluate", "resolve", "audit", "emit",
                                 "forward", "stream", "copy", "observe", "done"}]
            /\ pc'[r] \in {"stream", "copy", "observe", "done"}
        BY <1>0, <3>2 DEF TypeOK, Goto
      <3>4. /\ answer' \in [Reqs -> {"none", "refused", "blocked", "failed",
                                     "reply", "aborted"}]
            /\ upstream' \subseteq Reqs
            /\ seen' \subseteq Values /\ given' \subseteq Values
            /\ result' \in [Reqs -> Values \union {Empty, None}]
            /\ pc'[r] \in {"stream", "copy", "observe"} =>
                 result'[r] \in Values \union {Empty}
        <4>1. CASE Forward(r)
          <5>1. \/ /\ \E text \in Values \union {Empty} :
                        result' = [result EXCEPT ![r] = text]
                   /\ answer' = answer /\ pc' = [pc EXCEPT ![r] = "stream"]
                \/ /\ result' = result /\ pc' = [pc EXCEPT ![r] = "done"]
                   /\ answer' = [answer EXCEPT ![r] = "failed"]
            BY <4>1 DEF Forward, Goto
          <5>2. upstream' \subseteq Reqs /\ seen' = seen /\ given' = given
            BY <1>0, <4>1 DEF Forward, TypeOK
          <5> QED
            BY <1>0, <5>1, <5>2 DEF TypeOK
        <4>2. CASE Stream(r)
          BY <1>0, <2>1, <4>2 DEF Stream, TypeOK, Goto, InHand
        <4>3. CASE Observe(r)
          BY <1>0, <4>3 DEF Observe, Given, TypeOK, Goto
        <4>4. CASE EndOfBody(r) \/ Truncated(r)
          BY <1>0, <2>1, <4>4 DEF EndOfBody, Truncated, CopyReturns, TypeOK, Goto,
             InHand
        <4> QED
          BY <2>7, <4>1, <4>2, <4>3, <4>4 DEF Relays
      <3>6. tracked' \in [Values -> Tools \union {None}]
        <4>1. CASE Observe(r) /\ Observes(r)
          <5>1. body[r].members[1].tool \in Tools
            <6>1. body[r] \in Bodies /\ at[r] = Len(body[r].members) + 1
                  /\ body[r].form = "call"
              BY <2>1, <4>1 DEF InHand, EndOfBody, CopyReturns, Observe,
                 Observes, Single
            <6>2. 1 \in 1 .. at[r] - 1
              <7>1. Len(body[r].members) = 1
                BY <6>1, BodyShape
              <7> QED
                BY <6>1, <7>1
            <6> QED
              BY <2>1, <6>2 DEF InHand, CallMembers
          <5>2. tracked' = tracked \/ \E v \in Values :
                  tracked' = [tracked EXCEPT ![v] = body[r].members[1].tool]
            BY <4>1, HTTPAssumption DEF Observe, Observed
          <5> QED
            BY <1>0, <5>1, <5>2 DEF TypeOK
        <4>2. CASE tracked' = tracked
          BY <1>0, <4>2 DEF TypeOK
        <4> QED
          BY <2>7, <4>1, <4>2 DEF Relays, Forward, Stream, EndOfBody,
             CopyReturns, Observe, Truncated
      <3>5. InHand(r)'
        BY <2>1, <3>1, <3>3, <3>4 DEF InHand, Gating
      <3> QED
        BY <1>0, <3>1, <3>3, <3>4, <3>5, <3>6 DEF TypeOK
    <2> QED
      BY <1>2, <2>3, <2>4, <2>5, <2>6, <2>7 DEF Acts, Relays
  <1> QED
    BY <1>0, <1>1, <1>2, NextCases

(* TypeOK: every interleaving of the handlers and of the shutdown keeps    *)
(* the proxy's state, and what the clients hold, within its type.          *)
THEOREM TypeCorrect == Spec => []TypeOK
  <1>1. TypeInv => TypeOK
    BY DEF TypeInv
  <1> QED
    BY InitType, TypeStep, <1>1, PTL DEF Spec

-------------------------------------------------------------------------------
(* The life of a call: it has left no trace before its handler comes to    *)
(* it, it is allowed and recorded once the handler is past it, and Stage   *)
(* says how far it has come in between.                                    *)

Recorded(c) == c \in lost \/ \E e \in log : e.call = c

Fresh(c) ==
  /\ verdict[c] = "none" /\ c \notin approved /\ c \notin lost
  /\ \A e \in log : e.call # c

Resolving(r, c) ==
  /\ verdict[c] = "none" /\ c \notin approved /\ decision[r] = "ask"
  /\ Single(r) => ~Recorded(c)
  /\ ~Single(r) => Recorded(c)
  /\ \A e \in log : e.call = c => e.decision = "ask"

Decided(r, c) ==
  /\ decision[r] = "ask" =>
       verdict[c] = "none" /\ c \notin approved /\ ~Single(r)
  /\ decision[r] # "ask" => verdict[c] = decision[r]
  /\ Explains(Event(r))

Stage(r) ==
  LET c == ThisCall(r) IN
  /\ pc[r] \in {"evaluate", "forward", "stream", "copy", "observe"} /\ c \in Calls =>
       Fresh(c)
  /\ pc[r] = "resolve" => Resolving(r, c)
  /\ pc[r] \in {"audit", "emit"} => Decided(r, c)
  /\ pc[r] = "audit" => ~Recorded(c)
  /\ pc[r] = "done" /\ c \in Calls => verdict[c] = "none" \/ Recorded(c)

Progress(r) ==
  /\ \A k \in 1 .. MaxMembers :
       /\ k < at[r] => verdict[<<r, k>>] = "allow" /\ Recorded(<<r, k>>)
       /\ k > at[r] => Fresh(<<r, k>>)
  /\ r \in upstream => /\ pc[r] \in {"stream", "copy", "observe", "done"}
                       /\ at[r] = Len(body[r].members) + 1
  /\ Stage(r)

CallInv == (\A r \in Reqs : Progress(r)) /\ OneExplainedEvent

(* No call has an event or a verdict at first.                             *)
LEMMA InitCalls == Init => CallInv
  <1> SUFFICES ASSUME Init PROVE CallInv
    OBVIOUS
  <1>1. ASSUME NEW r \in Reqs PROVE Progress(r)
    <2>1. \A k \in 1 .. MaxMembers : <<r, k>> \in Calls
      BY DEF Calls
    <2>2. at[r] = 0 /\ pc[r] = "idle"
      BY DEF Init
    <2> QED
      BY <2>1, <2>2 DEF Init, Progress, Stage, Fresh
  <1>2. OneExplainedEvent
    BY DEF Init, OneExplainedEvent
  <1> QED
    BY <1>1, <1>2 DEF CallInv

(* A call is its request and its place in the batch.                       *)
LEMMA CallParts ==
  ASSUME NEW c \in Calls
  PROVE  /\ c[1] \in Reqs /\ c[2] \in 1 .. MaxMembers /\ c[2] \in Nat
         /\ c = <<c[1], c[2]>>
  BY HTTPAssumption DEF Calls

(* A step that leaves call c and its events alone.                         *)
SameCall(c) ==
  /\ verdict'[c] = verdict[c]
  /\ c \in approved' <=> c \in approved
  /\ c \in lost' <=> c \in lost
  /\ \A e \in log \union log' : e.call = c => (e \in log' <=> e \in log)

(* A step that leaves a call alone leaves it fresh, or recorded.           *)
LEMMA SameCallKeeps ==
  ASSUME NEW c \in Calls, SameCall(c)
  PROVE  (Fresh(c)' <=> Fresh(c)) /\ (Recorded(c)' <=> Recorded(c))
  BY DEF SameCall, Fresh, Recorded

(* A handler's step leaves alone every call but the one it has in hand.    *)
LEMMA OneCallAtATime ==
  ASSUME TypeInv, NEW r \in Reqs, Arrive(r) \/ Acts(r), NEW c \in Calls,
         pc[r] \in Gating => c # ThisCall(r)
  PROVE  SameCall(c)
  <1> USE DEF handlers, audit, taint, outcome, sending
  <1>1. verdict \in [Calls -> {"none", "allow", "deny"}]
    BY DEF TypeInv, TypeOK
  <1>2. CASE Arrive(r)
    BY <1>2 DEF Arrive, SameCall
  <1>3. CASE Evaluate(r)
    BY <1>1, <1>3 DEF Evaluate, Gating, SameCall
  <1>4. CASE Settles(r)
    <2>1. PICK o \in Outcomes : Settle(r, o)
      BY <1>4 DEF Settles
    <2>2. c # ThisCall(r)
      BY <2>1 DEF Settle, Gating
    <2>3. /\ \E d : verdict' = [verdict EXCEPT ![ThisCall(r)] = d]
          /\ approved' = approved \/ approved' = approved \union {ThisCall(r)}
          /\ lost' = lost /\ log' = log
      BY <2>1 DEF Settle
    <2> QED
      BY <1>1, <2>2, <2>3 DEF SameCall
  <1>5. CASE Audit(r) \/ Emit(r)
    <2>1. c # ThisCall(r)
      BY <1>5 DEF Audit, Emit, Gating
    <2>2. /\ log' = log \/ log' = log \union {Event(r)}
          /\ lost' = lost \/ lost' = lost \union {ThisCall(r)}
          /\ verdict' = verdict /\ approved' = approved
      BY <1>5 DEF Audit, Emit
    <2> QED
      BY <2>1, <2>2 DEF SameCall, Event
  <1>6. CASE Forward(r) \/ Relays(r)
    BY <1>6 DEF Relays, Forward, Stream, EndOfBody, CopyReturns, Observe,
       Truncated, SameCall
  <1> QED
    BY <1>2, <1>3, <1>4, <1>5, <1>6 DEF Acts, Relays

(* A request keeps its body, and only its own handler passes it on.        *)
LEMMA BodiesKept ==
  ASSUME TypeOK, NEW r \in Reqs, Arrive(r) \/ Acts(r)
  PROVE  /\ \A s \in Reqs : pc[s] # "idle" => body'[s] = body[s]
         /\ \A s \in Reqs : s # r => (s \in upstream' <=> s \in upstream)
  <1> USE DEF handlers, audit, taint, outcome, sending
  <1>1. CASE Arrive(r)
    BY <1>1 DEF Arrive, TypeOK
  <1>2. CASE Acts(r)
    BY <1>2 DEF Acts, Relays, Settles, Evaluate, Settle, Audit, Emit, Forward,
       Stream, EndOfBody, CopyReturns, Observe, Truncated
  <1> QED
    BY <1>1, <1>2

(* An event's reason stays good while its call and body stay as they are.  *)
LEMMA ExplainsKept ==
  ASSUME NEW e \in Events, SameCall(e.call), e.call[1] \in Reqs,
         body'[e.call[1]] = body[e.call[1]], Explains(e)
  PROVE  Explains(e)'
  BY DEF Explains, SameCall, Lone, Single

(* What stays true of handler s while another one moves.                   *)
LEMMA ProgressKept ==
  ASSUME TypeInv, NEW s \in Reqs, Progress(s), Untouched(s),
         s \in upstream' <=> s \in upstream,
         \A k \in 1 .. MaxMembers : SameCall(<<s, k>>)
  PROVE  Progress(s)'
  <1>1. \A k \in 1 .. MaxMembers : <<s, k>> \in Calls
    BY DEF Calls
  <1>2. \A k \in 1 .. MaxMembers :
          /\ verdict'[<<s, k>>] = verdict[<<s, k>>]
          /\ Fresh(<<s, k>>)' <=> Fresh(<<s, k>>)
          /\ Recorded(<<s, k>>)' <=> Recorded(<<s, k>>)
    BY <1>1, SameCallKeeps DEF SameCall
  <1> DEFINE c == ThisCall(s)
  <1>3. c' = c /\ Single(s)' = Single(s)
    BY DEF Untouched, ThisCall, Single
  <1>4. c \in Calls => /\ SameCall(c) /\ (Fresh(c)' <=> Fresh(c))
                       /\ (Recorded(c)' <=> Recorded(c))
    <2>1. c \in Calls => at[s] \in 1 .. MaxMembers
      BY DEF ThisCall, Calls
    <2>2. ASSUME NEW k \in 1 .. MaxMembers, k = at[s]
          PROVE  /\ SameCall(c) /\ (Fresh(c)' <=> Fresh(c))
                 /\ (Recorded(c)' <=> Recorded(c))
      <3>1. /\ SameCall(<<s, k>>) /\ (Fresh(<<s, k>>)' <=> Fresh(<<s, k>>))
            /\ (Recorded(<<s, k>>)' <=> Recorded(<<s, k>>))
        BY <1>2
      <3>2. c = <<s, k>> /\ c' = <<s, k>>
        BY <1>3, <2>2 DEF ThisCall
      <3> HIDE DEF c
      <3> QED
        BY <3>1, <3>2 DEF SameCall, Fresh, Recorded
    <2> QED
      BY <2>1, <2>2
  <1>5. pc[s] \in Gating => c \in Calls
    BY ThisCallType DEF TypeInv
  <1>6. pc[s] \in {"audit", "emit"} => (Explains(Event(s)) => Explains(Event(s))')
    <2>1. SUFFICES ASSUME pc[s] \in {"audit", "emit"}, Explains(Event(s))
                   PROVE  Explains(Event(s))'
      OBVIOUS
    <2>2. InHand(s)
      BY DEF TypeInv
    <2>3. Event(s) \in Events /\ Event(s).call = c /\ c[1] = s
      BY <1>5, <2>1, <2>2 DEF Event, Events, InHand, Gating, ThisCall
    <2>4. Event(s)' = Event(s)
      BY <1>3 DEF Event, Untouched
    <2>5. PICK e : e = Event(s) /\ e = Event(s)'
      BY <2>4
    <2>6. c \in Calls
      BY <1>5, <2>1 DEF Gating
    <2>7. /\ e \in Events /\ SameCall(e.call) /\ e.call[1] = s
          /\ body'[s] = body[s] /\ Explains(e)
      BY <1>4, <2>1, <2>3, <2>5, <2>6 DEF Untouched
    <2>8. Explains(e)'
      BY <2>7, ExplainsKept
    <2> QED
      BY <2>5, <2>8 DEF Explains
  <1>7. Stage(s)'
    <2> HIDE DEF c
    <2> QED
      BY <1>3, <1>4, <1>5, <1>6 DEF Progress, Stage, Resolving, Decided, SameCall,
         Untouched, Gating, c
  <1> QED
    BY <1>2, <1>7 DEF Progress, Untouched

(* An event in the log is of a call whose handler has come to it.          *)
LEMMA LoggedReached ==
  ASSUME TypeInv, CallInv, NEW e \in log
  PROVE  /\ e.call \in Calls /\ e.call[1] \in Reqs
         /\ pc[e.call[1]] # "idle" /\ e.call[2] <= at[e.call[1]]
  <1>1. e.call \in Calls
    BY DEF TypeInv, TypeOK, Events
  <1>2. /\ e.call[1] \in Reqs /\ e.call[2] \in 1 .. MaxMembers
        /\ e.call = <<e.call[1], e.call[2]>> /\ e.call[2] \in Nat
    BY <1>1, CallParts
  <1>3. ~Fresh(e.call)
    BY DEF Fresh
  <1>4. Progress(e.call[1]) /\ InHand(e.call[1])
    BY <1>2 DEF CallInv, TypeInv
  <1>5. ~(e.call[2] > at[e.call[1]])
    BY <1>2, <1>3, <1>4 DEF Progress
  <1>6. at[e.call[1]] \in Nat
    BY <1>2, HTTPAssumption DEF TypeInv, TypeOK
  <1>7. at[e.call[1]] >= 1
    BY <1>2, <1>5, <1>6
  <1> QED
    BY <1>1, <1>2, <1>4, <1>5, <1>6, <1>7 DEF InHand

(* It is enough to look at the events of the call in hand.                 *)
LEMMA EventsOfOneCall ==
  ASSUME TypeInv, TypeInv', CallInv, NEW r \in Reqs, Arrive(r) \/ Acts(r),
         pc[r] \in Gating =>
           /\ \A e, f \in log' : e.call = ThisCall(r) /\ f.call = ThisCall(r)
                                   => e = f
           /\ \A e \in log' : e.call = ThisCall(r) =>
                Explains(e)' /\ e.call \notin lost'
  PROVE  OneExplainedEvent'
  <1>1. ASSUME NEW e \in log', pc[r] \in Gating => e.call # ThisCall(r)
        PROVE  e \in log /\ Explains(e)' /\ e.call \notin lost'
    <2>1. e \in Events /\ e.call \in Calls
      BY DEF TypeInv, TypeOK, Events
    <2>2. SameCall(e.call)
      BY <1>1, <2>1, OneCallAtATime
    <2>3. e \in log /\ e.call \notin lost /\ Explains(e)
      BY <2>2 DEF SameCall, CallInv, OneExplainedEvent
    <2>4. e.call[1] \in Reqs /\ body'[e.call[1]] = body[e.call[1]]
      BY <2>3, LoggedReached, BodiesKept DEF TypeInv
    <2> QED
      BY <2>1, <2>2, <2>3, <2>4, ExplainsKept DEF SameCall
  <1>2. \A e, f \in log' : e.call = f.call => e = f
    BY <1>1 DEF CallInv, OneExplainedEvent
  <1>3. \A e \in log' : Explains(e)' /\ e.call \notin lost'
    BY <1>1
  <1> QED
    BY <1>2, <1>3 DEF OneExplainedEvent

(* Going on from a member that is settled and recorded.                    *)
LEMMA ContinueProgress ==
  ASSUME TypeInv, NEW r \in Reqs, pc[r] \in Gating, NEW d, Continue(r, d),
         body' = body, upstream' = upstream, Progress(r),
         NEW c, c = ThisCall(r), Recorded(c)',
         d = "allow" => verdict'[c] = "allow",
         \A k \in 1 .. MaxMembers : k # at[r] => SameCall(<<r, k>>)
  PROVE  Progress(r)'
  <1>1. /\ body[r] \in Bodies /\ at[r] \in 1 .. Len(body[r].members)
        /\ at \in [Reqs -> 0 .. MaxMembers + 1]
        /\ DOMAIN pc = Reqs
    BY DEF TypeInv, TypeOK, InHand, Gating
  <1>2. /\ Len(body[r].members) \in 0 .. MaxMembers /\ MaxMembers \in Nat
        /\ c = <<r, at[r]>>
    BY <1>1, BodyShape, HTTPAssumption DEF ThisCall
  <1>3. r \notin upstream'
    BY DEF Progress, Gating
  <1>4. \A k \in 1 .. MaxMembers : <<r, k>> \in Calls
    BY DEF Calls
  <1>5. \A k \in 1 .. MaxMembers :
          /\ k < at[r] => verdict'[<<r, k>>] = "allow" /\ Recorded(<<r, k>>)'
          /\ k > at[r] => Fresh(<<r, k>>)'
    BY <1>1, <1>2, <1>4, SameCallKeeps DEF Progress, SameCall
  <1>6. CASE d = "allow"
    <2>1. at'[r] = at[r] + 1 /\ pc'[r] = TurnTo(body[r], at[r] + 1)
      BY <1>1, <1>6 DEF Continue, NextMember, Goto
    <2>2. pc'[r] \in {"forward", "evaluate", "done"}
      BY <1>1, <1>2, <2>1, TurnToCases
    <2>4. \A k \in 1 .. MaxMembers :
            /\ k < at'[r] => verdict'[<<r, k>>] = "allow" /\ Recorded(<<r, k>>)'
            /\ k > at'[r] => Fresh(<<r, k>>)'
      BY <1>1, <1>2, <1>5, <1>6, <2>1
    <2>5. ThisCall(r)' = <<r, at[r] + 1>>
      BY <2>1 DEF ThisCall
    <2>6. ThisCall(r)' \in Calls => Fresh(ThisCall(r))'
      <3>1. SUFFICES ASSUME ThisCall(r)' \in Calls
                     PROVE  Fresh(ThisCall(r))'
        OBVIOUS
      <3>2. PICK m \in 1 .. MaxMembers : m = at[r] + 1
        BY <2>5, <3>1 DEF Calls
      <3>3. Fresh(<<r, m>>)'
        BY <1>1, <1>2, <1>5, <3>2
      <3> QED
        BY <2>5, <3>2, <3>3 DEF Fresh
    <2> QED
      BY <1>3, <2>2, <2>4, <2>6 DEF Progress, Stage, Fresh
  <1>7. CASE d # "allow"
    <2>1. at' = at /\ pc'[r] = "done"
      BY <1>1, <1>7 DEF Continue, Blocked, Goto
    <2>2. ThisCall(r)' = c
      BY <2>1 DEF ThisCall
    <2> QED
      BY <1>3, <1>5, <2>1, <2>2 DEF Progress, Stage
  <1> QED
    BY <1>6, <1>7

(* A handler touches no member but the one in hand.                        *)
LEMMA OtherMembers ==
  ASSUME TypeInv, NEW r \in Reqs, Arrive(r) \/ Acts(r),
         NEW k \in 1 .. MaxMembers, k # at[r] \/ pc[r] \notin Gating
  PROVE  SameCall(<<r, k>>)
  <1>1. <<r, k>> \in Calls /\ (k # at[r] => <<r, k>> # ThisCall(r))
    BY DEF Calls, ThisCall
  <1> QED
    BY <1>1, OneCallAtATime

(* A request arrives with every member untouched.                          *)
LEMMA ArriveProgress ==
  ASSUME TypeInv, CallInv, NEW r \in Reqs, Arrive(r)
  PROVE  Progress(r)'
  <1>1. /\ pc[r] = "idle" /\ at[r] = 0 /\ r \notin upstream
    BY DEF TypeInv, InHand, Arrive, CallInv, Progress
  <1>2. at'[r] = 1 /\ upstream' = upstream
        /\ pc'[r] \in {"evaluate", "forward", "done"}
    BY DEF TypeInv, TypeOK, Arrive, Goto, TurnTo
  <1>3. \A k \in 1 .. MaxMembers : Fresh(<<r, k>>)'
    <2>1. \A k \in 1 .. MaxMembers : <<r, k>> \in Calls /\ SameCall(<<r, k>>)
      BY <1>1, OtherMembers DEF Calls, Gating
    <2> QED
      BY <1>1, <2>1, SameCallKeeps DEF CallInv, Progress
  <1>4. ThisCall(r)' \in Calls => Fresh(ThisCall(r))'
    <2>1. ThisCall(r)' = <<r, 1>>
      BY <1>2 DEF ThisCall
    <2>2. 1 \in 1 .. MaxMembers
      BY HTTPAssumption
    <2> QED
      BY <1>3, <2>1, <2>2 DEF Fresh
  <1> QED
    BY <1>1, <1>2, <1>3, <1>4 DEF Progress, Stage, Fresh

(* Evaluate settles the member in hand or leaves it to be asked about.     *)
LEMMA EvaluateProgress ==
  ASSUME TypeInv, TypeInv', CallInv, NEW r \in Reqs, Evaluate(r)
  PROVE  Progress(r)' /\ OneExplainedEvent'
  <1>1. Acts(r) /\ pc[r] = "evaluate" /\ pc[r] \in Gating
    BY DEF Acts, Evaluate, Gating
  <1>2. PICK c \in Calls : c = ThisCall(r)
    BY <1>1, ThisCallType DEF TypeInv
  <1>3. Fresh(c) /\ r \notin upstream /\ c = <<r, at[r]>>
    BY <1>1, <1>2 DEF CallInv, Progress, Stage, ThisCall
  <1> DEFINE d == Static[Member(r).tool]
             e == IF Tainted(Member(r).arg) THEN Escalated(d) ELSE d
  <1>4. /\ decision'[r] = e /\ code'[r] = IF e = d THEN "policy" ELSE "taint"
        /\ verdict' = IF e = "ask" THEN verdict ELSE [verdict EXCEPT ![c] = e]
        /\ pc'[r] = AfterEvaluate(Single(r), e)
        /\ UNCHANGED <<body, at, log, lost, approved, upstream>>
    BY <1>2 DEF Evaluate, Goto, TypeInv, TypeOK, audit
  <1>5. e \in {"allow", "deny", "ask"} /\ (e = "allow" => d = "allow")
    <2>1. d \in {"allow", "deny", "ask"}
      BY <1>1, HTTPAssumption DEF TypeInv, InHand, CallMembers
    <2> QED
      BY <2>1 DEF Escalated
  <1>6. d = Static[body[c[1]].members[c[2]].tool]
    BY <1>3 DEF Member
  <1> HIDE DEF e, d
  <1>7. verdict'[c] = IF e = "ask" THEN "none" ELSE e
    BY <1>3, <1>4 DEF TypeInv, TypeOK, Fresh
  <1>8. ThisCall(r)' = c /\ Single(r)' = Single(r)
    BY <1>2, <1>4 DEF ThisCall, Single
  <1>9. ~Recorded(c)' /\ c \notin approved'
    BY <1>3, <1>4 DEF Fresh, Recorded
  <1>10. pc'[r] \in {"resolve", "audit"}
         /\ (pc'[r] = "resolve" <=> Single(r) /\ e = "ask")
    BY <1>4 DEF AfterEvaluate
  <1>11. pc'[r] = "audit" => Decided(r, c)'
    <2>1. SUFFICES ASSUME pc'[r] = "audit" PROVE Decided(r, c)'
      OBVIOUS
    <2>2. Event(r)' = [call |-> c, decision |-> e, code |-> code'[r]]
      BY <1>4, <1>8 DEF Event
    <2>3. e = "ask" => (c \notin Lone)'
      BY <1>3, <1>8, <1>10, <2>1 DEF Lone
    <2>4. Explains(Event(r))'
      <3>1. PICK ev : ev = Event(r)'
        OBVIOUS
      <3>2. ev.call = c /\ ev.decision = e /\ ev.code = code'[r]
        BY <2>2, <3>1
      <3>3. Explains(ev)'
        BY <1>4, <1>5, <1>6, <1>9, <2>3, <3>2 DEF Explains
      <3> QED
        BY <3>1, <3>3 DEF Explains
    <2> QED
      BY <1>4, <1>5, <1>7, <1>8, <1>9, <1>10, <2>1, <2>4 DEF Decided
  <1>12. pc'[r] = "resolve" => Resolving(r, c)'
    BY <1>4, <1>7, <1>8, <1>9, <1>10 DEF Resolving, Recorded
  <1>13. Stage(r)'
    BY <1>8, <1>9, <1>10, <1>11, <1>12 DEF Stage
  <1>14. \A k \in 1 .. MaxMembers :
           /\ k < at[r] => verdict'[<<r, k>>] = "allow" /\ Recorded(<<r, k>>)'
           /\ k > at[r] => Fresh(<<r, k>>)'
    <2>1. \A k \in 1 .. MaxMembers : k # at[r] => SameCall(<<r, k>>)
      BY <1>1, OtherMembers
    <2> QED
      BY <2>1, SameCallKeeps DEF CallInv, Progress, SameCall, Calls
  <1>15. Progress(r)'
    BY <1>3, <1>4, <1>13, <1>14 DEF Progress
  <1>16. OneExplainedEvent'
    BY <1>1, <1>2, <1>3, <1>4, EventsOfOneCall DEF Fresh
  <1> QED
    BY <1>15, <1>16

(* The approval of a call settles it, whichever way it ends.               *)
LEMMA SettleProgress ==
  ASSUME TypeInv, TypeInv', CallInv, NEW r \in Reqs, Acts(r), Settles(r)
  PROVE  Progress(r)' /\ OneExplainedEvent'
  <1>1. PICK o \in Outcomes : Settle(r, o)
    BY DEF Settles
  <1>2. pc[r] = "resolve" /\ pc[r] \in Gating
    BY <1>1 DEF Settle, Gating
  <1>3. PICK c \in Calls : c = ThisCall(r)
    BY <1>2, ThisCallType DEF TypeInv
  <1>4. Resolving(r, c) /\ r \notin upstream /\ c = <<r, at[r]>> /\ Progress(r)
    BY <1>2, <1>3 DEF CallInv, Progress, Stage, ThisCall
  <1>5. PICK d \in {"allow", "deny"} :
          d = IF o = "approved" THEN "allow" ELSE "deny"
    OBVIOUS
  <1>6. /\ decision'[r] = d /\ code'[r] = o /\ verdict'[c] = d
        /\ approved' = IF o = "approved" THEN approved \union {c} ELSE approved
        /\ UNCHANGED <<body, log, lost, upstream>>
    BY <1>1, <1>3, <1>5 DEF Settle, TypeInv, TypeOK, audit
  <1>7. \A k \in 1 .. MaxMembers : k # at[r] => SameCall(<<r, k>>)
    BY OtherMembers
  <1>8. Recorded(c)' <=> Recorded(c)
    BY <1>6 DEF Recorded
  <1>9. c \in approved' <=> d = "allow"
    BY <1>4, <1>5, <1>6 DEF Resolving
  <1>10. CASE Single(r)
    <2>1. pc'[r] = "audit" /\ at' = at
      BY <1>1, <1>10 DEF Settle, Goto, TypeInv, TypeOK
    <2>2. ThisCall(r)' = c /\ ~Recorded(c)'
      BY <1>3, <1>4, <1>8, <1>10, <2>1 DEF ThisCall, Resolving
    <2>3. Explains(Event(r))'
      <3>1. PICK ev : ev = Event(r)'
        OBVIOUS
      <3>2. ev.call = c /\ ev.decision = d /\ ev.code = o
        BY <1>6, <2>2, <3>1 DEF Event
      <3>3. Explains(ev)'
        BY <1>5, <1>9, <3>2 DEF Explains
      <3> QED
        BY <3>1, <3>3 DEF Explains
    <2>4. Stage(r)'
      BY <1>5, <1>6, <2>1, <2>2, <2>3 DEF Stage, Decided
    <2>5. Progress(r)'
      <3>1. \A k \in 1 .. MaxMembers :
              /\ k < at[r] => verdict'[<<r, k>>] = "allow" /\ Recorded(<<r, k>>)'
              /\ k > at[r] => Fresh(<<r, k>>)'
        BY <1>4, <1>7, SameCallKeeps DEF Progress, SameCall, Calls
      <3> QED
        BY <1>4, <1>6, <2>1, <2>4, <3>1 DEF Progress
    <2>6. \A e \in log' : e.call # c
      BY <1>6, <2>2 DEF Recorded
    <2>7. OneExplainedEvent'
      BY <1>3, <2>6, EventsOfOneCall
    <2> QED
      BY <2>5, <2>7
  <1>11. CASE ~Single(r)
    <2>1. Continue(r, d)
      BY <1>1, <1>5, <1>11 DEF Settle
    <2>2. Progress(r)'
      BY <1>2, <1>3, <1>4, <1>6, <1>7, <1>8, <1>11, <2>1, ContinueProgress
      DEF Resolving
    <2>3. \A e \in log' : e.call = c => e.decision = "ask"
      BY <1>4, <1>6 DEF Resolving
    <2>4. (c \notin Lone)'
      BY <1>4, <1>6, <1>11 DEF Lone, Single
    <2>5. \A e \in log' : e.call = c => Explains(e)' /\ e.call \notin lost'
      BY <1>6, <2>3, <2>4 DEF Explains, CallInv, OneExplainedEvent
    <2>6. OneExplainedEvent'
      BY <1>3, <1>6, <2>5, EventsOfOneCall DEF CallInv, OneExplainedEvent
    <2> QED
      BY <2>2, <2>6
  <1> QED
    BY <1>10, <1>11

(* Audit gives the member in hand its one event, or notes the loss.        *)
LEMMA AuditProgress ==
  ASSUME TypeInv, TypeInv', CallInv, NEW r \in Reqs, Audit(r)
  PROVE  Progress(r)' /\ OneExplainedEvent'
  <1>1. Acts(r) /\ pc[r] = "audit" /\ pc[r] \in Gating
    BY DEF Acts, Audit, Gating
  <1>2. PICK c \in Calls : c = ThisCall(r)
    BY <1>1, ThisCallType DEF TypeInv
  <1>3. /\ Decided(r, c) /\ ~Recorded(c) /\ r \notin upstream
        /\ c = <<r, at[r]>> /\ Progress(r)
    BY <1>1, <1>2 DEF CallInv, Progress, Stage, ThisCall
  <1>4. PICK ev : ev = Event(r)
    OBVIOUS
  <1>5. ev.call = c /\ ev.decision = decision[r] /\ ev.code = code[r]
    BY <1>2, <1>4 DEF Event
  <1>6. /\ UNCHANGED <<body, decision, code, verdict, approved, upstream>>
        /\ \/ log' = log \union {ev} /\ lost' = lost
           \/ log' = log /\ lost' = lost \union {c}
    BY <1>2, <1>4 DEF Audit
  <1>7. \A k \in 1 .. MaxMembers : k # at[r] => SameCall(<<r, k>>)
    BY <1>1, OtherMembers
  <1>8. Recorded(c)'
    BY <1>5, <1>6 DEF Recorded
  <1>9. \A e \in log' : e.call = c => e = ev /\ c \notin lost'
    BY <1>3, <1>6 DEF Recorded
  <1>10. Explains(ev)' /\ decision[r] \in {"allow", "deny", "ask"}
    <2>1. Explains(ev)
      BY <1>3, <1>4 DEF Decided
    <2> QED
      BY <1>1, <1>6, <2>1 DEF Explains, Lone, Single, TypeInv, InHand
  <1>11. OneExplainedEvent'
    BY <1>1, <1>2, <1>9, <1>10, EventsOfOneCall
  <1>12. CASE Continue(r, decision[r])
    BY <1>1, <1>2, <1>3, <1>6, <1>7, <1>8, <1>11, <1>12, ContinueProgress
    DEF Decided
  <1>13. CASE \/ Goto(r, "emit") /\ at' = at
              \/ decision[r] = "ask" /\ Goto(r, "resolve") /\ at' = at
    <2>1. at' = at /\ ThisCall(r)' = c /\ Single(r)' = Single(r)
      BY <1>2, <1>6, <1>13 DEF ThisCall, Single
    <2>2. \/ pc'[r] = "emit"
          \/ decision[r] = "ask" /\ pc'[r] = "resolve"
      BY <1>13 DEF Goto, TypeInv, TypeOK
    <2>3. Event(r)' = ev
      BY <1>4, <1>6, <2>1 DEF Event, ThisCall
    <2>4. Decided(r, c)'
      BY <1>3, <1>6, <1>10, <2>1, <2>3 DEF Decided, Explains
    <2>5. decision[r] = "ask" => Resolving(r, c)'
      BY <1>3, <1>5, <1>6, <1>8, <1>9, <2>1 DEF Decided, Resolving
    <2>6. Stage(r)'
      BY <1>8, <2>1, <2>2, <2>4, <2>5 DEF Stage
    <2>7. \A k \in 1 .. MaxMembers :
            /\ k < at[r] => verdict'[<<r, k>>] = "allow" /\ Recorded(<<r, k>>)'
            /\ k > at[r] => Fresh(<<r, k>>)'
      BY <1>3, <1>7, SameCallKeeps DEF Progress, SameCall, Calls
    <2> QED
      BY <1>3, <1>6, <1>11, <2>1, <2>6, <2>7 DEF Progress
  <1> QED
    BY <1>11, <1>12, <1>13 DEF Audit, AfterAudit

(* Emit passes the member on to the next stage, the last one upstream.     *)
LEMMA EmitProgress ==
  ASSUME TypeInv, TypeInv', CallInv, NEW r \in Reqs, Emit(r)
  PROVE  Progress(r)' /\ OneExplainedEvent'
  <1>1. Acts(r) /\ pc[r] = "emit" /\ pc[r] \in Gating
    BY DEF Acts, Emit, Gating
  <1>2. PICK c \in Calls : c = ThisCall(r)
    BY <1>1, ThisCallType DEF TypeInv
  <1>3. /\ Decided(r, c) /\ r \notin upstream
        /\ c = <<r, at[r]>> /\ Progress(r)
    BY <1>1, <1>2 DEF CallInv, Progress, Stage, ThisCall
  <1>4. PICK ev : ev = Event(r)
    OBVIOUS
  <1>5. ev.call = c /\ ev.decision = decision[r] /\ ev \in log
    BY <1>1, <1>2, <1>4 DEF Event, TypeInv, InHand
  <1>6. UNCHANGED <<body, decision, code, verdict, approved, upstream, log, lost>>
    BY DEF Emit
  <1>7. \A k \in 1 .. MaxMembers : k # at[r] => SameCall(<<r, k>>)
    BY <1>1, OtherMembers
  <1>8. Recorded(c)'
    BY <1>5, <1>6 DEF Recorded
  <1>9. \A e \in log' : e.call = c => e = ev
    BY <1>5, <1>6 DEF CallInv, OneExplainedEvent
  <1>10. OneExplainedEvent'
    BY <1>6 DEF CallInv, OneExplainedEvent, Explains, Lone, Single
  <1>11. CASE Continue(r, decision[r])
    BY <1>1, <1>2, <1>3, <1>6, <1>7, <1>8, <1>10, <1>11, ContinueProgress
    DEF Decided
  <1>12. CASE \/ Goto(r, "done") /\ at' = at
              \/ decision[r] = "ask" /\ Goto(r, "resolve") /\ at' = at
    <2>1. at' = at /\ ThisCall(r)' = c /\ Single(r)' = Single(r)
      BY <1>2, <1>6, <1>12 DEF ThisCall, Single
    <2>2. \/ pc'[r] = "done"
          \/ decision[r] = "ask" /\ pc'[r] = "resolve"
      BY <1>12 DEF Goto, TypeInv, TypeOK
    <2>3. decision[r] = "ask" => Resolving(r, c)'
      BY <1>3, <1>5, <1>6, <1>8, <1>9, <2>1 DEF Decided, Resolving
    <2>4. Stage(r)'
      BY <1>8, <2>1, <2>2, <2>3 DEF Stage
    <2>5. \A k \in 1 .. MaxMembers :
            /\ k < at[r] => verdict'[<<r, k>>] = "allow" /\ Recorded(<<r, k>>)'
            /\ k > at[r] => Fresh(<<r, k>>)'
      BY <1>3, <1>7, SameCallKeeps DEF Progress, SameCall, Calls
    <2> QED
      BY <1>3, <1>6, <1>10, <2>1, <2>4, <2>5 DEF Progress
  <1> QED
    BY <1>11, <1>12 DEF Emit, AfterAudit

(* Forwarding touches no member's verdict and no event.                    *)
LEMMA ForwardProgress ==
  ASSUME TypeInv, TypeInv', CallInv, NEW r \in Reqs,
         Forward(r) \/ Relays(r)
  PROVE  Progress(r)' /\ OneExplainedEvent'
  <1>1. /\ Acts(r) /\ pc[r] \in {"forward", "stream", "copy", "observe"}
        /\ pc[r] \notin Gating
        /\ \/ upstream' = upstream
           \/ upstream' = upstream \union {r} /\ pc'[r] \in {"stream", "done"}
        /\ UNCHANGED <<body, at, log, lost, verdict, approved>>
    BY DEF Acts, Relays, Forward, Stream, EndOfBody, CopyReturns, Observe,
       Truncated, Gating, Goto, audit, outcome, TypeInv, TypeOK
  <1>2. pc'[r] \in {"stream", "copy", "observe", "done"}
    BY DEF Relays, Forward, Stream, EndOfBody, CopyReturns, Observe,
       Truncated, Goto, TypeInv, TypeOK
  <1>3. Progress(r) /\ at[r] = Len(body[r].members) + 1
    BY <1>1 DEF CallInv, TypeInv, InHand
  <1>4. ThisCall(r) \in Calls => Fresh(ThisCall(r))
    BY <1>1, <1>3 DEF Progress, Stage
  <1>5. Stage(r)'
    BY <1>1, <1>2, <1>4 DEF Stage, Fresh, ThisCall
  <1>6. Progress(r)'
    BY <1>1, <1>2, <1>3, <1>5 DEF Progress, Fresh, Recorded
  <1>7. OneExplainedEvent'
    BY <1>1 DEF CallInv, OneExplainedEvent, Explains, Lone, Single
  <1> QED
    BY <1>6, <1>7

(* Every step keeps the progress of every request.                         *)
LEMMA CallStep == TypeInv /\ TypeInv' /\ CallInv /\ [Next]_vars => CallInv'
  <1> SUFFICES ASSUME TypeInv, TypeInv', CallInv, [Next]_vars PROVE CallInv'
    OBVIOUS
  <1>1. CASE ServeStep
    <2>1. \A r \in Reqs : Progress(r)'
      BY <1>1, ProgressKept DEF ServeStep, handlers, audit, outcome, CallInv,
         Untouched, SameCall
    <2> QED
      BY <1>1, <2>1 DEF ServeStep, handlers, audit, outcome, CallInv,
         OneExplainedEvent, Explains, Lone, Single
  <1>2. ASSUME NEW r \in Reqs, Arrive(r) \/ Acts(r)
        PROVE  CallInv'
    <2>1. Progress(r)' /\ OneExplainedEvent'
      <3>1. CASE Arrive(r)
        BY <3>1, ArriveProgress, EventsOfOneCall DEF Arrive, Gating
      <3>2. CASE Acts(r)
        BY <3>2, EvaluateProgress, SettleProgress, AuditProgress,
           EmitProgress, ForwardProgress DEF Acts, Relays
      <3> QED
        BY <1>2, <3>1, <3>2
    <2>2. ASSUME NEW s \in Reqs, s # r PROVE Progress(s)'
      <3>1. Untouched(s) /\ (s \in upstream' <=> s \in upstream)
        BY <1>2, <2>2, OthersUntouched, BodiesKept DEF TypeInv
      <3>2. \A k \in 1 .. MaxMembers : SameCall(<<s, k>>)
        <4>1. \A k \in 1 .. MaxMembers :
                <<s, k>> \in Calls /\ <<s, k>> # ThisCall(r)
          BY <2>2 DEF Calls, ThisCall
        <4> QED
          BY <1>2, <4>1, OneCallAtATime
      <3> QED
        BY <3>1, <3>2, ProgressKept DEF CallInv
    <2> QED
      BY <2>1, <2>2 DEF CallInv
  <1> QED
    BY <1>1, <1>2, NextCases DEF TypeInv

(* How far each request has come agrees with its events at all times.      *)
LEMMA CallInvariant == Spec => [](TypeInv /\ CallInv)
  <1> QED
    BY InitType, TypeStep, InitCalls, CallStep, PTL DEF Spec

(* OneExplainedEvent: whatever the handlers do to the writer they share, a *)
(* call has at most one event, and the event says why it was decided.      *)
THEOREM OneExplainedEventCorrect == Spec => []OneExplainedEvent
  <1>1. CallInv => OneExplainedEvent
    BY DEF CallInv
  <1> QED
    BY CallInvariant, <1>1, PTL

(* BatchAllOrNothing: a batch reaches the upstream only with every member  *)
(* allowed and accounted for, and nothing comes after a refused member.    *)
THEOREM BatchAllOrNothingCorrect == Spec => []BatchAllOrNothing
  <1>1. ASSUME TypeInv, CallInv,
               NEW r \in Reqs, body[r] # None, body[r].form = "batch"
        PROVE  /\ r \in upstream =>
                    \A c \in MembersOf(r) :
                      /\ verdict[c] = "allow"
                      /\ c \in lost \/ \E e \in log : e.call = c
               /\ \A c, d \in MembersOf(r) : verdict[c] = "deny" /\ c[2] < d[2] =>
                    verdict[d] = "none" /\ ~\E e \in log : e.call = d
    <2>1. /\ body[r] \in Bodies /\ at[r] \in Nat /\ Progress(r)
      BY <1>1, BodyShape, HTTPAssumption DEF TypeInv, TypeOK, InHand, CallInv
    <2>2. DOMAIN body[r].members = 1 .. Len(body[r].members)
          /\ Len(body[r].members) \in 0 .. MaxMembers /\ MaxMembers \in Nat
      BY <2>1, BodyShape, HTTPAssumption
    <2>3. ASSUME NEW c \in MembersOf(r)
          PROVE  \E k \in 1 .. Len(body[r].members) : c = <<r, k>> /\ c[2] = k
      BY <2>2 DEF MembersOf
    <2>4. ASSUME r \in upstream, NEW c \in MembersOf(r)
          PROVE  verdict[c] = "allow" /\ Recorded(c)
      <3>1. PICK k \in 1 .. Len(body[r].members) : c = <<r, k>>
        BY <2>3
      <3>2. k \in 1 .. MaxMembers /\ k < at[r]
        BY <2>1, <2>2, <2>4 DEF Progress
      <3> QED
        BY <2>1, <3>1, <3>2 DEF Progress
    <2>5. ASSUME NEW c \in MembersOf(r), NEW d \in MembersOf(r),
                 verdict[c] = "deny", c[2] < d[2]
          PROVE  Fresh(d)
      <3>1. PICK k \in 1 .. Len(body[r].members) : c = <<r, k>> /\ c[2] = k
        BY <2>3
      <3>2. PICK j \in 1 .. Len(body[r].members) : d = <<r, j>> /\ d[2] = j
        BY <2>3
      <3>3. k \in 1 .. MaxMembers /\ j \in 1 .. MaxMembers /\ k < j
        BY <2>2, <2>5, <3>1, <3>2
      <3>4. ~(k < at[r])
        BY <2>1, <2>5, <3>1, <3>3 DEF Progress
      <3>5. j > at[r]
        BY <2>1, <3>3, <3>4
      <3> QED
        BY <2>1, <3>2, <3>3, <3>5 DEF Progress
    <2> QED
      BY <2>4, <2>5 DEF Recorded, Fresh
  <1>2. TypeInv /\ CallInv => BatchAllOrNothing
    BY <1>1 DEF BatchAllOrNothing
  <1> QED
    BY CallInvariant, <1>2, PTL

-------------------------------------------------------------------------------
(* What the client is told.                                                *)

Told(r) ==
  /\ answer[r] = "none" <=> pc[r] \notin {"observe", "done"}
  /\ pc[r] = "observe" => answer[r] \in {"reply", "failed"}
  /\ answer[r] \in {"reply", "failed"} => at[r] = Len(body[r].members) + 1
  /\ answer[r] = "blocked" => /\ at[r] \in 1 .. Len(body[r].members)
                              /\ verdict[ThisCall(r)] = "deny"
  /\ answer[r] = "refused" =>
       \A k \in 1 .. MaxMembers : k >= at[r] => verdict[<<r, k>>] = "none"
  /\ answer[r] \in {"refused", "blocked", "aborted"} => r \notin upstream

(* A client gets the upstream's reply, or learns that it failed, only if   *)
(* every member was allowed; it is told that a policy blocked its request  *)
(* only if one was denied, and that it was refused as such only if none    *)
(* was.  What these answers rest on is in the trail, and a request that    *)
(* was not passed on is not answered as if it had been.                    *)
AnswersAgree ==
  \A r \in Reqs : pc[r] = "done" =>
    /\ answer[r] # "none"
    /\ answer[r] \in {"reply", "failed"} =>
         \A c \in MembersOf(r) : verdict[c] = "allow" /\ Recorded(c)
    /\ answer[r] = "blocked" =>
         \E c \in MembersOf(r) : verdict[c] = "deny" /\ Recorded(c)
    /\ answer[r] = "refused" => \A c \in MembersOf(r) : verdict[c] # "deny"
    /\ r \in upstream => answer[r] \in {"reply", "failed"}

(* Going on from a member answers the client if it was denied, or if the   *)
(* next is malformed.                                                      *)
LEMMA ContinueTold ==
  ASSUME TypeInv, CallInv, NEW r \in Reqs, Acts(r), pc[r] \in Gating,
         answer[r] = "none", NEW d, Continue(r, d), body' = body,
         upstream' = upstream, d # "allow" => verdict'[ThisCall(r)] = "deny"
  PROVE  Told(r)'
  <1>1. /\ body[r] \in Bodies /\ at[r] \in 1 .. Len(body[r].members)
        /\ at \in [Reqs -> 0 .. MaxMembers + 1] /\ DOMAIN pc = Reqs
        /\ DOMAIN answer = Reqs /\ Progress(r)
    BY DEF TypeInv, TypeOK, InHand, Gating, CallInv
  <1>2. Len(body[r].members) \in 0 .. MaxMembers /\ MaxMembers \in Nat
    BY <1>1, BodyShape, HTTPAssumption
  <1>3. r \notin upstream'
    BY <1>1 DEF Progress, Gating
  <1>4. \A k \in 1 .. MaxMembers : k > at[r] => verdict'[<<r, k>>] = "none"
    <2>1. ASSUME NEW k \in 1 .. MaxMembers, k > at[r]
          PROVE  verdict'[<<r, k>>] = "none"
      <3>1. Fresh(<<r, k>>) /\ SameCall(<<r, k>>)
        BY <1>1, <2>1, OtherMembers DEF Progress
      <3> QED
        BY <3>1 DEF Fresh, SameCall
    <2> QED
      BY <2>1
  <1>5. CASE d = "allow"
    <2>1. PICK next \in {"forward", "evaluate", "done"} :
            /\ pc'[r] = next /\ at'[r] = at[r] + 1
            /\ answer'[r] = IF next = "done" THEN "refused" ELSE "none"
      BY <1>1, <1>2, <1>5, TurnToCases DEF Continue, NextMember, Goto
    <2>2. \A k \in 1 .. MaxMembers : k >= at'[r] => verdict'[<<r, k>>] = "none"
      BY <1>1, <1>2, <1>4, <2>1
    <2> QED
      BY <1>3, <2>1, <2>2 DEF Told
  <1>6. CASE d # "allow"
    <2>1. pc'[r] = "done" /\ at' = at /\ answer'[r] = "blocked"
      BY <1>1, <1>6 DEF Continue, Blocked, Goto
    <2>2. ThisCall(r)' = ThisCall(r)
      BY <2>1 DEF ThisCall
    <2> QED
      BY <1>1, <1>3, <1>6, <2>1, <2>2 DEF Told
  <1> QED
    BY <1>5, <1>6

(* An arriving request is refused before anything is known of its members. *)
LEMMA ArriveTold ==
  ASSUME TypeInv, CallInv, NEW r \in Reqs, Told(r), Arrive(r)
  PROVE  Told(r)'
  <1>1. /\ pc[r] = "idle" /\ answer[r] = "none" /\ at[r] = 0 /\ Progress(r)
        /\ r \notin upstream
    BY DEF TypeInv, InHand, Arrive, CallInv, Progress, Told
  <1>2. /\ at'[r] = 1 /\ upstream' = upstream /\ verdict' = verdict
        /\ \/ pc'[r] = "done" /\ answer'[r] = "refused"
           \/ pc'[r] \in {"evaluate", "forward"} /\ answer'[r] = "none"
    BY <1>1 DEF TypeInv, TypeOK, Arrive, Goto, TurnTo
  <1>3. \A k \in 1 .. MaxMembers : verdict[<<r, k>>] = "none"
    BY <1>1 DEF Progress, Fresh
  <1> QED
    BY <1>1, <1>2, <1>3 DEF Told

(* A handler that has not finished has told its client nothing.            *)
LEMMA SilentStep ==
  ASSUME NEW r \in Reqs, answer'[r] = "none", pc'[r] \notin {"observe", "done"}
  PROVE  Told(r)'
  BY DEF Told

(* The settling of a lone call is followed by its audit, that of a batch's *)
(* member by the next member or the answer.                                *)
LEMMA GatingTold ==
  ASSUME TypeInv, CallInv, NEW r \in Reqs, Told(r),
         Evaluate(r) \/ Settles(r) \/ Audit(r) \/ Emit(r), Acts(r)
  PROVE  Told(r)'
  <1>1. /\ pc[r] \in Gating /\ answer[r] = "none" /\ body' = body
        /\ upstream' = upstream /\ Progress(r) /\ r \notin upstream
        /\ DOMAIN pc = Reqs /\ DOMAIN answer = Reqs
    BY DEF Evaluate, Settles, Settle, Audit, Emit, Gating, Told, CallInv,
       Progress, TypeInv, TypeOK
  <1>2. ThisCall(r) \in Calls
    BY <1>1, ThisCallType DEF TypeInv
  <1>3. CASE Evaluate(r)
    <2>1. answer' = answer /\ pc'[r] \in {"resolve", "audit"}
      BY <1>1, <1>3 DEF Evaluate, Goto, AfterEvaluate
    <2> QED
      BY <1>1, <2>1, SilentStep
  <1>4. CASE Settles(r)
    <2>1. PICK o \in Outcomes : Settle(r, o)
      BY <1>4 DEF Settles
    <2>2. PICK d \in {"allow", "deny"} :
            d = IF o = "approved" THEN "allow" ELSE "deny"
      OBVIOUS
    <2>3. verdict'[ThisCall(r)] = d
      BY <1>2, <2>1, <2>2 DEF Settle, TypeInv, TypeOK
    <2>4. CASE Single(r)
      <3>1. answer' = answer /\ pc'[r] = "audit"
        BY <1>1, <2>1, <2>4 DEF Settle, Goto
      <3> QED
        BY <1>1, <3>1, SilentStep
    <2>5. CASE ~Single(r)
      <3>1. Continue(r, d)
        BY <2>1, <2>2, <2>5 DEF Settle
      <3> QED
        BY <1>1, <2>3, <3>1, ContinueTold
    <2> QED
      BY <2>4, <2>5
  <1>5. CASE Audit(r) \/ Emit(r)
    <2>1. /\ verdict' = verdict /\ pc[r] \in {"audit", "emit"}
          /\ decision[r] \in {"allow", "deny", "ask"}
          /\ Decided(r, ThisCall(r))
      BY <1>1, <1>5 DEF Audit, Emit, TypeInv, InHand, Progress, Stage
    <2>2. CASE AfterAudit(r)
      <3>1. CASE decision[r] = "ask"
        <4>1. answer' = answer /\ pc'[r] = "resolve"
          BY <1>1, <2>2, <3>1 DEF AfterAudit, Goto
        <4> QED
          BY <1>1, <4>1, SilentStep
      <3>2. CASE decision[r] # "ask"
        <4>1. Continue(r, decision[r]) /\ verdict'[ThisCall(r)] = decision[r]
          BY <2>1, <2>2, <3>2 DEF AfterAudit, Decided
        <4> QED
          BY <1>1, <2>1, <3>2, <4>1, ContinueTold
      <3> QED
        BY <3>1, <3>2
    <2>3. CASE Goto(r, "emit") /\ answer' = answer
      <3>1. pc'[r] = "emit"
        BY <1>1, <2>3 DEF Goto
      <3> QED
        BY <1>1, <2>3, <3>1, SilentStep
    <2>4. CASE /\ Goto(r, "done")
               /\ answer' = [answer EXCEPT ![r] = "aborted"]
      <3>1. pc'[r] = "done" /\ answer'[r] = "aborted"
        BY <1>1, <2>4 DEF Goto
      <3> QED
        BY <1>1, <3>1 DEF Told
    <2> QED
      BY <1>5, <2>2, <2>3, <2>4 DEF Audit, Emit
  <1> QED
    BY <1>3, <1>4, <1>5

(* What is said of a request that was passed on, every member allowed.     *)
LEMMA ForwardTold ==
  ASSUME TypeInv, NEW r \in Reqs, Told(r), Forward(r) \/ Relays(r)
  PROVE  Told(r)'
  <1>1. /\ pc[r] \in {"forward", "stream", "copy", "observe"}
        /\ at[r] = Len(body[r].members) + 1
        /\ body' = body /\ at' = at
        /\ DOMAIN pc = Reqs /\ DOMAIN answer = Reqs
    BY DEF Relays, Forward, Stream, EndOfBody, CopyReturns, Observe, Truncated,
       TypeInv, TypeOK, InHand
  <1>2. CASE Forward(r) \/ Stream(r)
    <2>1. \/ pc'[r] \in {"stream", "copy"} /\ answer'[r] = "none"
          \/ pc'[r] = "done" /\ answer'[r] = "failed"
      BY <1>1, <1>2 DEF Forward, Stream, Goto, outcome, Told
    <2> QED
      BY <1>1, <2>1 DEF Told
  <1>3. CASE EndOfBody(r) \/ Truncated(r)
    <2>1. pc'[r] \in {"observe", "done"} /\ answer'[r] \in {"reply", "failed"}
      BY <1>1, <1>3 DEF EndOfBody, Truncated, CopyReturns, Goto
    <2> QED
      BY <1>1, <2>1 DEF Told
  <1>4. CASE Observe(r)
    <2>1. /\ pc'[r] = "done" /\ answer'[r] = answer[r]
          /\ answer[r] \in {"reply", "failed"}
      BY <1>1, <1>4 DEF Observe, Goto, outcome, Told
    <2> QED
      BY <1>1, <2>1 DEF Told
  <1> QED
    BY <1>2, <1>3, <1>4 DEF Relays

(* Nobody else changes what a client was told, or what that rests on.      *)
LEMMA OthersTold ==
  ASSUME TypeInv, NEW r \in Reqs, Arrive(r) \/ Acts(r),
         NEW s \in Reqs, s # r, Told(s)
  PROVE  Told(s)'
  <1> USE DEF handlers, audit, taint, outcome, sending
  <1>1. Untouched(s) /\ (s \in upstream' <=> s \in upstream)
    <2>1. TypeOK
      BY DEF TypeInv
    <2>2. \A t \in Reqs : t # r => (t \in upstream' <=> t \in upstream)
      BY <2>1, BodiesKept
    <2> QED
      BY <2>1, <2>2, OthersUntouched
  <1>2. answer'[s] = answer[s]
    <2>1. answer \in [Reqs -> {"none", "refused", "blocked", "failed", "reply",
                              "aborted"}]
      BY DEF TypeInv, TypeOK
    <2> QED
      BY <2>1 DEF Acts, Relays, Arrive, Evaluate, Settles, Settle, Audit,
         Emit, AfterAudit, Continue, NextMember, Blocked, Forward, Stream,
         EndOfBody, CopyReturns, Observe, Truncated
  <1>3. \A k \in 1 .. MaxMembers : verdict'[<<s, k>>] = verdict[<<s, k>>]
    <2>1. \A k \in 1 .. MaxMembers : <<s, k>> \in Calls /\ <<s, k>> # ThisCall(r)
      BY DEF Calls, ThisCall
    <2> QED
      BY <2>1, OneCallAtATime DEF SameCall
  <1>4. answer[s] = "blocked" => at[s] \in 1 .. MaxMembers
    <2>1. SUFFICES ASSUME answer[s] = "blocked" PROVE at[s] \in 1 .. MaxMembers
      OBVIOUS
    <2>2. pc[s] # "idle" /\ at[s] \in 1 .. Len(body[s].members)
      BY <2>1 DEF Told
    <2>3. Len(body[s].members) \in 0 .. MaxMembers /\ MaxMembers \in Nat
      BY <2>2, BodyShape, HTTPAssumption DEF TypeInv, InHand
    <2> QED
      BY <2>2, <2>3
  <1> QED
    BY <1>1, <1>2, <1>3, <1>4 DEF Told, Untouched, ThisCall

(* AnswersAgree: what each client is told agrees with the verdicts on its  *)
(* calls and with the trail, however the handlers interleave and whenever  *)
(* the proxy is stopped.                                                   *)
THEOREM AnswersAgreeCorrect == Spec => []AnswersAgree
  <1>1. Init => \A r \in Reqs : Told(r)
    BY DEF Init, Told
  <1>2. /\ TypeInv /\ CallInv /\ (\A r \in Reqs : Told(r)) /\ [Next]_vars
        => (\A r \in Reqs : Told(r))'
    <2> SUFFICES ASSUME TypeInv, CallInv, \A r \in Reqs : Told(r), [Next]_vars
                 PROVE  (\A r \in Reqs : Told(r))'
      OBVIOUS
    <2>1. CASE ServeStep
      BY <2>1 DEF ServeStep, handlers, outcome, Told, ThisCall
    <2>2. ASSUME NEW r \in Reqs, Arrive(r) \/ Acts(r)
          PROVE  \A s \in Reqs : Told(s)'
      <3>1. Told(r)'
        BY <2>2, ArriveTold, GatingTold, ForwardTold DEF Acts, Relays
      <3> QED
        BY <2>2, <3>1, OthersTold
    <2> QED
      BY <2>1, <2>2, NextCases DEF TypeInv
  <1>3. TypeInv /\ CallInv /\ (\A r \in Reqs : Told(r)) => AnswersAgree
    <2> SUFFICES ASSUME TypeInv, CallInv, NEW r \in Reqs, Told(r), pc[r] = "done"
                 PROVE  /\ answer[r] # "none"
                        /\ answer[r] \in {"reply", "failed"} =>
                             \A c \in MembersOf(r) :
                               verdict[c] = "allow" /\ Recorded(c)
                        /\ answer[r] = "blocked" =>
                             \E c \in MembersOf(r) :
                               verdict[c] = "deny" /\ Recorded(c)
                        /\ answer[r] = "refused" =>
                             \A c \in MembersOf(r) : verdict[c] # "deny"
                        /\ r \in upstream => answer[r] \in {"reply", "failed"}
      BY DEF AnswersAgree
    <2>1. /\ body[r] \in Bodies /\ at[r] \in Nat /\ Progress(r)
          /\ answer[r] \in {"none", "refused", "blocked", "failed", "reply",
                           "aborted"}
      BY HTTPAssumption DEF TypeInv, TypeOK, InHand, CallInv
    <2>2. /\ DOMAIN body[r].members = 1 .. Len(body[r].members)
          /\ Len(body[r].members) \in 0 .. MaxMembers /\ MaxMembers \in Nat
      BY <2>1, BodyShape, HTTPAssumption
    <2>3. \A c \in MembersOf(r) : \E k \in 1 .. Len(body[r].members) : c = <<r, k>>
      BY <2>2 DEF MembersOf
    <2>4. ASSUME answer[r] \in {"reply", "failed"}, NEW c \in MembersOf(r)
          PROVE  verdict[c] = "allow" /\ Recorded(c)
      <3>1. PICK k \in 1 .. Len(body[r].members) : c = <<r, k>>
        BY <2>3
      <3>2. k \in 1 .. MaxMembers /\ k < at[r]
        BY <2>2, <2>4, <3>1 DEF Told
      <3> QED
        BY <2>1, <3>1, <3>2 DEF Progress
    <2>5. ASSUME answer[r] = "blocked"
          PROVE  \E c \in MembersOf(r) : verdict[c] = "deny" /\ Recorded(c)
      <3>1. at[r] \in 1 .. Len(body[r].members) /\ verdict[ThisCall(r)] = "deny"
        BY <2>5 DEF Told
      <3>2. ThisCall(r) \in MembersOf(r) /\ ThisCall(r) \in Calls
        BY <2>2, <3>1 DEF ThisCall, MembersOf, Calls
      <3>3. Recorded(ThisCall(r))
        BY <2>1, <3>1, <3>2 DEF Progress, Stage
      <3> QED
        BY <3>1, <3>2, <3>3
    <2>6. ASSUME answer[r] = "refused", NEW c \in MembersOf(r)
          PROVE  verdict[c] # "deny"
      <3>1. PICK k \in 1 .. Len(body[r].members) : c = <<r, k>>
        BY <2>3
      <3>2. k \in 1 .. MaxMembers /\ (k < at[r] \/ k >= at[r])
        BY <2>1, <2>2, <3>1
      <3>3. verdict[<<r, k>>] \in {"allow", "none"}
        BY <2>1, <2>6, <3>2 DEF Told, Progress
      <3> QED
        BY <3>1, <3>3
    <2> QED
      BY <2>1, <2>4, <2>5, <2>6 DEF Told
  <1> QED
    BY <1>1, <1>2, <1>3, CallInvariant, PTL DEF Spec

-------------------------------------------------------------------------------
(* The gate.  For a call sent alone, Evaluate or Settle settles, Audit     *)
(* records and Forward passes; every other step stutters.                  *)

TrailOf(c) ==
  IF c \notin Lone THEN "none"
  ELSE IF c \in lost THEN "lost"
  ELSE IF Logged(c, "ask") THEN "ask"
  ELSE IF Logged(c, "allow") THEN "allow"
  ELSE IF Logged(c, "deny") THEN "deny" ELSE "none"

VerdictOf(c) == IF c \in Lone THEN verdict[c] ELSE "none"

(* Trail and verdict of the mapping, call by call.                         *)
LEMMA MappedState ==
  /\ Trail = [c \in Calls |-> TrailOf(c)]
  /\ LoneVerdict = [c \in Calls |-> VerdictOf(c)]
  BY DEF Trail, TrailOf, LoneVerdict, VerdictOf

(* The initial states are initial states of Gate.                          *)
LEMMA InitMaps == Init => G!Init
  <1> SUFFICES ASSUME Init PROVE G!Init
    OBVIOUS
  <1>1. Lone = {}
    <2>1. \A c \in Calls : body[c[1]] = None
      BY CallParts DEF Init
    <2> QED
      BY <2>1 DEF Lone
  <1>2. \A c \in Calls : TrailOf(c) = "none" /\ VerdictOf(c) = "none"
    BY <1>1 DEF TrailOf, VerdictOf
  <1> QED
    BY <1>1, <1>2, MappedState DEF G!Init, LonePassed

(* A call that is left alone maps to what it mapped to.                    *)
LEMMA SameCallMaps ==
  ASSUME NEW c \in Calls, SameCall(c), c \in Lone' <=> c \in Lone
  PROVE  TrailOf(c)' = TrailOf(c) /\ VerdictOf(c)' = VerdictOf(c)
  <1>1. \A d : Logged(c, d)' <=> Logged(c, d)
    BY DEF SameCall, Logged
  <1> QED
    BY <1>1 DEF SameCall, TrailOf, VerdictOf

(* A call nobody has touched maps to an untouched call of Gate.            *)
LEMMA FreshMaps ==
  ASSUME NEW c \in Calls, Fresh(c)
  PROVE  TrailOf(c) = "none" /\ VerdictOf(c) = "none"
  BY DEF Fresh, TrailOf, VerdictOf, Logged

(* What a step does to the gate is what it does to the one call of r.      *)
LEMMA OtherCallsMap ==
  ASSUME TypeInv, NEW r \in Reqs, Arrive(r) \/ Acts(r),
         NEW c \in Calls, c # <<r, 1>>
  PROVE  /\ c \in Lone' <=> c \in Lone
         /\ c[1] = r => c \notin Lone
         /\ c[1] # r => /\ TrailOf(c)' = TrailOf(c)
                        /\ VerdictOf(c)' = VerdictOf(c)
                        /\ c \in LonePassed' <=> c \in LonePassed
  <1>1. c[1] \in Reqs /\ c = <<c[1], c[2]>>
    BY CallParts
  <1>2. c[1] = r => c \notin Lone /\ c \notin Lone'
    BY <1>1 DEF Lone
  <1>3. c[1] # r => /\ body'[c[1]] = body[c[1]]
                    /\ c[1] \in upstream' <=> c[1] \in upstream
                    /\ c # ThisCall(r)
    BY <1>1, OthersUntouched, BodiesKept DEF Untouched, TypeInv, ThisCall
  <1>4. c \in Lone' <=> c \in Lone
    BY <1>2, <1>3 DEF Lone, Single
  <1>5. c[1] # r => SameCall(c)
    BY <1>3, OneCallAtATime
  <1> QED
    BY <1>2, <1>3, <1>4, <1>5, SameCallMaps DEF LonePassed

(* A step of a handler changes the mapped state at its lone call only.     *)
LEMMA StepMapsByOneCall ==
  ASSUME TypeInv, NEW r \in Reqs, Arrive(r) \/ Acts(r), NEW c, c = <<r, 1>>
  PROVE  /\ c \in Calls
         /\ LoneVerdict' = [LoneVerdict EXCEPT ![c] = VerdictOf(c)']
         /\ Trail' = [Trail EXCEPT ![c] = TrailOf(c)']
         /\ \A d \in Calls : d # c => (d \in LonePassed' <=> d \in LonePassed)
         /\ LonePassed \subseteq Calls /\ LonePassed' \subseteq Calls
  <1>1. c \in Calls
    BY HTTPAssumption DEF Calls
  <1>2. ASSUME NEW d \in Calls, d # c
        PROVE  /\ TrailOf(d)' = TrailOf(d) /\ VerdictOf(d)' = VerdictOf(d)
               /\ d \in LonePassed' <=> d \in LonePassed
    BY <1>2, OtherCallsMap DEF TrailOf, VerdictOf, LonePassed
  <1>3. /\ Trail' = [d \in Calls |-> TrailOf(d)']
        /\ LoneVerdict' = [d \in Calls |-> VerdictOf(d)']
    BY DEF Trail, TrailOf, LoneVerdict, VerdictOf
  <1>4. Trail' = [Trail EXCEPT ![c] = TrailOf(c)']
    BY <1>1, <1>2, <1>3, MappedState
  <1>5. LoneVerdict' = [LoneVerdict EXCEPT ![c] = VerdictOf(c)']
    BY <1>1, <1>2, <1>3, MappedState
  <1>6. LonePassed \subseteq Calls /\ LonePassed' \subseteq Calls
    BY DEF LonePassed, Lone
  <1> QED
    BY <1>1, <1>2, <1>4, <1>5, <1>6

(* A step is a stutter of the gate if it does not change what is mapped    *)
(* from r's own call.                                                      *)
LEMMA MapStutter ==
  ASSUME TypeInv, NEW r \in Reqs, Arrive(r) \/ Acts(r), NEW c, c = <<r, 1>>,
         TrailOf(c)' = TrailOf(c), VerdictOf(c)' = VerdictOf(c),
         c \in LonePassed' <=> c \in LonePassed
  PROVE  UNCHANGED <<LoneVerdict, Trail, LonePassed>>
  <1>1. /\ c \in Calls
        /\ LoneVerdict' = [LoneVerdict EXCEPT ![c] = VerdictOf(c)]
        /\ Trail' = [Trail EXCEPT ![c] = TrailOf(c)]
        /\ \A d \in Calls : d # c => (d \in LonePassed' <=> d \in LonePassed)
        /\ LonePassed \subseteq Calls /\ LonePassed' \subseteq Calls
    BY StepMapsByOneCall
  <1>2. Trail' = Trail
    BY <1>1, MappedState
  <1>3. LoneVerdict' = LoneVerdict
    BY <1>1, MappedState
  <1> QED
    BY <1>1, <1>2, <1>3

(* The call of a lone request, and where its handler may stand.            *)
LEMMA LoneCall ==
  ASSUME TypeInv, NEW r \in Reqs, body[r] # None, Single(r)
  PROVE  /\ <<r, 1>> \in Lone /\ at[r] \in 1 .. 2 /\ Len(body[r].members) = 1
         /\ pc[r] \in Gating => ThisCall(r) = <<r, 1>>
         /\ pc[r] \in {"forward", "stream", "copy", "observe"} => at[r] = 2
  <1>1. /\ body[r] \in Bodies /\ at[r] \in 1 .. Len(body[r].members) + 1
        /\ pc[r] \in Gating => at[r] <= Len(body[r].members)
        /\ pc[r] \in {"forward", "stream", "copy", "observe"} =>
             at[r] = Len(body[r].members) + 1
    BY DEF TypeInv, InHand
  <1>2. Len(body[r].members) = 1
    BY <1>1, BodyShape DEF Single
  <1>3. <<r, 1>> \in Lone
    BY HTTPAssumption DEF Lone, Calls
  <1> QED
    BY <1>1, <1>2, <1>3 DEF ThisCall

(* A request has a first member, so that its call is one of the Calls.     *)
LEMMA FirstCall ==
  \A r \in Reqs : <<r, 1>> \in Calls /\ 1 \in 1 .. MaxMembers
  BY HTTPAssumption DEF Calls

(* The step of a handler whose request is one call.                        *)
LEMMA LoneStep ==
  ASSUME TypeInv, CallInv, TypeInv', NEW r \in Reqs, Acts(r), Single(r),
         body[r] # None
  PROVE  G!Next \/ UNCHANGED <<LoneVerdict, Trail, LonePassed>>
  <1>1. PICK c \in Calls : c = <<r, 1>>
    BY FirstCall
  <1>2. c \in Lone /\ body'[r] = body[r] /\ c[1] = r /\ pc[r] # "idle"
    BY <1>1, LoneCall, BodiesKept DEF TypeInv, InHand
  <1>3. c \in Lone'
    BY <1>1, <1>2 DEF Lone, Single
  <1>4. /\ LoneVerdict' = [LoneVerdict EXCEPT ![c] = VerdictOf(c)']
        /\ Trail' = [Trail EXCEPT ![c] = TrailOf(c)']
        /\ \A d \in Calls : d # c => (d \in LonePassed' <=> d \in LonePassed)
        /\ LonePassed \subseteq Calls /\ LonePassed' \subseteq Calls
    BY <1>1, StepMapsByOneCall
  <1>5. /\ LoneVerdict[c] = verdict[c] /\ VerdictOf(c)' = verdict'[c]
        /\ Trail[c] = TrailOf(c)
        /\ c \in LonePassed <=> r \in upstream
        /\ c \in LonePassed' <=> r \in upstream'
    BY <1>1, <1>2, <1>3, MappedState DEF VerdictOf, LonePassed
  <1>6. Progress(r)
    BY DEF CallInv
  <1>7. ~Recorded(c) => TrailOf(c) = "none"
    BY DEF Recorded, TrailOf, Logged
  <1>8. /\ log' = log /\ lost' = lost => TrailOf(c)' = TrailOf(c)
        /\ Trail' = Trail <=> TrailOf(c)' = TrailOf(c)
        /\ LoneVerdict' = LoneVerdict <=> verdict'[c] = verdict[c]
    BY <1>2, <1>3, <1>4, <1>5, MappedState DEF TrailOf, Logged
  <1>9. (r \in upstream' <=> r \in upstream) => LonePassed' = LonePassed
    BY <1>4, <1>5
  <1>10. CASE Evaluate(r) \/ Settles(r)
    <2>1. /\ c = ThisCall(r) /\ verdict[c] = "none" /\ upstream' = upstream
          /\ log' = log /\ lost' = lost
      <3>1. pc[r] \in Gating /\ pc[r] \in {"evaluate", "resolve"}
            /\ upstream' = upstream /\ log' = log /\ lost' = lost
        BY <1>10 DEF Evaluate, Settles, Settle, Gating, audit
      <3>2. c = ThisCall(r)
        BY <1>1, <3>1, LoneCall
      <3> QED
        BY <1>6, <3>1, <3>2 DEF Progress, Stage, Resolving, Fresh
    <2>2. verdict'[c] \in {"none", "allow", "deny"}
      BY DEF TypeInv, TypeOK
    <2>3. Trail' = Trail /\ LonePassed' = LonePassed
      BY <1>8, <1>9, <2>1
    <2>4. CASE verdict'[c] = "none"
      BY <1>8, <2>1, <2>3, <2>4
    <2>5. CASE verdict'[c] \in {"allow", "deny"}
      BY <1>4, <1>5, <2>1, <2>3, <2>5 DEF G!Next, G!Settle, G!Final
    <2> QED
      BY <2>2, <2>4, <2>5
  <1>11. CASE Audit(r)
    <2>1. c = ThisCall(r) /\ pc[r] = "audit"
      BY <1>1, <1>11, LoneCall DEF Audit, Gating
    <2>2. /\ decision[r] \in {"allow", "deny"} /\ verdict[c] = decision[r]
          /\ ~Recorded(c)
      BY <1>6, <2>1 DEF Progress, Stage, Decided, TypeInv, InHand
    <2>3. /\ \/ log' = log \union {Event(r)} /\ lost' = lost
             \/ log' = log /\ lost' = lost \union {c}
          /\ upstream' = upstream /\ verdict' = verdict
      BY <1>11, <2>1 DEF Audit
    <2>4. Event(r).call = c /\ Event(r).decision = decision[r]
      BY <2>1 DEF Event
    <2>5. TrailOf(c)' \in {decision[r], "lost"}
      BY <1>3, <2>2, <2>3, <2>4 DEF TrailOf, Logged, Recorded
    <2>6. Trail[c] = "none" /\ LoneVerdict[c] = decision[r]
      BY <1>5, <1>7, <2>2
    <2>7. LoneVerdict' = LoneVerdict /\ LonePassed' = LonePassed
      BY <1>8, <1>9, <2>3
    <2> QED
      BY <1>4, <2>2, <2>5, <2>6, <2>7 DEF G!Next, G!Record
  <1>12. CASE Emit(r) \/ Relays(r)
    <2>1. /\ UNCHANGED <<verdict, log, lost, upstream>>
      BY <1>12 DEF Relays, Emit, Stream, EndOfBody, CopyReturns, Observe,
         Truncated, audit, outcome
    <2> QED
      BY <1>8, <1>9, <2>1
  <1>13. CASE Forward(r)
    <2>1. /\ UNCHANGED <<verdict, log, lost>> /\ pc[r] = "forward"
          /\ upstream' \in {upstream, upstream \union {r}}
      BY <1>13 DEF Forward, audit
    <2>2. 1 < at[r] /\ 1 \in 1 .. MaxMembers /\ r \notin upstream
      <3>1. 1 < at[r]
        <4>1. at[r] = 2
          BY <1>2, <2>1, LoneCall
        <4> QED
          BY <4>1
      <3>2. r \notin upstream
        BY <1>6, <2>1 DEF Progress
      <3> QED
        BY <3>1, <3>2, FirstCall
    <2>3. verdict[c] = "allow" /\ Recorded(c)
      BY <1>1, <1>6, <2>2 DEF Progress
    <2>4. TrailOf(c) # "none"
      <3>1. \A e \in log : e.decision \in {"allow", "deny", "ask"}
        BY DEF TypeInv, TypeOK, Events
      <3> QED
        BY <1>2, <2>3, <3>1 DEF Recorded, TrailOf, Logged
    <2>5. LoneVerdict' = LoneVerdict /\ Trail' = Trail
      BY <1>8, <2>1
    <2>6. CASE upstream' = upstream
      BY <1>9, <2>5, <2>6
    <2>7. CASE upstream' = upstream \union {r}
      <3>1. LonePassed' = LonePassed \union {c} /\ c \notin LonePassed
        BY <1>4, <1>5, <2>2, <2>7
      <3> QED
        BY <1>5, <2>3, <2>4, <2>5, <3>1 DEF G!Next, G!Pass
    <2> QED
      BY <2>1, <2>6, <2>7
  <1> QED
    BY <1>10, <1>11, <1>12, <1>13 DEF Acts, Relays

(* Every step is a step of Gate or leaves Gate's state alone.              *)
LEMMA MapStep ==
  TypeInv /\ TypeInv' /\ CallInv /\ CallInv' /\ [Next]_vars
    => [G!Next]_<<LoneVerdict, Trail, LonePassed>>
  <1> SUFFICES ASSUME TypeInv, TypeInv', CallInv, CallInv', [Next]_vars
               PROVE  G!Next \/ UNCHANGED <<LoneVerdict, Trail, LonePassed>>
    OBVIOUS
  <1>1. CASE ServeStep
    BY <1>1 DEF ServeStep, handlers, audit, outcome, LoneVerdict, Trail,
       LonePassed, Lone, Single, Logged
  <1>2. ASSUME NEW r \in Reqs, Arrive(r)
        PROVE  UNCHANGED <<LoneVerdict, Trail, LonePassed>>
    <2>1. PICK c \in Calls : c = <<r, 1>>
      BY FirstCall
    <2>2. /\ at[r] = 0 /\ pc[r] = "idle" /\ body[r] = None
          /\ r \notin upstream /\ upstream' = upstream
      BY <1>2 DEF TypeInv, InHand, Arrive, CallInv, Progress
    <2>3. Fresh(c)
      BY <2>1, <2>2, HTTPAssumption DEF CallInv, Progress
    <2>4. Fresh(c)'
      BY <1>2, <2>3 DEF Arrive, Fresh, audit
    <2>5. TrailOf(c)' = "none" /\ VerdictOf(c)' = "none"
      BY <2>4 DEF Fresh, TrailOf, VerdictOf, Logged
    <2>6. c \notin LonePassed /\ c \notin LonePassed'
      BY <2>1, <2>2 DEF LonePassed
    <2> QED
      BY <1>2, <2>1, <2>3, <2>5, <2>6, FreshMaps, MapStutter
  <1>3. ASSUME NEW r \in Reqs, Acts(r)
        PROVE  G!Next \/ UNCHANGED <<LoneVerdict, Trail, LonePassed>>
    <2>1. pc[r] # "idle" /\ body[r] # None
      <3>1. pc[r] # "idle"
        BY <1>3 DEF Acts, Relays, Settles, Evaluate, Settle, Audit, Emit,
           Forward, Stream, EndOfBody, CopyReturns, Observe, Truncated
      <3> QED
        BY <3>1, BodyShape DEF TypeInv, InHand
    <2>2. CASE Single(r)
      BY <1>3, <2>1, <2>2, LoneStep
    <2>3. CASE ~Single(r)
      <3>1. PICK c \in Calls : c = <<r, 1>>
        BY FirstCall
      <3>2. body'[r] = body[r]
        BY <1>3, <2>1, BodiesKept DEF TypeInv
      <3>3. c \notin Lone /\ c \notin Lone'
        BY <2>3, <3>1, <3>2 DEF Lone, Single
      <3> QED
        BY <1>3, <3>1, <3>3, MapStutter DEF TrailOf, VerdictOf, LonePassed
    <2> QED
      BY <2>2, <2>3
  <1> QED
    BY <1>1, <1>2, <1>3, NextCases DEF TypeInv

(* GateSpec: for calls sent alone, concurrent handlers implement the gate  *)
(* the stdio proxy implements, up to and through a shutdown.               *)
THEOREM Refinement == Spec => GateSpec
  <1>1. Init => G!Init
    BY InitMaps
  <1>2. TypeInv /\ TypeInv' /\ CallInv /\ CallInv' /\ [Next]_vars
          => [G!Next]_G!vars
    BY MapStep DEF G!vars
  <1> QED
    BY <1>1, <1>2, CallInvariant, PTL DEF Spec, GateSpec, G!Spec

-------------------------------------------------------------------------------
(* Taint.  The tracker only grows, so that a value whose handler returned  *)
(* is tracked, or was found when the tracker was full, ever after; a       *)
(* call that was let through as it was, or waits for the operator under    *)
(* --taint deny, was clean when it was evaluated and still is.             *)

Fragments == {v \in Values : tracked[v] # None}

GivenTracked ==
  /\ IsFiniteSet(Fragments)
  /\ opts.taint # "off" =>
       \A v \in given \intersect Trackable : tracked[v] # None \/ Full
  /\ \A r \in Reqs : known[r] \subseteq given

Argument(c) == body[c[1]].members[c[2]].arg

Clean(c) ==
  /\ opts.taint # "off"
  /\ Argument(c) \in known[c[1]] \intersect Trackable
  => Full

Cleared(c) ==
  verdict[c] = "allow" /\ ~(opts.taint = "escalate" /\ c \in approved) => Clean(c)

AskedClean(r) ==
  /\ pc[r] \in {"resolve", "audit", "emit"} /\ decision[r] = "ask"
  /\ opts.taint = "deny"
  => Clean(ThisCall(r))

TaintInv ==
  /\ GivenTracked
  /\ \A r \in Reqs : AskedClean(r)
  /\ \A c \in Calls : Cleared(c)

(* No client has received anything at first.                               *)
LEMMA InitTaint == Init => TaintInv
  <1> SUFFICES ASSUME Init PROVE TaintInv
    OBVIOUS
  <1>1. Fragments = {} /\ given = {}
    BY DEF Init, Fragments
  <1>2. GivenTracked
    BY <1>1, FS_EmptySet DEF Init, GivenTracked
  <1> QED
    BY <1>2 DEF Init, TaintInv, AskedClean, Cleared

(* A step that leaves the tracker alone, or enters a value it did not hold. *)
LEMMA TrackerSteps ==
  ASSUME TypeInv, [Next]_vars
  PROVE  \/ tracked' = tracked
         \/ \E v \in Values, t \in Tools :
              tracked' = [tracked EXCEPT ![v] = t]
  <1> USE DEF handlers, audit, taint, outcome, sending
  <1>0. TypeOK
    BY DEF TypeInv
  <1>1. ASSUME NEW r \in Reqs, Observe(r), Observes(r)
        PROVE  \/ tracked' = tracked
               \/ \E v \in Values, t \in Tools :
                    tracked' = [tracked EXCEPT ![v] = t]
    <2>1. tracked' = Observed(body[r].members[1].tool, result[r])
          /\ pc[r] = "observe"
      BY <1>1 DEF Observe
    <2>2. body[r].members[1].tool \in Tools
      <3>1. body[r] \in Bodies /\ at[r] = Len(body[r].members) + 1
            /\ \A k \in 1 .. at[r] - 1 : body[r].members[k] \in CallMembers
        BY <2>1 DEF TypeInv, InHand
      <3>2. Len(body[r].members) = 1
        BY <1>1, <3>1, BodyShape DEF Observes, Single
      <3>3. at[r] - 1 = 1
        BY <3>1, <3>2
      <3>4. body[r].members[1] \in CallMembers
        BY <3>1, <3>3
      <3> QED
        BY <3>4 DEF CallMembers
    <2> QED
      BY <2>1, <2>2, HTTPAssumption DEF Observed
  <1>2. ASSUME NEW r \in Reqs, Acts(r), ~(Observe(r) /\ Observes(r))
        PROVE  tracked' = tracked
    BY <1>2 DEF Acts, Relays, Settles, Evaluate, Settle, Audit, Emit, Forward,
       Stream, EndOfBody, CopyReturns, Observe, Truncated
  <1> QED
    BY <1>0, <1>1, <1>2, NextCases DEF ServeStep, Arrive

(* The tracker forgets nothing and stays full once full.                   *)
LEMMA TrackerGrows ==
  ASSUME TypeInv, GivenTracked, [Next]_vars
  PROVE  /\ IsFiniteSet(Fragments)'
         /\ \A v \in Values : tracked[v] # None => tracked'[v] # None
         /\ Full => Full'
  <1>1. tracked \in [Values -> Tools \union {None}] /\ None \notin Tools
        /\ MaxTracked \in Nat /\ IsFiniteSet(Fragments)
    BY HTTPAssumption DEF TypeInv, TypeOK, GivenTracked
  <1>2. CASE tracked' = tracked
    BY <1>1, <1>2 DEF Fragments, Full
  <1>3. CASE \E v \in Values, t \in Tools : tracked' = [tracked EXCEPT ![v] = t]
    <2>1. PICK v \in Values : \E t \in Tools : tracked' = [tracked EXCEPT ![v] = t]
      BY <1>3
    <2>2. Fragments' = Fragments \union {v}
      BY <1>1, <2>1 DEF Fragments
    <2>3. IsFiniteSet(Fragments') /\ Fragments \subseteq Fragments'
      BY <1>1, <2>2, FS_AddElement
    <2>4. Cardinality(Fragments) <= Cardinality(Fragments')
          /\ Cardinality(Fragments) \in Nat /\ Cardinality(Fragments') \in Nat
      BY <1>1, <2>3, FS_Subset, FS_CardinalityType
    <2>5. Full <=> Cardinality(Fragments) >= MaxTracked
      BY DEF Full, Fragments
    <2>6. Full' <=> Cardinality(Fragments') >= MaxTracked
      BY DEF Full, Fragments
    <2>7. \A u \in Values : tracked[u] # None => tracked'[u] # None
      BY <1>1, <2>1
    <2> QED
      BY <1>1, <2>3, <2>4, <2>5, <2>6, <2>7
  <1> QED
    BY <1>2, <1>3, TrackerSteps

(* What the clients were given by the return of a handler is tracked.      *)
LEMMA GivenStep ==
  ASSUME TypeInv, GivenTracked, [Next]_vars
  PROVE  GivenTracked' /\ opts' = opts
  <1> USE DEF handlers, audit, taint, outcome, sending
  <1>0. /\ TypeOK /\ opts' = opts /\ IsFiniteSet(Fragments)' /\ (Full => Full')
        /\ \A v \in Values : tracked[v] # None => tracked'[v] # None
        /\ Trackable \subseteq Values /\ None \notin Tools
    <2>1. opts' = opts
      BY NextCases DEF Acts, Relays, TypeInv, ServeStep, Arrive, Settles,
         Evaluate, Settle, Audit, Emit, Forward, Stream, EndOfBody,
         CopyReturns, Observe, Truncated
    <2> QED
      BY <2>1, TrackerGrows, HTTPAssumption DEF TypeInv
  <1>1. CASE UNCHANGED <<given, known>>
    BY <1>0, <1>1 DEF GivenTracked
  <1>2. ASSUME NEW r \in Reqs, Arrive(r)
        PROVE  GivenTracked'
    <2>1. given' = given /\ \A s \in Reqs : known'[s] \in {known[s], given}
      BY <1>0, <1>2 DEF Arrive, TypeOK
    <2> QED
      BY <1>0, <2>1 DEF GivenTracked
  <1>3. ASSUME NEW r \in Reqs, Observe(r)
        PROVE  GivenTracked'
    <2>1. /\ known' = known /\ pc[r] = "observe"
          /\ given' \subseteq given \union ({result[r]} \intersect Values)
          /\ given \subseteq given'
      BY <1>3 DEF Observe, Given
    <2>2. ASSUME opts.taint # "off", NEW v \in given' \intersect Trackable
          PROVE  tracked'[v] # None \/ Full'
      <3>1. CASE v \in given
        BY <1>0, <2>2, <3>1 DEF GivenTracked
      <3>2. CASE v \notin given
        <4>1. v = result[r] /\ Single(r) /\ v \in Values
          BY <1>3, <2>2, <3>2 DEF Observe, Given
        <4>2. Observes(r)
          BY <2>2, <4>1 DEF Observes
        <4>3. tracked' = Observed(body[r].members[1].tool, v)
          BY <1>3, <4>1, <4>2 DEF Observe
        <4>4. CASE tracked[v] # None \/ Full
          BY <1>0, <4>1, <4>4
        <4>5. CASE tracked[v] = None /\ ~Full
          <5>1. tracked' = [tracked EXCEPT ![v] = body[r].members[1].tool]
            BY <2>2, <4>3, <4>5 DEF Observed
          <5>2. body[r].members[1] \in CallMembers
            <6>1. body[r] \in Bodies /\ at[r] = Len(body[r].members) + 1
                  /\ \A k \in 1 .. at[r] - 1 : body[r].members[k] \in CallMembers
              BY <2>1 DEF TypeInv, InHand
            <6>2. Len(body[r].members) = 1
              BY <4>1, <6>1, BodyShape DEF Single
            <6>3. at[r] - 1 = 1
              BY <6>1, <6>2
            <6> QED
              BY <6>1, <6>3
          <5> QED
            BY <1>0, <4>1, <5>1, <5>2 DEF CallMembers, TypeOK
        <4> QED
          BY <4>4, <4>5
      <3> QED
        BY <3>1, <3>2
    <2>3. \A s \in Reqs : known'[s] \subseteq given'
      BY <2>1 DEF GivenTracked
    <2> QED
      BY <1>0, <2>2, <2>3 DEF GivenTracked
  <1>4. ASSUME NEW r \in Reqs, Acts(r), ~Observe(r)
        PROVE  UNCHANGED <<given, known>>
    BY <1>4 DEF Acts, Relays, Settles, Evaluate, Settle, Audit, Emit, Forward,
       Stream, EndOfBody, Truncated, CopyReturns
  <1> QED
    BY <1>0, <1>1, <1>2, <1>3, <1>4, NextCases DEF ServeStep

(* What was clean stays so: the tracker is never emptied.                  *)
LEMMA CleanKept ==
  ASSUME NEW c, Clean(c), opts' = opts, Full => Full',
         body'[c[1]] = body[c[1]], known'[c[1]] = known[c[1]]
  PROVE  Clean(c)'
  BY DEF Clean, Argument

(* A call the tracker does not flag is clean.                              *)
LEMMA UntaintedClean ==
  ASSUME GivenTracked, NEW r \in Reqs, NEW c, c = ThisCall(r),
         ~Tainted(Member(r).arg)
  PROVE  Clean(c)
  <1>1. Argument(c) = Member(r).arg /\ c[1] = r
    BY DEF Argument, Member, ThisCall
  <1> QED
    BY <1>1 DEF GivenTracked, Clean, Tainted

(* A call that is allowed, or asked about under --taint deny, when it is   *)
(* evaluated was not flagged.                                              *)
LEMMA EvaluateTaint ==
  ASSUME TypeInv, CallInv, GivenTracked, NEW r \in Reqs, Evaluate(r),
         NEW c \in Calls, c = ThisCall(r), Clean(c) => Clean(c)'
  PROVE  AskedClean(r)' /\ Cleared(c)'
  <1>1. /\ pc[r] = "evaluate" /\ c = ThisCall(r)' /\ opts' = opts
        /\ decision \in [Reqs -> {"none", "allow", "deny", "ask"}]
        /\ verdict \in [Calls -> {"none", "allow", "deny"}]
    BY DEF Evaluate, ThisCall, TypeInv, TypeOK
  <1>2. verdict[c] = "none"
    BY <1>1 DEF CallInv, Progress, Stage, Fresh
  <1>3. CASE ~Tainted(Member(r).arg)
    <2>1. Clean(c)'
      BY <1>3, UntaintedClean
    <2> QED
      BY <1>1, <2>1 DEF AskedClean, Cleared
  <1>4. CASE Tainted(Member(r).arg)
    <2>1. PICK e : e = Escalated(Static[Member(r).tool])
      OBVIOUS
    <2>2. /\ decision'[r] = e
          /\ verdict' = IF e = "ask" THEN verdict ELSE [verdict EXCEPT ![c] = e]
      BY <1>1, <1>4, <2>1 DEF Evaluate
    <2>3. e # "allow" /\ (opts.taint = "deny" => e = "deny")
      BY <2>1 DEF Escalated
    <2>4. verdict'[c] # "allow"
      BY <1>1, <1>2, <2>2, <2>3
    <2> QED
      BY <1>1, <2>2, <2>3, <2>4 DEF AskedClean, Cleared
  <1> QED
    BY <1>3, <1>4

(* An operator's approval lets through a call that was clean when asked    *)
(* about, or under --taint escalate.                                       *)
LEMMA SettleTaint ==
  ASSUME TypeInv, CallInv, NEW r \in Reqs, AskedClean(r), Settles(r),
         NEW c \in Calls, c = ThisCall(r), Clean(c) => Clean(c)'
  PROVE  AskedClean(r)' /\ Cleared(c)'
  <1>1. PICK o \in Outcomes : Settle(r, o)
    BY DEF Settles
  <1>2. /\ pc[r] = "resolve" /\ opts' = opts
        /\ decision \in [Reqs -> {"none", "allow", "deny", "ask"}]
        /\ verdict \in [Calls -> {"none", "allow", "deny"}]
    BY <1>1 DEF Settle, TypeInv, TypeOK
  <1>3. decision[r] = "ask"
    BY <1>2 DEF CallInv, Progress, Stage, Resolving
  <1>4. decision'[r] # "ask"
    BY <1>1, <1>2 DEF Settle
  <1>5. verdict'[c] = "allow" => c \in approved'
    BY <1>1, <1>2 DEF Settle
  <1>6. opts.taint \in {"off", "escalate", "deny"}
    BY <1>2, HTTPAssumption DEF AllConfigs, TypeInv, TypeOK
  <1>7. CASE opts.taint = "deny"
    BY <1>2, <1>3, <1>4, <1>7 DEF AskedClean, Cleared
  <1>8. CASE opts.taint = "escalate"
    BY <1>2, <1>4, <1>5, <1>8 DEF AskedClean, Cleared
  <1>9. CASE opts.taint = "off"
    BY <1>2, <1>4, <1>9 DEF AskedClean, Cleared, Clean
  <1> QED
    BY <1>6, <1>7, <1>8, <1>9

(* The writer leaves the handler at its member, or done with it.           *)
LEMMA AuditMoves ==
  ASSUME TypeInv, NEW r \in Reqs, Audit(r) \/ Emit(r)
  PROVE  pc'[r] \in {"resolve", "audit", "emit"} => at' = at
  <1>1. CASE AfterAudit(r)
    <2>1. CASE decision[r] = "ask"
      BY <1>1, <2>1 DEF AfterAudit
    <2>2. CASE decision[r] # "ask"
      <3>1. Continue(r, decision[r]) /\ body' = body /\ pc[r] \in Gating
        BY <1>1, <2>2 DEF AfterAudit, Audit, Emit, Gating
      <3>2. pc'[r] \in {"evaluate", "forward", "done"}
        BY <3>1, ContinueTypes DEF TypeInv
      <3> QED
        BY <3>2
    <2> QED
      BY <2>1, <2>2
  <1>2. CASE at' = at
    BY <1>2
  <1>3. CASE pc'[r] = "done"
    BY <1>3
  <1> QED
    BY <1>1, <1>2, <1>3 DEF Audit, Emit, Goto, TypeInv, TypeOK

(* A text is observed before its handler returns, whichever handler it is. *)
LEMMA TaintStep ==
  TypeInv /\ TypeInv' /\ CallInv /\ TaintInv /\ [Next]_vars => TaintInv'
  <1> SUFFICES ASSUME TypeInv, TypeInv', CallInv, TaintInv, [Next]_vars
               PROVE  TaintInv'
    OBVIOUS
  <1> USE DEF handlers, audit, taint, outcome, sending
  <1>0. /\ TypeOK /\ GivenTracked /\ GivenTracked' /\ opts' = opts
        /\ (Full => Full')
    BY GivenStep, TrackerGrows DEF TypeInv, TaintInv
  <1>1. CASE ServeStep
    <2>1. \A c : Clean(c)' <=> Clean(c)
      BY <1>1 DEF ServeStep, Clean, Argument, Full
    <2>2. \A r \in Reqs : AskedClean(r)'
      BY <1>1, <2>1 DEF ServeStep, TaintInv, AskedClean, ThisCall, Clean,
         Argument, Full
    <2>3. \A c \in Calls : Cleared(c)'
      BY <1>1, <2>1 DEF ServeStep, TaintInv, Cleared
    <2> QED
      BY <1>0, <2>2, <2>3 DEF TaintInv
  <1>2. ASSUME NEW r \in Reqs, Arrive(r) \/ Acts(r)
        PROVE  TaintInv'
    <2>1. \A s \in Reqs : pc[s] # "idle" =>
            body'[s] = body[s] /\ known'[s] = known[s]
      <3>1. CASE Arrive(r)
        BY <1>0, <3>1, BodiesKept DEF Arrive, TypeOK
      <3>2. CASE Acts(r)
        BY <1>0, <3>2, BodiesKept DEF Acts, Relays, Settles, Evaluate, Settle,
           Audit, Emit, Forward, Stream, EndOfBody, CopyReturns, Observe,
           Truncated
      <3> QED
        BY <1>2, <3>1, <3>2
    <2>2. ASSUME NEW s \in Reqs, s # r
          PROVE  AskedClean(s)'
      <3>1. Untouched(s)
        BY <1>0, <1>2, <2>2, OthersUntouched
      <3>2. CASE pc[s] = "idle"
        BY <3>1, <3>2 DEF Untouched, AskedClean
      <3>3. CASE pc[s] # "idle"
        <4>1. PICK c : c = ThisCall(s)
          OBVIOUS
        <4>2. c = ThisCall(s)' /\ c[1] = s
          BY <3>1, <4>1 DEF Untouched, ThisCall
        <4>3. Clean(c) => Clean(c)'
          BY <1>0, <2>1, <3>3, <4>2, CleanKept
        <4> QED
          BY <1>0, <3>1, <4>1, <4>2, <4>3 DEF TaintInv, AskedClean, Untouched
      <3> QED
        BY <3>2, <3>3
    <2>3. ASSUME NEW c \in Calls, SameCall(c)
          PROVE  Cleared(c)'
      <3>1. c[1] \in Reqs /\ c[2] \in 1 .. MaxMembers /\ c = <<c[1], c[2]>>
        BY CallParts
      <3>2. CASE pc[c[1]] = "idle"
        <4>1. Fresh(c)
          <5>1. at[c[1]] = 0 /\ Progress(c[1])
            BY <3>1, <3>2 DEF TypeInv, InHand, CallInv
          <5> QED
            BY <3>1, <5>1 DEF Progress
        <4> QED
          BY <2>3, <4>1 DEF SameCall, Fresh, Cleared
      <3>3. CASE pc[c[1]] # "idle"
        <4>1. Clean(c) => Clean(c)'
          BY <1>0, <2>1, <3>1, <3>3, CleanKept
        <4> QED
          BY <1>0, <2>3, <4>1 DEF TaintInv, Cleared, SameCall
      <3> QED
        BY <3>2, <3>3
    <2>4. /\ AskedClean(r)'
          /\ \A c \in Calls : pc[r] \in Gating /\ c = ThisCall(r) => Cleared(c)'
      <3>1. CASE pc[r] \notin Gating
        <4>1. pc'[r] \notin {"resolve", "audit", "emit"}
          BY <1>0, <1>2, <3>1 DEF Acts, Relays, Gating, Arrive, TurnTo, Goto,
             Evaluate, Settles, Settle, Audit, Emit, Forward, Stream,
             EndOfBody, CopyReturns, Observe, Truncated, TypeOK
        <4> QED
          BY <3>1, <4>1 DEF AskedClean
      <3>2. CASE pc[r] \in Gating
        <4>1. PICK c \in Calls : c = ThisCall(r)
          BY <3>2, ThisCallType DEF TypeInv
        <4>2. c[1] = r /\ (Clean(c) => Clean(c)')
          BY <1>0, <2>1, <3>2, <4>1, CleanKept DEF Gating, ThisCall
        <4>3. Acts(r)
          BY <1>2, <3>2 DEF Arrive, Gating
        <4>4. CASE Evaluate(r)
          BY <1>0, <4>1, <4>2, <4>4, EvaluateTaint DEF TaintInv
        <4>5. CASE Settles(r)
          BY <1>0, <4>1, <4>2, <4>5, SettleTaint DEF TaintInv
        <4>6. CASE Audit(r) \/ Emit(r)
          <5>1. /\ verdict' = verdict /\ approved' = approved /\ decision' = decision
                /\ pc[r] \in {"audit", "emit"}
            BY <4>6 DEF Audit, Emit
          <5>2. pc'[r] \in {"resolve", "audit", "emit"} => at' = at
            BY <1>0, <4>6, <5>1, AuditMoves DEF TypeInv
          <5> QED
            BY <1>0, <4>1, <4>2, <5>1, <5>2 DEF TaintInv, AskedClean, Cleared,
               ThisCall
        <4>7. ~Forward(r) /\ ~Relays(r)
          BY <3>2 DEF Relays, Gating, Forward, Stream, EndOfBody, CopyReturns,
             Observe, Truncated
        <4> QED
          BY <4>1, <4>3, <4>4, <4>5, <4>6, <4>7 DEF Acts, Relays
      <3> QED
        BY <3>1, <3>2
    <2>5. \A c \in Calls : Cleared(c)'
      BY <1>2, <2>3, <2>4, OneCallAtATime
    <2> QED
      BY <1>0, <2>2, <2>4, <2>5 DEF TaintInv
  <1> QED
    BY <1>0, <1>1, <1>2, NextCases

(* OverResultsTaint: until the tracker is full, no call is let through on  *)
(* the policy's word with a value of a parsed response whose handler had   *)
(* returned when the call was sent, whichever handler that was.            *)
THEOREM OverResultsTaintCorrect == Spec => []OverResultsTaint
  <1>1. TypeInv /\ TypeInv' /\ CallInv /\ TaintInv /\ [Next]_vars => TaintInv'
    BY TaintStep
  <1>2. TaintInv => OverResultsTaint
    <2>1. ASSUME TaintInv, NEW c \in Calls, LetThrough(c)
          PROVE  body[c[1]].members[c[2]].arg \notin known[c[1]]
      BY <2>1 DEF TaintInv, Cleared, Clean, Argument, LetThrough
    <2> QED
      BY <2>1 DEF OverResultsTaint
  <1> QED
    BY <1>1, <1>2, InitTaint, CallInvariant, PTL DEF Spec

-------------------------------------------------------------------------------
(* The shutdown.  A Serve that left no handler running leaves them idle    *)
(* for good, and only a handler inside the writer has an event the sink    *)
(* was not handed.                                                         *)

DrainInv ==
  /\ stage \in {"serving", "draining"} => ~abrupt
  /\ stage \notin {"serving", "draining"} /\ ~abrupt => \A r \in Reqs : Idle(r)
  /\ opts.sink /\ ~abrupt =>
       \A e \in log \ mirrored :
         pc[e.call[1]] = "emit" /\ e = Event(e.call[1])

(* A proxy that serves has closed nothing.                                 *)
LEMMA InitDrain == Init => DrainInv
  BY DEF Init, DrainInv

(* No handler moves once Serve has left them all idle.                     *)
LEMMA MovesWhileServing ==
  ASSUME DrainInv, ~abrupt, NEW r \in Reqs, Arrive(r) \/ Acts(r)
  PROVE  stage \in {"serving", "draining"} /\ stage' = stage /\ abrupt' = abrupt
  <1>1. CASE Arrive(r)
    BY <1>1 DEF Arrive
  <1>2. CASE Acts(r)
    BY <1>2 DEF Acts, Relays, Evaluate, Settles, Settle, Audit, Emit, Forward,
       Stream, EndOfBody, CopyReturns, Observe, Truncated, DrainInv, Idle
  <1> QED
    BY <1>1, <1>2

(* After a drained shutdown no handler is left that could write.           *)
LEMMA DrainStep == TypeInv /\ DrainInv /\ [Next]_vars => DrainInv'
  <1> SUFFICES ASSUME TypeInv, DrainInv, [Next]_vars
               PROVE  DrainInv'
    OBVIOUS
  <1> USE DEF handlers, audit, taint, outcome, sending
  <1>1. ASSUME NEW r \in Reqs, Arrive(r) \/ Acts(r)
        PROVE  DrainInv'
    <2>0. TypeOK
      BY DEF TypeInv
    <2>1. CASE abrupt
      <3>1. stage' = stage /\ abrupt' = abrupt
        BY <1>1 DEF Acts, Relays, Arrive, Evaluate, Settles, Settle, Audit,
           Emit, Forward, Stream, EndOfBody, CopyReturns, Observe, Truncated
      <3> QED
        BY <2>1, <3>1 DEF DrainInv
    <2>2. CASE ~abrupt
      <3>1. stage \in {"serving", "draining"} /\ stage' = stage /\ abrupt' = abrupt
        BY <1>1, <2>2, MovesWhileServing
      <3>2. opts' = opts
        BY <1>1 DEF Acts, Relays, Arrive, Evaluate, Settles, Settle, Audit,
           Emit, Forward, Stream, EndOfBody, CopyReturns, Observe, Truncated
      <3>3. ASSUME opts.sink, NEW e \in log' \ mirrored'
            PROVE  pc'[e.call[1]] = "emit" /\ e = Event(e.call[1])'
        <4>1. PICK s : s = e.call[1]
          OBVIOUS
        <4>2. s \in Reqs
          <5>1. log' \subseteq Events
            BY <1>1, <2>0, TypeStep DEF TypeInv, TypeOK
          <5> QED
            BY <3>3, <4>1, <5>1 DEF Events, Calls
        <4>3. Event(r).call[1] = r
          BY DEF Event, ThisCall
        <4>4. CASE s # r
          <5>1. Untouched(s)
            BY <1>1, <2>0, <4>2, <4>4, OthersUntouched
          <5>2. e \in log \ mirrored
            BY <1>1, <3>3, <4>1, <4>3, <4>4 DEF Acts, Relays, Arrive,
               Evaluate, Settles, Settle, Audit, Emit, Forward, Stream,
               EndOfBody, CopyReturns, Observe, Truncated
          <5> QED
            BY <2>2, <3>3, <4>1, <5>1, <5>2 DEF DrainInv, Untouched, Event,
               ThisCall
        <4>5. CASE s = r
          <5>1. CASE Audit(r)
            <6>1. pc[r] = "audit" /\ mirrored' = mirrored
              BY <5>1 DEF Audit
            <6>2. e \notin log
              BY <2>2, <3>3, <4>1, <4>5, <6>1 DEF DrainInv
            <6>3. e = Event(r) /\ pc' = [pc EXCEPT ![r] = "emit"] /\ at' = at
                  /\ decision' = decision /\ code' = code
              BY <3>3, <5>1, <6>2 DEF Audit, Goto
            <6> QED
              BY <2>0, <4>1, <4>5, <6>3 DEF Event, ThisCall, TypeOK
          <5>2. CASE Emit(r)
            <6>1. log' = log /\ mirrored' = mirrored \union {Event(r)}
              BY <3>1, <5>2 DEF Emit
            <6> QED
              BY <2>2, <3>3, <4>1, <4>5, <6>1 DEF DrainInv
          <5>3. CASE ~Audit(r) /\ ~Emit(r)
            <6>1. log' = log /\ mirrored' = mirrored /\ pc[r] # "emit"
              BY <1>1, <5>3 DEF Acts, Relays, Arrive, Evaluate, Settles,
                 Settle, Forward, Stream, EndOfBody, CopyReturns, Observe,
                 Truncated
            <6> QED
              BY <2>2, <3>3, <4>1, <4>5, <6>1 DEF DrainInv
          <5> QED
            BY <5>1, <5>2, <5>3
        <4> QED
          BY <4>4, <4>5
      <3> QED
        BY <2>2, <3>1, <3>2, <3>3 DEF DrainInv
    <2> QED
      BY <2>1, <2>2
  <1>2. CASE Signal \/ ListenFails \/ Drained \/ Deadline
    <2>1. /\ stage' \in {"draining", "closing"}
          /\ stage \in {"serving", "draining"} /\ ~abrupt
          /\ UNCHANGED <<opts, pc, at, decision, code, log, mirrored>>
      BY <1>2 DEF Signal, ListenFails, Drained, Deadline, Move, DrainInv
    <2>2. stage' = "draining" => abrupt' = abrupt
      BY <1>2 DEF Signal, ListenFails, Drained, Deadline, Move
    <2>3. stage' = "closing" /\ ~abrupt' => \A r \in Reqs : Idle(r)
      BY <1>2 DEF Signal, ListenFails, Drained, Deadline, Move
    <2> QED
      BY <2>1, <2>2, <2>3 DEF DrainInv, Idle, Event, ThisCall
  <1>3. CASE CloseFile \/ CloseSink \/ Exit
    BY <1>3 DEF CloseFile, CloseSink, Exit, Move, DrainInv, Idle, Event, ThisCall
  <1>4. CASE UNCHANGED vars \/ \E r \in Reqs : Prompt(r)
    BY <1>4 DEF vars, Prompt, DrainInv, Idle, Event, ThisCall
  <1> QED
    BY <1>1, <1>2, <1>3, <1>4, HandlerSteps
    DEF Next, ServeEnds, Terminated

(* A handler that is not running has no settled call left unrecorded.      *)
LEMMA IdleRecorded ==
  ASSUME TypeInv, CallInv, NEW c \in Calls, Idle(c[1]), verdict[c] # "none"
  PROVE  Recorded(c)
  <1>1. /\ c[1] \in Reqs /\ c[2] \in 1 .. MaxMembers /\ c[2] \in Nat
        /\ c = <<c[1], c[2]>>
    BY CallParts
  <1>2. Progress(c[1]) /\ at[c[1]] \in Nat
    BY <1>1, HTTPAssumption DEF CallInv, TypeInv, TypeOK
  <1>3. CASE c[2] < at[c[1]]
    BY <1>1, <1>2, <1>3 DEF Progress
  <1>4. ~(c[2] > at[c[1]])
    BY <1>1, <1>2 DEF Progress, Fresh
  <1>5. CASE c[2] = at[c[1]]
    <2>1. c = ThisCall(c[1])
      BY <1>1, <1>5 DEF ThisCall
    <2>2. pc[c[1]] # "idle"
      BY <1>1, <1>5 DEF TypeInv, InHand
    <2> QED
      BY <1>2, <2>1, <2>2 DEF Idle, Progress, Stage
  <1> QED
    BY <1>1, <1>2, <1>3, <1>4, <1>5

(* DrainedShutdownKeepsEvents: when Serve's five seconds were enough, the  *)
(* sink closes with every settled call in the file, unless its write       *)
(* failed, and with the whole file handed to it.                           *)
THEOREM DrainedShutdownKeepsEventsCorrect == Spec => []DrainedShutdownKeepsEvents
  <1>1. TypeInv /\ CallInv /\ DrainInv => DrainedShutdownKeepsEvents
    <2> SUFFICES ASSUME TypeInv, CallInv, DrainInv,
                        stage \in {"sinkClosed", "exited"}, ~abrupt
                 PROVE  /\ opts.sink => mirrored = log
                        /\ \A c \in Calls : verdict[c] # "none" => Recorded(c)
      BY DEF DrainedShutdownKeepsEvents, Recorded
    <2>1. \A r \in Reqs : Idle(r)
      BY DEF DrainInv
    <2>2. \A c \in Calls : verdict[c] # "none" => Recorded(c)
      BY <2>1, CallParts, IdleRecorded
    <2>3. ASSUME opts.sink, NEW e \in log \ mirrored
          PROVE  FALSE
      <3>1. e.call[1] \in Reqs
        BY <2>3, CallParts DEF TypeInv, TypeOK, Events
      <3> QED
        BY <2>1, <2>3, <3>1 DEF DrainInv, Idle
    <2>4. mirrored \subseteq log
      BY DEF TypeInv, TypeOK
    <2> QED
      BY <2>2, <2>3, <2>4
  <1> QED
    BY <1>1, InitDrain, DrainStep, CallInvariant, PTL DEF Spec
===============================================================================
