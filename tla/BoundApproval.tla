---------------------------- MODULE BoundApproval ----------------------------
(***************************************************************************)
(* Evaluations bound to an exact call and an exact policy, and the one-use *)
(* permits an approval of one is turned into: internal/engine/binding.go,  *)
(* internal/policy/snapshot.go and digest.go, internal/approval/request.go *)
(* and binding.go.                                                         *)
(*                                                                         *)
(* The maps of a call and of the engine's policy belong to the caller, who *)
(* may change them between any two reads of this code.  (A change during a *)
(* read is a concurrent map access, which ends a Go program.)  No command  *)
(* uses permits yet; whoever executes a call here is any code that presents *)
(* a permit for any call under the policy it finds.                        *)
(***************************************************************************)
EXTENDS PolicyEngine

CONSTANTS
  Requests,    \* evaluations of one engine, side by side
  Executors,   \* holders of copies of the permits
  Calls,       \* what a caller's call may be made to say
  Sources,     \* what the engine's policy may be made to say
  MaxTime      \* the clock runs from 1 to MaxTime; 0 is the zero time

(* A source is [policy, resolved], resolved being FALSE if it has imports. *)
ASSUME BoundAssumption ==
  /\ MaxTime \in Nat \ {0}
  /\ \A s \in Sources : IsPolicy(s.policy) /\ s.resolved \in BOOLEAN

(* The engine's tables cover what calls and policies say.                  *)
ASSUME VocabularyAssumption ==
  /\ \A c \in Calls : \A a \in DOMAIN c.args : c.args[a].text \in DOMAIN Text
  /\ \A s \in Sources : Names(s.policy) \subseteq ToSet(NameOrder)

VARIABLES
  call,       \* per request, the caller's call
  source,     \* the engine's policy
  at,         \* per request, how far it has come
  snapshot,   \* per request, the copy of its call
  copy,       \* per request, the copy of the policy
  event,      \* per request, the decision and its evidence
  request,    \* per request, its BoundRequest
  permit,     \* per request, its OneShotPermit
  consumed,   \* the requests whose permit is consumed
  hand,       \* per executor, the Consume it is in
  clock

(* History.                                                                *)
VARIABLES
  approved,   \* the requests an operator approved
  runs        \* per request, the executions its permit authorized

flow == <<at, snapshot, copy, event, request, permit, approved>>
vars == <<call, source, flow, consumed, hand, clock, runs>>

None == <<>>

Init ==
  /\ call \in [Requests -> Calls] /\ source \in Sources
  /\ at = [r \in Requests |-> "start"]
  /\ snapshot = [r \in Requests |-> None]
  /\ copy = [r \in Requests |-> None] /\ event = [r \in Requests |-> None]
  /\ request = [r \in Requests |-> None] /\ permit = [r \in Requests |-> None]
  /\ hand = [e \in Executors |-> None]
  /\ consumed = {} /\ clock = 1
  /\ approved = {} /\ runs = [r \in Requests |-> <<>>]

Goto(r, next) == at' = [at EXCEPT ![r] = next]

-------------------------------------------------------------------------------
(* The world.                                                              *)

EditCall(r) ==
  /\ call' \in {[call EXCEPT ![r] = c] : c \in Calls \ {call[r]}}
  /\ UNCHANGED <<source, flow, consumed, hand, clock, runs>>

EditPolicy ==
  /\ source' \in Sources \ {source}
  /\ UNCHANGED <<call, flow, consumed, hand, clock, runs>>

Tick ==
  /\ clock < MaxTime /\ clock' = clock + 1
  /\ UNCHANGED <<call, source, flow, consumed, hand, runs>>

-------------------------------------------------------------------------------
(* Engine.EvaluateBound.                                                   *)

Decided(r, e) == Goto(r, "decided") /\ event' = [event EXCEPT ![r] = e]

SnapshotToolCall(r) ==
  /\ at[r] = "start"
  /\ IF Exact(call[r])
     THEN /\ snapshot' = [snapshot EXCEPT ![r] = call[r]]
          /\ Goto(r, "snapshot") /\ UNCHANGED event
     ELSE /\ Decided(r, BindingFailure("action_binding_failed", <<>>))
          /\ UNCHANGED snapshot
  /\ UNCHANGED <<call, source, copy, request, permit, approved, consumed, hand,
                 clock, runs>>

(* The policy snapshot, whose digest is taken at once.                     *)
SnapshotResolvedPolicy(r) ==
  LET parsed == SnapshotPolicy(source.policy)
      action == ToolActionDigest(snapshot[r])
  IN  /\ at[r] = "snapshot"
      /\ IF source.resolved /\ parsed.err = "none"
         THEN /\ copy' = [copy EXCEPT ![r] = parsed.policy]
              /\ Goto(r, "bound") /\ UNCHANGED event
         ELSE /\ Decided(r, BindingFailure("policy_binding_failed", action))
              /\ UNCHANGED copy
      /\ UNCHANGED <<call, source, snapshot, request, permit, approved,
                     consumed, hand, clock, runs>>

Bound(r, result) ==
  /\ at[r] = "bound"
  /\ Decided(r, [decision |-> result.decision, code |-> result.code,
                 key |-> result.key, action |-> ToolActionDigest(snapshot[r]),
                 policy |-> EffectivePolicyDigest(copy[r])])
  /\ UNCHANGED <<call, source, snapshot, copy, request, permit, approved,
                 consumed, hand, clock, runs>>

(* Defect: the engine's own policy decides, not the copy.                  *)
EvaluateSnapshotLive(r) == Bound(r, Evaluate(source.policy, snapshot[r]))

(* The engine made from the copy evaluates the copy of the call.           *)
EvaluateSnapshot(r) == Bound(r, Evaluate(copy[r], snapshot[r]))

-------------------------------------------------------------------------------
(* Approval.                                                               *)

(* Defect: the digest is taken on trust.                                   *)
DescribesUnchecked(c, action) == Exact(c) /\ c.id # "" /\ c.tool # ""

(* What NewBoundRequest asks of the call it is given.                      *)
Describes(c, action) ==
  /\ Exact(c) /\ c.id # "" /\ c.tool # ""
  /\ ToolActionDigest(c) = action

(* NewBoundRequest, on the caller's call and the digests of the event.     *)
NewBoundRequest(r) ==
  /\ at[r] = "decided" /\ event[r].decision = "ask"
  /\ IF Describes(call[r], event[r].action)
     THEN /\ request' = [request EXCEPT ![r] =
               [call |-> call[r], action |-> event[r].action,
                policy |-> event[r].policy]]
          /\ Goto(r, "asked")
     ELSE Goto(r, "refused") /\ UNCHANGED request
  /\ UNCHANGED <<call, source, snapshot, copy, event, permit, approved,
                 consumed, hand, clock, runs>>

Answer(r, yes) ==
  /\ at[r] = "asked"
  /\ Goto(r, IF yes THEN "approved" ELSE "refused")
  /\ approved' = IF yes THEN approved \union {r} ELSE approved
  /\ UNCHANGED <<call, source, snapshot, copy, event, request, permit, consumed,
                 hand, clock, runs>>

Binding(q) == <<q.action, q.policy>>

(* Defect: an interval of no length is let through.                        *)
ValidIntervalEmpty(issued, expires) == issued # 0 /\ expires >= issued

ValidInterval(issued, expires) == issued # 0 /\ expires > issued

NewOneShotPermit(r, issued, expires) ==
  /\ at[r] = "approved"
  /\ IF ValidInterval(issued, expires)
     THEN /\ permit' = [permit EXCEPT ![r] =
               [binding |-> Binding(request[r]), issued |-> issued,
                expires |-> expires]]
          /\ Goto(r, "permitted")
     ELSE Goto(r, "refused") /\ UNCHANGED permit
  /\ UNCHANGED <<call, source, snapshot, copy, event, request, approved,
                 consumed, hand, clock, runs>>

-------------------------------------------------------------------------------
(* OneShotPermit.Consume.                                                  *)

(* An executor about to make call c binds it to the policy it finds, reads *)
(* the clock at some time, and consumes its copy of r's permit.            *)
Present(e, r, c, now) ==
  /\ hand[e] = None /\ permit[r] # None
  /\ Exact(c) /\ source.resolved /\ ParsePolicy(source.policy).err = "none"
  /\ hand' = [hand EXCEPT ![e] =
       [stage |-> "check", request |-> r, call |-> c, now |-> now,
        binding |-> <<ToolActionDigest(c),
                      EffectivePolicyDigest(source.policy)>>]]
  /\ UNCHANGED <<call, source, flow, consumed, clock, runs>>

Accepts(p, binding, now) ==
  /\ binding = p.binding
  /\ now # 0 /\ p.issued <= now /\ now < p.expires

Check(e) ==
  /\ hand[e] # None /\ hand[e].stage = "check"
  /\ hand' = IF Accepts(permit[hand[e].request], hand[e].binding, hand[e].now)
             THEN [hand EXCEPT ![e].stage = "swap"]
             ELSE [hand EXCEPT ![e] = None]
  /\ UNCHANGED <<call, source, flow, consumed, clock, runs>>

Executed(e) ==
  LET r == hand[e].request
  IN  /\ consumed' = consumed \union {r}
      /\ runs' = [runs EXCEPT ![r] = Append(@, hand[e])]

(* Defect: the flag is set without looking at it.                          *)
CompareAndSwapBlind(e) ==
  /\ hand[e] # None /\ hand[e].stage = "swap"
  /\ Executed(e)
  /\ hand' = [hand EXCEPT ![e] = None]
  /\ UNCHANGED <<call, source, flow, clock>>

(* The flag is shared by every copy of the permit.                         *)
CompareAndSwap(e) ==
  /\ hand[e] # None /\ hand[e].stage = "swap"
  /\ IF hand[e].request \in consumed THEN UNCHANGED <<consumed, runs>>
                                     ELSE Executed(e)
  /\ hand' = [hand EXCEPT ![e] = None]
  /\ UNCHANGED <<call, source, flow, clock>>

-------------------------------------------------------------------------------

Evaluating(r) ==
  SnapshotToolCall(r) \/ SnapshotResolvedPolicy(r) \/ EvaluateSnapshot(r)

Approving(r) ==
  \/ NewBoundRequest(r)
  \/ \E yes \in BOOLEAN : Answer(r, yes)
  \/ \E issued \in {0, clock}, expires \in 0 .. MaxTime :
       NewOneShotPermit(r, issued, expires)

Executing(e) ==
  \/ \E r \in Requests, c \in Calls, now \in 0 .. clock : Present(e, r, c, now)
  \/ Check(e) \/ CompareAndSwap(e)

Next ==
  \/ \E r \in Requests : EditCall(r) \/ Evaluating(r) \/ Approving(r)
  \/ \E e \in Executors : Executing(e)
  \/ EditPolicy \/ Tick

Spec == Init /\ [][Next]_vars

-------------------------------------------------------------------------------
(* Properties.                                                             *)

(* A request has what its stage says it has, and a permit an interval of   *)
(* some length (NewOneShotPermit).                                         *)
TypeOK ==
  /\ source \in Sources /\ clock \in 1 .. MaxTime
  /\ approved \subseteq Requests /\ consumed \subseteq approved
  /\ \A r \in Requests :
       /\ call[r] \in Calls
       /\ at[r] \in {"start", "snapshot", "bound", "decided", "asked",
                     "approved", "permitted", "refused"}
       /\ at[r] \in {"snapshot", "bound"} => snapshot[r] \in Calls
       /\ (event[r] = None) = (at[r] \in {"start", "snapshot", "bound"})
       /\ at[r] \in {"asked", "approved", "permitted"} => request[r] # None
       /\ (permit[r] = None) = (at[r] # "permitted")
       /\ at[r] = "permitted" => /\ permit[r].issued \in 1 .. MaxTime
                                 /\ permit[r].expires \in 1 .. MaxTime
                                 /\ permit[r].issued < permit[r].expires
  /\ \A e \in Executors : hand[e] # None => /\ hand[e].request \in Requests
                                            /\ hand[e].call \in Calls

(* What the digests of an action and a policy stand for says.              *)
Reproduced(e) ==
  Evaluate(e.policy[1], [id |-> "", tool |-> e.action[1].tool,
                         args |-> e.action[1].args])

(* Every decision can be reproduced from the digests in its event alone,   *)
(* whatever becomes of the caller's call and of the engine's policy while  *)
(* it is made; without both digests it is a denial (P-01 of                *)
(* docs/policy-action-binding.md, and the comments of EvaluateBound).      *)
DecisionFromEvidence ==
  \A r \in Requests :
    event[r] # None =>
      IF event[r].action # <<>> /\ event[r].policy # <<>>
      THEN /\ event[r].decision = Reproduced(event[r]).decision
           /\ event[r].code = Reproduced(event[r]).code
      ELSE event[r].decision = "deny"

(* An operator is only ever shown the very action that was evaluated,      *)
(* under the very policy that asked about it (P-04, and the comment of     *)
(* NewBoundRequest).                                                       *)
OperatorSeesEvidence ==
  \A r \in Requests :
    request[r] # None =>
      /\ ToolActionDigest(request[r].call) = event[r].action
      /\ Binding(request[r]) = Binding(event[r])
      /\ Evaluate(request[r].policy[1], request[r].call).decision = "ask"

(* An approval lets at most one execution through, whoever holds copies of *)
(* the permit: of the action the operator saw, under the policy that asked *)
(* and within the permit's interval, its end excluded (P-02 and P-03, and  *)
(* the comment of Consume).                                                *)
OneApprovedRun ==
  \A r \in Requests :
    /\ Len(runs[r]) <= 1
    /\ \A i \in 1 .. Len(runs[r]) :
         /\ r \in approved
         /\ ToolActionDigest(runs[r][i].call) = ToolActionDigest(request[r].call)
         /\ runs[r][i].binding[2] = event[r].policy
         /\ runs[r][i].now \in permit[r].issued .. permit[r].expires - 1
===============================================================================
