------------------------ MODULE BoundApprovalProofs ------------------------
(***************************************************************************)
(* Proofs about bound evaluations and one-shot permits, for any number of  *)
(* requests and executors, any calls, policies and clock.                  *)
(***************************************************************************)
EXTENDS BoundApproval, PolicyEngineProofs

(* f is a function on S.                                                   *)
On(f, S) == f = [x \in S |-> f[x]]

Shape ==
  /\ call \in [Requests -> Calls] /\ source \in Sources /\ clock \in 1 .. MaxTime
  /\ at \in [Requests -> {"start", "snapshot", "bound", "decided", "asked",
                          "approved", "permitted", "refused"}]
  /\ On(snapshot, Requests) /\ On(copy, Requests) /\ On(event, Requests)
  /\ On(request, Requests) /\ On(permit, Requests) /\ On(runs, Requests)
  /\ On(hand, Executors)
  /\ approved \subseteq Requests /\ consumed \subseteq approved

(* An event's decision is the one its digests reproduce.                   *)
FromEvidence(e) ==
  IF e.action # <<>> /\ e.policy # <<>>
  THEN e.decision = Reproduced(e).decision /\ e.code = Reproduced(e).code
  ELSE e.decision = "deny"

(* What each stage of a request has left behind.                           *)
Evidence(r) ==
  /\ at[r] \in {"snapshot", "bound"} => snapshot[r] \in Calls
  /\ at[r] = "bound" => EffectivePolicyDigest(copy[r]) = <<copy[r]>>
  /\ (event[r] = None) = (at[r] \in {"start", "snapshot", "bound"})
  /\ event[r] # None => FromEvidence(event[r])
  /\ at[r] \in {"start", "snapshot", "bound", "decided"} => request[r] = None
  /\ at[r] \in {"asked", "approved", "permitted"} => request[r] # None
  /\ request[r] # None =>
       /\ Describes(request[r].call, event[r].action)
       /\ Binding(request[r]) = Binding(event[r])
       /\ event[r].decision = "ask"
  /\ (permit[r] = None) = (at[r] # "permitted")
  /\ at[r] = "permitted" => /\ permit[r].binding = Binding(request[r])
                            /\ permit[r].issued \in 1 .. MaxTime
                            /\ permit[r].expires \in 1 .. MaxTime
                            /\ permit[r].issued < permit[r].expires
  /\ at[r] \in {"approved", "permitted"} => r \in approved

(* What executor h holds of a permit: once it is past the check, the       *)
(* permit was for the call it makes, under that policy, at that time.      *)
Held(h) ==
  h # None =>
    /\ h.request \in Requests /\ permit[h.request] # None
    /\ h.call \in Calls /\ h.now \in Nat
    /\ h.binding[1] = ToolActionDigest(h.call)
    /\ h.stage = "swap" => Accepts(permit[h.request], h.binding, h.now)

(* A permit has let one execution through exactly if it is consumed.       *)
Ran(r) ==
  /\ r \notin consumed => runs[r] = <<>>
  /\ r \in consumed => /\ Len(runs[r]) = 1
                       /\ permit[r] # None
                       /\ runs[r][1].binding[1] = ToolActionDigest(runs[r][1].call)
                       /\ runs[r][1].now \in Nat
                       /\ Accepts(permit[r], runs[r][1].binding, runs[r][1].now)

BoundInv ==
  /\ Shape
  /\ \A r \in Requests : Evidence(r) /\ Ran(r)
  /\ \A e \in Executors : Held(hand[e])

(* No call has been copied, shown or permitted at first.                   *)
LEMMA InitBound == Init => BoundInv
  <1> SUFFICES ASSUME Init PROVE BoundInv
    OBVIOUS
  <1>1. Shape
    BY BoundAssumption DEF Init, Shape, On
  <1>2. \A r \in Requests : Evidence(r) /\ Ran(r)
    BY DEF Init, Evidence, Ran
  <1>3. \A e \in Executors : Held(hand[e])
    BY DEF Init, Held
  <1> QED
    BY <1>1, <1>2, <1>3 DEF BoundInv

-------------------------------------------------------------------------------
(* Steps that leave a part of the state alone.                             *)

SameRequest(r) ==
  /\ at'[r] = at[r] /\ snapshot'[r] = snapshot[r] /\ copy'[r] = copy[r]
  /\ event'[r] = event[r] /\ request'[r] = request[r] /\ permit'[r] = permit[r]

(* A request that is left alone keeps its evidence.                        *)
LEMMA EvidenceKept ==
  ASSUME NEW r \in Requests, Evidence(r), SameRequest(r),
         approved \subseteq approved'
  PROVE  Evidence(r)'
  BY DEF Evidence, SameRequest

(* What an executor has in hand stays good: a permit never changes.        *)
LEMMA HeldKept ==
  ASSUME NEW h, Held(h), \A r \in Requests : permit[r] # None => permit'[r] = permit[r]
  PROVE  h # None =>
           /\ h.request \in Requests /\ permit'[h.request] # None
           /\ h.call \in Calls /\ h.now \in Nat
           /\ h.binding[1] = ToolActionDigest(h.call)
           /\ h.stage = "swap" => Accepts(permit'[h.request], h.binding, h.now)
  BY DEF Held

(* What has been run under a permit stays as it was.                       *)
LEMMA RanKept ==
  ASSUME NEW r \in Requests, Ran(r), UNCHANGED <<consumed, runs>>,
         permit[r] # None => permit'[r] = permit[r]
  PROVE  Ran(r)'
  BY DEF Ran

(* A step of the flow of one request: what has to be shown of it.          *)
LEMMA FlowStep ==
  ASSUME BoundInv, NEW r \in Requests, Shape', Evidence(r)',
         \A s \in Requests \ {r} : SameRequest(s),
         permit[r] # None => permit'[r] = permit[r],
         approved \subseteq approved', UNCHANGED <<consumed, hand, runs>>
  PROVE  BoundInv'
  <1>1. \A s \in Requests : permit[s] # None => permit'[s] = permit[s]
    BY DEF SameRequest
  <1>2. \A s \in Requests : Evidence(s)'
    BY EvidenceKept DEF BoundInv
  <1>3. \A s \in Requests : Ran(s)'
    BY <1>1, RanKept DEF BoundInv
  <1>4. \A e \in Executors : Held(hand[e])'
    BY <1>1, HeldKept DEF BoundInv, Held
  <1> QED
    BY <1>2, <1>3, <1>4 DEF BoundInv

-------------------------------------------------------------------------------
(* The flow of one request.                                                *)

(* The copy of the call is what the digest is taken of.                    *)
LEMMA SnapshotCallStep ==
  ASSUME BoundInv, NEW r \in Requests, SnapshotToolCall(r)
  PROVE  BoundInv'
  <1>1. Shape' /\ (\A s \in Requests \ {r} : SameRequest(s))
    BY DEF SnapshotToolCall, Decided, Goto, BoundInv, Shape, On, SameRequest
  <1>2. Shape /\ Evidence(r) /\ at[r] = "start"
    BY DEF SnapshotToolCall, BoundInv
  <1>3. CASE Exact(call[r])
    BY <1>1, <1>2, <1>3, FlowStep DEF SnapshotToolCall, Goto, Shape, On, Evidence
  <1>4. CASE ~Exact(call[r])
    <2>1. PICK e : e = BindingFailure("action_binding_failed", <<>>)
      OBVIOUS
    <2>2. at'[r] = "decided" /\ event'[r] = e
      BY <1>2, <1>4, <2>1 DEF SnapshotToolCall, Decided, Goto, Shape, On
    <2>3. e # None /\ FromEvidence(e)
      <3>1. e.policy = <<>> /\ e.decision = "deny"
        BY <2>1 DEF BindingFailure
      <3>2. e # None
        <4>1. "decision" \in DOMAIN e
          BY <2>1 DEF BindingFailure
        <4> QED
          BY <4>1 DEF None
      <3> QED
        BY <3>1, <3>2 DEF FromEvidence
    <2>4. Evidence(r)'
      BY <1>2, <2>2, <2>3 DEF SnapshotToolCall, Evidence
    <2> QED
      BY <1>1, <2>4, FlowStep DEF SnapshotToolCall
  <1> QED
    BY <1>3, <1>4

(* The copy of the policy is what the digest is taken of.                  *)
LEMMA SnapshotPolicyStep ==
  ASSUME BoundInv, NEW r \in Requests, SnapshotResolvedPolicy(r)
  PROVE  BoundInv'
  <1>1. Shape' /\ (\A s \in Requests \ {r} : SameRequest(s))
    BY DEF SnapshotResolvedPolicy, Decided, Goto, BoundInv, Shape, On, SameRequest
  <1>2. Shape /\ Evidence(r) /\ at[r] = "snapshot"
    BY DEF SnapshotResolvedPolicy, BoundInv
  <1>3. CASE source.resolved /\ SnapshotPolicy(source.policy).err = "none"
    <2>1. PICK p : p = SnapshotPolicy(source.policy).policy
      OBVIOUS
    <2>2. EffectivePolicyDigest(p) = <<p>>
      BY <1>2, <1>3, <2>1, BoundAssumption, SnapshotIsDigest DEF Shape
    <2>3. at'[r] = "bound" /\ copy'[r] = p /\ event' = event
      BY <1>2, <1>3, <2>1 DEF SnapshotResolvedPolicy, Goto, Shape, On
    <2>4. Evidence(r)'
      BY <1>2, <2>2, <2>3 DEF SnapshotResolvedPolicy, Evidence
    <2> QED
      BY <1>1, <2>4, FlowStep DEF SnapshotResolvedPolicy
  <1>4. CASE ~(source.resolved /\ SnapshotPolicy(source.policy).err = "none")
    <2>1. PICK e : e = BindingFailure("policy_binding_failed",
                                      ToolActionDigest(snapshot[r]))
      OBVIOUS
    <2>2. at'[r] = "decided" /\ event'[r] = e
      BY <1>2, <1>4, <2>1 DEF SnapshotResolvedPolicy, Decided, Goto, Shape, On
    <2>3. e # None /\ FromEvidence(e)
      <3>1. e.policy = <<>> /\ e.decision = "deny"
        BY <2>1 DEF BindingFailure
      <3>2. e # None
        <4>1. "decision" \in DOMAIN e
          BY <2>1 DEF BindingFailure
        <4> QED
          BY <4>1 DEF None
      <3> QED
        BY <3>1, <3>2 DEF FromEvidence
    <2>4. Evidence(r)'
      BY <1>2, <2>2, <2>3 DEF SnapshotResolvedPolicy, Evidence
    <2> QED
      BY <1>1, <2>4, FlowStep DEF SnapshotResolvedPolicy
  <1> QED
    BY <1>3, <1>4

(* The decision is made of the two copies, not of their originals.         *)
LEMMA EvaluateStep ==
  ASSUME BoundInv, NEW r \in Requests, EvaluateSnapshot(r)
  PROVE  BoundInv'
  <1>1. Shape' /\ (\A s \in Requests \ {r} : SameRequest(s))
    BY DEF EvaluateSnapshot, Bound, Decided, Goto, BoundInv, Shape, On,
       SameRequest
  <1>2. Shape /\ Evidence(r) /\ at[r] = "bound"
    BY DEF EvaluateSnapshot, Bound, BoundInv
  <1>3. PICK result : result = Evaluate(copy[r], snapshot[r])
    OBVIOUS
  <1>4. PICK e : e = [decision |-> result.decision, code |-> result.code,
                      key |-> result.key,
                      action |-> ToolActionDigest(snapshot[r]),
                      policy |-> <<copy[r]>>]
    OBVIOUS
  <1>5. at'[r] = "decided" /\ event'[r] = e
    <2>1. EffectivePolicyDigest(copy[r]) = <<copy[r]>>
      BY <1>2 DEF Evidence
    <2> QED
      BY <1>2, <1>3, <1>4, <2>1 DEF EvaluateSnapshot, Bound, Decided, Goto, Shape,
         On
  <1>6. e # None /\ FromEvidence(e)
    <2>1. PICK d : d = Anonymous(snapshot[r])
      OBVIOUS
    <2>2. ToolActionDigest(d) = ToolActionDigest(snapshot[r])
      BY <2>1 DEF ToolActionDigest, Anonymous
    <2>3. Reproduced(e) = Evaluate(copy[r], d)
      BY <1>4, <2>1 DEF Reproduced, Anonymous, ToolActionDigest
    <2>4. Reproduced(e) = result
      BY <1>3, <2>2, <2>3, SameActionSameDecision
    <2> QED
      BY <1>4, <2>4 DEF FromEvidence, None, ToolActionDigest
  <1>7. Evidence(r)'
    BY <1>2, <1>5, <1>6 DEF EvaluateSnapshot, Bound, Evidence
  <1> QED
    BY <1>1, <1>7, FlowStep DEF EvaluateSnapshot, Bound

(* A request is made only of the action that was evaluated.                *)
LEMMA RequestStep ==
  ASSUME BoundInv, NEW r \in Requests, NewBoundRequest(r)
  PROVE  BoundInv'
  <1>1. Shape' /\ (\A s \in Requests \ {r} : SameRequest(s))
    BY DEF NewBoundRequest, Goto, BoundInv, Shape, On, SameRequest
  <1>2. Shape /\ Evidence(r) /\ at[r] = "decided" /\ event[r].decision = "ask"
    BY DEF NewBoundRequest, BoundInv
  <1>3. CASE Describes(call[r], event[r].action)
    <2>1. PICK q : q = [call |-> call[r], action |-> event[r].action,
                        policy |-> event[r].policy]
      OBVIOUS
    <2>2. at'[r] = "asked" /\ request'[r] = q
      BY <1>2, <1>3, <2>1 DEF NewBoundRequest, Goto, Shape, On
    <2>3. q # None /\ Binding(q) = Binding(event[r]) /\ q.call = call[r]
      BY <2>1 DEF None, Binding
    <2>4. Evidence(r)'
      <3>1. UNCHANGED <<event, permit, approved>>
        BY DEF NewBoundRequest
      <3>2. Describes(q.call, event[r].action) /\ event[r] # None
        BY <1>2, <1>3, <2>3 DEF Evidence
      <3> QED
        BY <1>2, <2>2, <2>3, <3>1, <3>2 DEF Evidence
    <2> QED
      BY <1>1, <2>4, FlowStep DEF NewBoundRequest
  <1>4. CASE ~Describes(call[r], event[r].action)
    <2>1. at'[r] = "refused" /\ request' = request
      BY <1>2, <1>4 DEF NewBoundRequest, Goto, Shape
    <2>2. Evidence(r)'
      BY <1>2, <2>1 DEF NewBoundRequest, Evidence
    <2> QED
      BY <1>1, <2>2, FlowStep DEF NewBoundRequest
  <1> QED
    BY <1>3, <1>4

(* The operator's answer is to the request he was shown.                   *)
LEMMA AnswerStep ==
  ASSUME BoundInv, NEW r \in Requests, NEW yes \in BOOLEAN, Answer(r, yes)
  PROVE  BoundInv'
  <1>1. Shape' /\ (\A s \in Requests \ {r} : SameRequest(s))
    BY DEF Answer, Goto, BoundInv, Shape, On, SameRequest
  <1>2. Shape /\ Evidence(r) /\ at[r] = "asked"
    BY DEF Answer, BoundInv
  <1>3. /\ at'[r] \in {"approved", "refused"} /\ approved \subseteq approved'
        /\ at'[r] = "approved" => r \in approved'
    BY <1>2 DEF Answer, Goto, Shape
  <1>4. Evidence(r)'
    BY <1>2, <1>3 DEF Answer, Evidence
  <1> QED
    BY <1>1, <1>3, <1>4, FlowStep DEF Answer

(* A permit is made of an approved request and its interval.               *)
LEMMA PermitStep ==
  ASSUME BoundInv, NEW r \in Requests, NEW issued \in {0, clock},
         NEW expires \in 0 .. MaxTime, NewOneShotPermit(r, issued, expires)
  PROVE  BoundInv'
  <1>1. Shape' /\ (\A s \in Requests \ {r} : SameRequest(s))
    BY DEF NewOneShotPermit, Goto, BoundInv, Shape, On, SameRequest
  <1>2. Shape /\ Evidence(r) /\ at[r] = "approved"
    BY DEF NewOneShotPermit, BoundInv
  <1>3. permit[r] = None
    BY <1>2 DEF Evidence
  <1>4. CASE ValidInterval(issued, expires)
    <2>1. PICK q : q = [binding |-> Binding(request[r]), issued |-> issued,
                        expires |-> expires]
      OBVIOUS
    <2>2. at'[r] = "permitted" /\ permit'[r] = q
      BY <1>2, <1>4, <2>1 DEF NewOneShotPermit, Goto, Shape, On
    <2>3. /\ q # None /\ q.binding = Binding(request[r])
          /\ q.issued = issued /\ q.expires = expires
      BY <2>1 DEF None
    <2>4. issued \in 1 .. MaxTime /\ expires \in 1 .. MaxTime /\ issued < expires
      BY <1>2, <1>4, BoundAssumption DEF ValidInterval, Shape
    <2>5. Evidence(r)'
      BY <1>2, <2>2, <2>3, <2>4 DEF NewOneShotPermit, Evidence, Binding
    <2> QED
      BY <1>1, <1>3, <2>5, FlowStep DEF NewOneShotPermit
  <1>5. CASE ~ValidInterval(issued, expires)
    <2>1. at'[r] = "refused" /\ permit' = permit
      BY <1>2, <1>5 DEF NewOneShotPermit, Goto, Shape
    <2>2. Evidence(r)'
      BY <1>2, <2>1 DEF NewOneShotPermit, Evidence
    <2> QED
      BY <1>1, <1>3, <2>2, FlowStep DEF NewOneShotPermit
  <1> QED
    BY <1>4, <1>5

-------------------------------------------------------------------------------
(* The executors.                                                          *)

(* An executor presents a permit for the call it is about to make.         *)
LEMMA PresentStep ==
  ASSUME BoundInv, NEW e \in Executors, NEW r \in Requests, NEW c \in Calls,
         NEW now \in 0 .. clock, Present(e, r, c, now)
  PROVE  BoundInv'
  <1>1. PICK h : h = [stage |-> "check", request |-> r, call |-> c, now |-> now,
                      binding |-> <<ToolActionDigest(c),
                                    EffectivePolicyDigest(source.policy)>>]
    OBVIOUS
  <1>2. /\ hand' = [hand EXCEPT ![e] = h] /\ permit[r] # None
        /\ UNCHANGED <<call, source, flow, consumed, clock, runs>>
    BY <1>1 DEF Present
  <1>3. Shape'
    BY <1>2 DEF BoundInv, Shape, On, flow
  <1>4. Held(h)
    <2>1. now \in Nat
      BY DEF BoundInv, Shape
    <2> QED
      BY <1>1, <1>2, <2>1 DEF Held
  <1>5. \A d \in Executors : hand'[d] \in {h, hand[d]}
    BY <1>2 DEF BoundInv, Shape, On
  <1>6. \A d \in Executors : Held(hand[d])'
    BY <1>2, <1>4, <1>5 DEF BoundInv, Held, flow
  <1> QED
    BY <1>2, <1>3, <1>6, EvidenceKept, RanKept DEF BoundInv, flow, SameRequest

(* Consume lets a permit on to the swap only if it accepts.                *)
LEMMA CheckStep ==
  ASSUME BoundInv, NEW e \in Executors, Check(e)
  PROVE  BoundInv'
  <1>1. Held(hand[e]) /\ hand[e] # None /\ hand = [d \in Executors |-> hand[d]]
    BY DEF Check, BoundInv, Shape, On
  <1>2. UNCHANGED <<call, source, flow, consumed, clock, runs>>
    BY DEF Check
  <1>3. Shape'
    BY <1>2 DEF Check, BoundInv, Shape, On, flow
  <1>4. \A d \in Executors \ {e} : hand'[d] = hand[d]
    BY <1>1 DEF Check
  <1>5. Held(hand'[e])
    <2>1. CASE Accepts(permit[hand[e].request], hand[e].binding, hand[e].now)
      <3>1. hand'[e] = [hand[e] EXCEPT !.stage = "swap"]
        BY <1>1, <2>1 DEF Check
      <3>2. /\ hand'[e].request = hand[e].request /\ hand'[e].call = hand[e].call
            /\ hand'[e].binding = hand[e].binding /\ hand'[e].now = hand[e].now
        BY <3>1
      <3> QED
        BY <1>1, <2>1, <3>2 DEF Held
    <2>2. CASE ~Accepts(permit[hand[e].request], hand[e].binding, hand[e].now)
      BY <1>1, <2>2 DEF Check, Held
    <2> QED
      BY <2>1, <2>2
  <1>6. \A d \in Executors : Held(hand'[d])
    BY <1>4, <1>5 DEF BoundInv
  <1>7. \A d \in Executors : Held(hand[d])'
    BY <1>2, <1>6 DEF Held, flow
  <1> QED
    BY <1>2, <1>3, <1>7, EvidenceKept, RanKept DEF BoundInv, flow, SameRequest

(* Of all that reach the swap one finds the permit unused.                 *)
LEMMA SwapStep ==
  ASSUME BoundInv, NEW e \in Executors, CompareAndSwap(e)
  PROVE  BoundInv'
  <1>1. /\ Held(hand[e]) /\ hand[e] # None /\ hand[e].stage = "swap"
        /\ hand' = [hand EXCEPT ![e] = None]
        /\ UNCHANGED <<call, source, flow, clock>>
    BY DEF CompareAndSwap, BoundInv
  <1>2. Shape /\ \A d \in Executors : hand'[d] \in {None, hand[d]}
    BY <1>1 DEF BoundInv, Shape, On
  <1>3. \A d \in Executors : Held(hand[d])'
    BY <1>1, <1>2 DEF BoundInv, Held, flow
  <1>4. \A s \in Requests : Evidence(s)'
    BY <1>1, EvidenceKept DEF BoundInv, flow, SameRequest
  <1>5. PICK r \in Requests : r = hand[e].request
    BY <1>1 DEF Held
  <1>6. CASE r \in consumed
    <2>1. consumed' = consumed /\ runs' = runs
      BY <1>5, <1>6 DEF CompareAndSwap
    <2>2. Shape'
      BY <1>1, <1>2, <2>1 DEF Shape, On, flow
    <2> QED
      BY <1>1, <1>3, <1>4, <2>1, <2>2, RanKept DEF BoundInv, flow
  <1>7. CASE r \notin consumed
    <2>1. /\ consumed' = consumed \union {r}
          /\ runs' = [runs EXCEPT ![r] = Append(runs[r], hand[e])]
      BY <1>5, <1>7 DEF CompareAndSwap, Executed
    <2>2. permit[r] # None /\ r \in approved
      BY <1>1, <1>5 DEF Held, BoundInv, Evidence
    <2>3. Shape'
      BY <1>1, <1>2, <2>1, <2>2 DEF Shape, On, flow
    <2>4. runs[r] = <<>>
      BY <1>7 DEF BoundInv, Ran
    <2>5. runs'[r] = <<hand[e]>>
      BY <1>2, <2>1, <2>4 DEF Shape, On
    <2>6. Ran(r)'
      <3>1. PICK h : h = hand[e]
        OBVIOUS
      <3>2. runs'[r] = <<h>> /\ Len(runs'[r]) = 1 /\ runs'[r][1] = h
        BY <2>5, <3>1
      <3>3. /\ h.binding[1] = ToolActionDigest(h.call) /\ h.now \in Nat
            /\ Accepts(permit[r], h.binding, h.now)
        BY <1>1, <1>5, <3>1 DEF Held
      <3>4. permit' = permit /\ r \in consumed'
        BY <1>1, <2>1 DEF flow
      <3> QED
        BY <2>2, <3>2, <3>3, <3>4 DEF Ran
    <2>7. ASSUME NEW s \in Requests, s # r
          PROVE  Ran(s)'
      <3>1. runs'[s] = runs[s] /\ (s \in consumed' <=> s \in consumed)
        BY <1>2, <2>1, <2>7 DEF Shape, On
      <3> QED
        BY <1>1, <3>1 DEF BoundInv, Ran, flow
    <2> QED
      BY <1>3, <1>4, <2>3, <2>6, <2>7 DEF BoundInv
  <1> QED
    BY <1>6, <1>7

(* Every step keeps the invariant, whoever takes it.                       *)
LEMMA BoundStep == BoundInv /\ [Next]_vars => BoundInv'
  <1> SUFFICES ASSUME BoundInv, [Next]_vars PROVE BoundInv'
    OBVIOUS
  <1>1. ASSUME NEW r \in Requests, EditCall(r)
        PROVE  BoundInv'
    <2>1. Shape'
      BY <1>1 DEF EditCall, BoundInv, Shape, On, flow
    <2>2. UNCHANGED <<flow, consumed, hand, runs>>
      BY <1>1 DEF EditCall
    <2>3. ASSUME NEW s \in Requests PROVE Evidence(s)' /\ Ran(s)'
      BY <2>2 DEF flow, BoundInv, Evidence, Ran, FromEvidence, Reproduced
    <2>4. ASSUME NEW e \in Executors PROVE Held(hand[e])'
      BY <2>2 DEF flow, BoundInv, Held
    <2> QED
      BY <2>1, <2>3, <2>4 DEF BoundInv
  <1>2. CASE EditPolicy \/ Tick \/ UNCHANGED vars
    <2>1. Shape'
      BY <1>2, BoundAssumption DEF EditPolicy, Tick, BoundInv, Shape, On, flow, vars
    <2> QED
      BY <1>2, <2>1, EvidenceKept, RanKept DEF EditPolicy, Tick, flow, vars,
         BoundInv, Held, SameRequest
  <1>3. ASSUME NEW r \in Requests, Evaluating(r) \/ Approving(r)
        PROVE  BoundInv'
    BY <1>3, SnapshotCallStep, SnapshotPolicyStep, EvaluateStep, RequestStep,
       AnswerStep, PermitStep DEF Evaluating, Approving
  <1>4. ASSUME NEW e \in Executors, Executing(e)
        PROVE  BoundInv'
    BY <1>4, PresentStep, CheckStep, SwapStep DEF Executing
  <1> QED
    BY <1>1, <1>2, <1>3, <1>4 DEF Next

(* Every copy is what its stage says at all times.                         *)
LEMMA BoundInvariant == Spec => []BoundInv
  BY InitBound, BoundStep, PTL DEF Spec

-------------------------------------------------------------------------------
(* The properties.                                                         *)

(* TypeOK: whatever becomes of the caller's maps meanwhile, a request has  *)
(* what its stage says, and a consumed permit was approved.                *)
THEOREM TypeCorrect == Spec => []TypeOK
  <1>1. BoundInv => TypeOK
    BY DEF BoundInv, Shape, Evidence, Held, TypeOK
  <1> QED
    BY BoundInvariant, <1>1, PTL

(* DecisionFromEvidence: an event's digests alone reproduce its decision,  *)
(* and an event that lacks one is a denial.                                *)
THEOREM DecisionFromEvidenceCorrect == Spec => []DecisionFromEvidence
  <1>1. BoundInv => DecisionFromEvidence
    BY DEF BoundInv, Evidence, FromEvidence, DecisionFromEvidence
  <1> QED
    BY BoundInvariant, <1>1, PTL

(* OperatorSeesEvidence: what an operator is shown is the action that was  *)
(* evaluated, under the policy that asked about it.                        *)
THEOREM OperatorSeesEvidenceCorrect == Spec => []OperatorSeesEvidence
  <1>1. ASSUME BoundInv, NEW r \in Requests, request[r] # None
        PROVE  /\ ToolActionDigest(request[r].call) = event[r].action
               /\ Binding(request[r]) = Binding(event[r])
               /\ Evaluate(request[r].policy[1], request[r].call).decision = "ask"
    <2>1. /\ Describes(request[r].call, event[r].action)
          /\ Binding(request[r]) = Binding(event[r])
          /\ event[r].decision = "ask" /\ FromEvidence(event[r])
      <3>1. Evidence(r)
        BY <1>1 DEF BoundInv
      <3>2. event[r] # None
        BY <1>1, <3>1 DEF BoundInv, Shape, Evidence
      <3> QED
        BY <1>1, <3>1, <3>2 DEF Evidence
    <2>2. request[r].policy = event[r].policy
      BY <2>1 DEF Binding
    <2>3. PICK c : c = Anonymous(request[r].call)
      OBVIOUS
    <2>4. ToolActionDigest(c) = event[r].action
      BY <2>1, <2>3 DEF Describes, ToolActionDigest, Anonymous
    <2>5. Reproduced(event[r]) = Evaluate(event[r].policy[1], c)
      <3>1. event[r].action[1] = [tool |-> c.tool, args |-> c.args]
        BY <2>4 DEF ToolActionDigest
      <3>2. c = [id |-> "", tool |-> c.tool, args |-> c.args]
        BY <2>3 DEF Anonymous
      <3>3. event[r].action[1].tool = c.tool /\ event[r].action[1].args = c.args
        BY <3>1
      <3>4. [id |-> "", tool |-> event[r].action[1].tool,
             args |-> event[r].action[1].args] = c
        BY <3>2, <3>3
      <3> QED
        BY <3>4 DEF Reproduced
    <2>6. Reproduced(event[r]).decision = "ask"
      BY <2>1 DEF FromEvidence
    <2>7. ToolActionDigest(c) = ToolActionDigest(request[r].call)
      BY <2>1, <2>4 DEF Describes
    <2>8. Evaluate(event[r].policy[1], c)
            = Evaluate(event[r].policy[1], request[r].call)
      BY <2>7, SameActionSameDecision
    <2> QED
      BY <2>1, <2>2, <2>5, <2>6, <2>8 DEF Describes
  <1>2. BoundInv => OperatorSeesEvidence
    BY <1>1 DEF OperatorSeesEvidence
  <1> QED
    BY BoundInvariant, <1>2, PTL

(* OneApprovedRun: a permit, however many copies of it are presented, lets *)
(* one execution through, of the action and under the policy the operator  *)
(* approved, within its interval.                                          *)
THEOREM OneApprovedRunCorrect == Spec => []OneApprovedRun
  <1>1. ASSUME BoundInv, NEW r \in Requests
        PROVE  /\ Len(runs[r]) <= 1
               /\ \A i \in 1 .. Len(runs[r]) :
                    /\ r \in approved
                    /\ ToolActionDigest(runs[r][i].call)
                         = ToolActionDigest(request[r].call)
                    /\ runs[r][i].binding[2] = event[r].policy
                    /\ runs[r][i].now \in permit[r].issued .. permit[r].expires - 1
    <2>1. Ran(r) /\ Evidence(r) /\ Shape
      BY <1>1 DEF BoundInv
    <2>2. CASE r \notin consumed
      BY <2>1, <2>2 DEF Ran
    <2>3. CASE r \in consumed
      <3>1. Len(runs[r]) = 1 /\ permit[r] # None
        BY <2>1, <2>3 DEF Ran
      <3>2. PICK h : h = runs[r][1]
        OBVIOUS
      <3>3. /\ h.binding[1] = ToolActionDigest(h.call) /\ h.now \in Nat
            /\ Accepts(permit[r], h.binding, h.now)
        BY <2>1, <2>3, <3>2 DEF Ran
      <3>4. at[r] = "permitted"
        BY <2>1, <3>1 DEF Evidence
      <3>5. /\ permit[r].binding = Binding(request[r]) /\ request[r] # None
            /\ permit[r].issued \in Nat /\ permit[r].expires \in Nat
        BY <2>1, <3>4, BoundAssumption DEF Evidence
      <3>6. /\ Describes(request[r].call, event[r].action)
            /\ Binding(request[r]) = Binding(event[r])
        BY <2>1, <3>5 DEF Evidence
      <3>7. h.binding = <<event[r].action, event[r].policy>>
        BY <3>3, <3>5, <3>6 DEF Accepts, Binding
      <3>8. ToolActionDigest(h.call) = ToolActionDigest(request[r].call)
            /\ h.binding[2] = event[r].policy
        <4>1. h.binding[1] = event[r].action /\ h.binding[2] = event[r].policy
          BY <3>7
        <4> QED
          BY <3>3, <3>6, <4>1 DEF Describes
      <3>9. h.now \in permit[r].issued .. permit[r].expires - 1
        BY <3>3, <3>5 DEF Accepts
      <3> QED
        BY <2>1, <2>3, <3>1, <3>2, <3>8, <3>9 DEF Shape
    <2> QED
      BY <2>2, <2>3
  <1>2. BoundInv => OneApprovedRun
    BY <1>1 DEF OneApprovedRun
  <1> QED
    BY BoundInvariant, <1>2, PTL

-------------------------------------------------------------------------------
(* Constraints.                                                            *)

(* A policy as an engine has it once its files are parsed.                 *)
InForce(p) == Parsed(p) /\ Names(p) \subseteq ToSet(NameOrder)

(* e is what the parsed policy of its evidence says of one of the calls.   *)
Founded(e) ==
  LET p == e.policy[1]
  IN  /\ e.policy = <<p>> /\ InForce(p)
      /\ \E c \in Calls : /\ e.action = ToolActionDigest(c)
                          /\ e.decision = Evaluate(p, c).decision
                          /\ e.key = Evaluate(p, c).key

(* The copy that decides is of a policy that was parsed, and so is the one *)
(* an event has for its evidence.                                          *)
Grounded(r) ==
  /\ at[r] = "bound" => InForce(copy[r])
  /\ event[r] # None /\ event[r].decision # "deny" => Founded(event[r])

(* What the snapshot of a policy holds was parsed, and has its names.      *)
LEMMA SnapshotInForce ==
  ASSUME NEW s \in Sources, SnapshotPolicy(s.policy).err = "none"
  PROVE  InForce(SnapshotPolicy(s.policy).policy)
  <1>1. PICK p : p = s.policy
    OBVIOUS
  <1>2. PICK d : d = ApplyDefaults(p)
    OBVIOUS
  <1>3. IsPolicy(p) /\ Names(p) \subseteq ToSet(NameOrder)
    BY <1>1, BoundAssumption, VocabularyAssumption
  <1>4. SnapshotPolicy(p) = ParsePolicy(p) /\ ParsePolicy(p).err = "none"
    BY <1>1 DEF SnapshotPolicy, Failed
  <1>5. ParsePolicy(p) = Loaded(d)
    BY <1>2, <1>4 DEF ParsePolicy, Failed
  <1>6. SnapshotPolicy(p).policy = d
    BY <1>4, <1>5 DEF Loaded
  <1>7. ParsePolicy(d) = Loaded(d)
    BY <1>2, <1>3, <1>4, <1>5, DefaultsIdempotent DEF ParsePolicy, Failed
  <1>8. IsPolicy(d)
    BY <1>2, <1>3, DefaultFields
  <1>9. Names(d) \subseteq ToSet(NameOrder)
    BY <1>2, <1>3, DefaultNames
  <1> QED
    BY <1>1, <1>6, <1>7, <1>8, <1>9 DEF InForce, Parsed

(* A step that leaves a request's copy and event alone keeps them so.      *)
LEMMA GroundedKept ==
  ASSUME NEW r \in Requests, Grounded(r),
         copy'[r] = copy[r], event'[r] = event[r],
         at'[r] = "bound" => at[r] = "bound"
  PROVE  Grounded(r)'
  BY DEF Grounded

(* A denial that binds nothing says nothing of a policy.                   *)
LEMMA FailureGrounded ==
  ASSUME NEW r \in Requests, NEW code, NEW action,
         at'[r] = "decided", event'[r] = BindingFailure(code, action)
  PROVE  Grounded(r)'
  <1>1. PICK e : e = BindingFailure(code, action)
    OBVIOUS
  <1>2. e.decision = "deny"
    BY <1>1 DEF BindingFailure
  <1> QED
    BY <1>1, <1>2 DEF Grounded

(* Every step keeps events grounded: only the copy decides.                *)
LEMMA GroundedStep ==
  ASSUME BoundInv, \A r \in Requests : Grounded(r), [Next]_vars
  PROVE  \A r \in Requests : Grounded(r)'
  <1> SUFFICES ASSUME NEW r \in Requests PROVE Grounded(r)'
    OBVIOUS
  <1>1. Shape /\ Evidence(r) /\ Grounded(r)
    BY DEF BoundInv
  <1>2. ASSUME UNCHANGED <<copy, event>>,
               at'[r] \in {at[r], "snapshot", "asked", "approved", "permitted",
                           "refused"}
        PROVE  Grounded(r)'
    BY <1>1, <1>2, GroundedKept
  <1>3. CASE \/ EditPolicy \/ Tick \/ UNCHANGED vars
             \/ \E s \in Requests : EditCall(s)
             \/ \E e \in Executors : Executing(e)
    <2>1. UNCHANGED <<copy, event, at>>
      BY <1>3 DEF EditPolicy, Tick, vars, flow, EditCall, Executing, Present,
         Check, CompareAndSwap
    <2> QED
      BY <1>2, <2>1
  <1>4. ASSUME NEW s \in Requests, Approving(s)
        PROVE  Grounded(r)'
    <2>1. UNCHANGED <<copy, event>>
      BY <1>4 DEF Approving, NewBoundRequest, Answer, NewOneShotPermit
    <2>2. at'[r] \in {at[r], "asked", "approved", "permitted", "refused"}
      BY <1>1, <1>4 DEF Approving, NewBoundRequest, Answer, NewOneShotPermit,
         Goto, Shape
    <2> QED
      BY <1>2, <2>1, <2>2
  <1>5. ASSUME NEW s \in Requests, s # r, Evaluating(s)
        PROVE  Grounded(r)'
    <2>1. copy'[r] = copy[r] /\ event'[r] = event[r] /\ at'[r] = at[r]
      BY <1>1, <1>5 DEF Evaluating, SnapshotToolCall, SnapshotResolvedPolicy,
         EvaluateSnapshot, Bound, Decided, Goto, Shape, On
    <2> QED
      BY <1>1, <2>1, GroundedKept
  <1>6. CASE SnapshotToolCall(r)
    <2>1. CASE Exact(call[r])
      BY <1>1, <1>2, <1>6, <2>1 DEF SnapshotToolCall, Goto, Shape
    <2>2. CASE ~Exact(call[r])
      <3>1. /\ at'[r] = "decided"
            /\ event'[r] = BindingFailure("action_binding_failed", <<>>)
        BY <1>1, <1>6, <2>2 DEF SnapshotToolCall, Decided, Goto, Shape, On
      <3> QED
        BY <3>1, FailureGrounded
    <2> QED
      BY <2>1, <2>2
  <1>7. CASE SnapshotResolvedPolicy(r)
    <2>1. CASE source.resolved /\ SnapshotPolicy(source.policy).err = "none"
      <3>1. PICK p : p = SnapshotPolicy(source.policy).policy
        OBVIOUS
      <3>2. InForce(p)
        BY <1>1, <2>1, <3>1, SnapshotInForce DEF Shape
      <3>3. copy'[r] = p /\ event'[r] = event[r]
        BY <1>1, <1>7, <2>1, <3>1 DEF SnapshotResolvedPolicy, Shape, On
      <3>4. event[r] = None
        BY <1>1, <1>7 DEF SnapshotResolvedPolicy, Evidence
      <3> QED
        BY <3>2, <3>3, <3>4 DEF Grounded
    <2>2. CASE ~(source.resolved /\ SnapshotPolicy(source.policy).err = "none")
      <3>1. /\ at'[r] = "decided"
            /\ event'[r] = BindingFailure("policy_binding_failed",
                                          ToolActionDigest(snapshot[r]))
        BY <1>1, <1>7, <2>2 DEF SnapshotResolvedPolicy, Decided, Goto, Shape, On
      <3> QED
        BY <3>1, FailureGrounded
    <2> QED
      BY <2>1, <2>2
  <1>8. CASE EvaluateSnapshot(r)
    <2>1. /\ at[r] = "bound" /\ InForce(copy[r]) /\ snapshot[r] \in Calls
          /\ EffectivePolicyDigest(copy[r]) = <<copy[r]>>
      BY <1>1, <1>8 DEF EvaluateSnapshot, Bound, Grounded, Evidence
    <2>2. PICK p, c, result : p = copy[r] /\ c = snapshot[r] /\ result = Evaluate(p, c)
      OBVIOUS
    <2>3. PICK e : e = [decision |-> result.decision, code |-> result.code,
                        key |-> result.key, action |-> ToolActionDigest(c),
                        policy |-> <<p>>]
      OBVIOUS
    <2>4. at'[r] = "decided" /\ event'[r] = e
      BY <1>1, <1>8, <2>1, <2>2, <2>3 DEF EvaluateSnapshot, Bound, Decided, Goto,
         Shape, On
    <2>5. /\ e.policy = <<p>> /\ e.policy[1] = p
          /\ e.action = ToolActionDigest(c)
          /\ e.decision = result.decision /\ e.key = result.key
      BY <2>3
    <2>6. Founded(e)
      BY <2>1, <2>2, <2>5 DEF Founded
    <2> QED
      BY <2>4, <2>6 DEF Grounded
  <1>9. CASE \E s \in Requests : Evaluating(s)
    BY <1>5, <1>6, <1>7, <1>8, <1>9 DEF Evaluating
  <1> QED
    BY <1>3, <1>4, <1>9 DEF Next

(* At all times an event that is no denial has its grounds.                *)
LEMMA GroundedInvariant == Spec => [](\A r \in Requests : Grounded(r))
  <1>1. Init => \A r \in Requests : Grounded(r)
    BY DEF Init, Grounded
  <1>2. /\ BoundInv /\ (\A r \in Requests : Grounded(r)) /\ [Next]_vars
        => (\A r \in Requests : Grounded(r))'
    BY GroundedStep
  <1> QED
    BY BoundInvariant, <1>1, <1>2, PTL DEF Spec

(* Policy p decides d on call c by its default, or by the rule with the    *)
(* given key, all of whose constraints the call meets.                     *)
Sanctions(p, c, key, d) ==
  /\ key = LookupRule(p, c.tool)
  /\ key = "" => p.decision = d
  /\ key # "" => p.tools[key].decision = d /\ Passes(p, p.tools[key], c)

(* What is decided on a call, if it is no denial, is what its rule says,   *)
(* and the call has met the rule's constraints.                            *)
LEMMA DecisionSanctioned ==
  ASSUME NEW p, InForce(p), NEW c, Readable(c), Evaluate(p, c).decision # "deny"
  PROVE  Sanctions(p, c, Evaluate(p, c).key, Evaluate(p, c).decision)
  <1>1. PICK key, e : key = LookupRule(p, c.tool) /\ e = Evaluate(p, c)
    OBVIOUS
  <1>2. Decides(p, c, e)
    BY <1>1, EvaluateDecides DEF InForce
  <1>3. e.key = key /\ e.decision # "deny"
    BY <1>1, <1>2 DEF Decides
  <1>4. \/ e = [decision |-> p.decision, code |-> "default_decision", key |-> ""]
           /\ key = ""
        \/ \E code : e = [decision |-> "deny", code |-> code, key |-> key]
        \/ e = [decision |-> p.tools[key].decision, code |-> "rule_match",
                key |-> key] /\ key # ""
    BY <1>1 DEF Evaluate
  <1>5. /\ key = "" => p.decision = e.decision
        /\ key # "" => p.tools[key].decision = e.decision
    <2>1. CASE /\ e = [decision |-> p.decision, code |-> "default_decision",
                       key |-> ""]
               /\ key = ""
      BY <2>1
    <2>2. CASE \E code : e = [decision |-> "deny", code |-> code, key |-> key]
      <3>1. PICK code : e = [decision |-> "deny", code |-> code, key |-> key]
        BY <2>2
      <3>2. e.decision = "deny"
        BY <3>1
      <3> QED
        BY <1>3, <3>2
    <2>3. CASE /\ e = [decision |-> p.tools[key].decision, code |-> "rule_match",
                       key |-> key]
               /\ key # ""
      BY <2>3
    <2> QED
      BY <1>4, <2>1, <2>2, <2>3
  <1>6. key # "" => Passes(p, p.tools[key], c)
    BY <1>2, <1>3 DEF Decides
  <1> QED
    BY <1>1, <1>3, <1>5, <1>6 DEF Sanctions

(* The calls of the callers are readable.                                  *)
LEMMA CallsReadable == \A c \in Calls : Readable(c)
  BY VocabularyAssumption DEF Readable

(* A bound decision that is no denial is what the policy of its evidence   *)
(* says of a call with the digest of its evidence.                         *)
DecisionsSanctioned ==
  \A r \in Requests :
    event[r] # None /\ event[r].decision # "deny" =>
      \E c \in Calls :
        /\ event[r].action = ToolActionDigest(c)
        /\ Sanctions(event[r].policy[1], c, event[r].key, event[r].decision)

(* DecisionsSanctioned: EvaluateBound allows a call, or asks about it,     *)
(* only under a rule whose every constraint the copied call meets, or by   *)
(* the default where no rule is found.                                     *)
THEOREM DecisionsSanctionedCorrect == Spec => []DecisionsSanctioned
  <1>1. ASSUME NEW e, e.decision # "deny", Founded(e)
        PROVE  \E c \in Calls :
                 /\ e.action = ToolActionDigest(c)
                 /\ Sanctions(e.policy[1], c, e.key, e.decision)
    <2>1. PICK p : p = e.policy[1]
      OBVIOUS
    <2>2. PICK c \in Calls : /\ e.action = ToolActionDigest(c)
                             /\ e.decision = Evaluate(p, c).decision
                             /\ e.key = Evaluate(p, c).key
      BY <1>1, <2>1 DEF Founded
    <2>3. InForce(p) /\ Readable(c)
      BY <1>1, <2>1, CallsReadable DEF Founded
    <2>4. Sanctions(p, c, e.key, e.decision)
      BY <1>1, <2>2, <2>3, DecisionSanctioned
    <2> QED
      BY <2>1, <2>2, <2>4
  <1>2. (\A r \in Requests : Grounded(r)) => DecisionsSanctioned
    BY <1>1 DEF Grounded, DecisionsSanctioned
  <1> QED
    BY GroundedInvariant, <1>2, PTL

(* An execution let through by a permit is one the policy the executor     *)
(* found asks about.                                                       *)
RunsSanctioned ==
  \A r \in Requests : \A i \in 1 .. Len(runs[r]) :
    Sanctions(runs[r][i].binding[2][1], runs[r][i].call, event[r].key, "ask")

(* RunsSanctioned: an approved execution has met every constraint of the   *)
(* rule that asked, in the policy found as the permit was presented: an    *)
(* approval never stands in for a constraint.                              *)
THEOREM RunsSanctionedCorrect == Spec => []RunsSanctioned
  <1>1. ASSUME BoundInv, NEW r \in Requests, Grounded(r),
               NEW i \in 1 .. Len(runs[r])
        PROVE  Sanctions(runs[r][i].binding[2][1], runs[r][i].call, event[r].key,
                         "ask")
    <2>1. Ran(r) /\ Evidence(r)
      BY <1>1 DEF BoundInv
    <2>2. PICK h, e : h = runs[r][1] /\ e = event[r]
      OBVIOUS
    <2>3. /\ i = 1 /\ permit[r] # None /\ h.binding[1] = ToolActionDigest(h.call)
          /\ Accepts(permit[r], h.binding, h.now)
      <3>1. Len(runs[r]) = 1
        BY <1>1, <2>1 DEF Ran
      <3> QED
        BY <1>1, <2>1, <2>2, <3>1 DEF Ran
    <2>4. /\ permit[r].binding = Binding(request[r]) /\ request[r] # None
          /\ at[r] = "permitted"
      BY <2>1, <2>3 DEF Evidence
    <2>5. /\ Binding(request[r]) = Binding(e) /\ e.decision = "ask" /\ e # None
      BY <2>1, <2>2, <2>4 DEF Evidence
    <2>6. h.binding[1] = e.action /\ h.binding[2] = e.policy
      BY <2>3, <2>4, <2>5 DEF Accepts, Binding
    <2>7. Founded(e)
      BY <1>1, <2>2, <2>5 DEF Grounded
    <2>8. PICK p : p = e.policy[1]
      OBVIOUS
    <2>9. PICK c \in Calls : /\ e.action = ToolActionDigest(c)
                             /\ e.decision = Evaluate(p, c).decision
                             /\ e.key = Evaluate(p, c).key
      BY <2>7, <2>8 DEF Founded
    <2>10. Evaluate(p, h.call) = Evaluate(p, c)
      BY <2>3, <2>6, <2>9, SameActionSameDecision
    <2>11. Readable(h.call)
      <3>1. ToolActionDigest(h.call)[1].args = ToolActionDigest(c)[1].args
        BY <2>3, <2>6, <2>9
      <3>2. h.call.args = c.args
        BY <3>1 DEF ToolActionDigest
      <3> QED
        BY <3>2, CallsReadable DEF Readable
    <2>12. Sanctions(p, h.call, e.key, e.decision)
      BY <2>5, <2>7, <2>8, <2>9, <2>10, <2>11, DecisionSanctioned DEF Founded
    <2> QED
      BY <2>2, <2>3, <2>5, <2>6, <2>8, <2>12
  <1>2. BoundInv /\ (\A r \in Requests : Grounded(r)) => RunsSanctioned
    BY <1>1 DEF RunsSanctioned
  <1> QED
    BY BoundInvariant, GroundedInvariant, <1>2, PTL
===============================================================================
