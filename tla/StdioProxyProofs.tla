--------------------------- MODULE StdioProxyProofs ---------------------------
(***************************************************************************)
(* Proofs about the stdio proxy, for every set of tools, values, ids and   *)
(* configurations and any number of lines.                                 *)
(***************************************************************************)
EXTENDS StdioProxy, FiniteSetTheorems, TLAPS

USE ConstantsAssumption

HandlingCall == pcA \in {"evaluate", "resolve", "audit", "remember"}

(* What holds of the values the two relays have in hand.                   *)
InHand ==
  /\ pcA \notin {"scan", "stopped"} => nread > 0
  /\ HandlingCall => sent[nread] \in Calls
  /\ pcA = "audit" => decision \in {"allow", "deny"} /\ code \in Codes
  /\ pcB \in {"observe", "relay"} => reply \in Replies

(* The subprocess has only lines relay A scanned, and answers requests.    *)
Flow ==
  /\ \A k \in DOMAIN subIn : subIn[k] <= nread
  /\ \A k \in DOMAIN subOut :
       subOut[k].line <= nread /\ sent[subOut[k].line].id \in Ids

TypeInv == TypeOK /\ InHand /\ Flow

(* Before the first line there is nothing in hand and nothing answered.    *)
LEMMA InitType == Init => TypeInv
  <1> SUFFICES ASSUME Init PROVE TypeInv
    OBVIOUS
  <1>1. /\ sent \in Seq(Messages) /\ Len(sent) = 0
        /\ subIn \in Seq(Lines) /\ subOut \in Seq(Replies)
    BY DEF Init
  <1>2. log \in Seq([line : Lines, decision : {"allow", "deny"}, code : Codes])
    BY DEF Init
  <1>3. /\ pending \in [Ids -> Tools \union {None}]
        /\ tracked \in [Values -> Tools \union {None}]
        /\ verdict \in [Lines -> {"none", "allow", "deny"}]
        /\ answers \in [Lines -> SUBSET {"reply", "blocked", "invalid"}]
    BY DEF Init
  <1>4. TypeOK
    <2>1. /\ Len(sent) <= MaxLines /\ nread \in 0 .. Len(sent)
          /\ pcA = "scan" /\ pcB = "scan" /\ decision = "none"
          /\ code = "none" /\ opts \in Configs
      BY <1>1 DEF Init
    <2>2. /\ lost = {} /\ replies = {} /\ approved = {} /\ seen = {}
          /\ reply = None /\ source = None
          /\ subAlive \in BOOLEAN /\ agentGone \in BOOLEAN
          /\ cancelled \in BOOLEAN
      BY DEF Init
    <2> QED
      BY <1>1, <1>2, <1>3, <2>1, <2>2 DEF TypeOK
  <1>5. InHand
    BY DEF Init, InHand, HandlingCall
  <1>6. Flow
    BY DEF Init, Flow
  <1> QED
    BY <1>4, <1>5, <1>6 DEF TypeInv

(* Every line is of one of the three kinds, and only a call has a tool.    *)
LEMMA MessageKinds ==
  ASSUME NEW m \in Messages
  PROVE  /\ m.kind \in {"call", "malformed", "other", "oversize"}
         /\ m.id \in Ids \union {NoId}
         /\ m.kind = "call" <=> m \in Calls
         /\ m \in Calls => m.tool \in Tools /\ m.arg \in Values
  BY DEF Messages, Calls, Others, Oversize

(* Only AgentSends appends to sent, and it keeps the lines already there.  *)
LEMMA SentKeeps ==
  ASSUME TypeOK, [Next]_vars
  PROVE  /\ Len(sent) <= Len(sent')
         /\ \A n \in 1 .. Len(sent) : sent'[n] = sent[n]
         /\ sent' # sent => AgentSends
  <1> USE DEF varsA, varsB, varsEnv, history
  <1>1. CASE AgentSends
    BY <1>1 DEF AgentSends, TypeOK
  <1>2. CASE sent' = sent
    BY <1>2 DEF TypeOK
  <1>3. AgentSends \/ sent' = sent
    BY DEF Next, RelayAgentToSub, RelaySubToAgent, OperatorAnswers,
       ApprovalExpires, ApprovalCancelled, ApprovalRefused, Settle, Terminated,
       AgentCloses, SubReplies, SubExits, Signal, ScanLine, ScanEOF, Evaluate,
       Audit, Remember, Forward, Refuse, ScanFrame, ScanFrameEnds, Observe,
       Relay, vars
  <1> QED
    BY <1>1, <1>2, <1>3

(* A step gives the subprocess, and lets it answer, only scanned lines.    *)
LEMMA FlowStep == TypeInv /\ [Next]_vars => Flow'
  <1> SUFFICES ASSUME TypeInv, [Next]_vars PROVE Flow'
    OBVIOUS
  <1> USE DEF varsA, varsB, varsEnv, history
  <1>1. /\ nread \in Nat /\ nread <= Len(sent) /\ nread <= nread'
        /\ nread' \in Nat
    BY DEF TypeInv, TypeOK, Next, RelayAgentToSub, RelaySubToAgent,
       OperatorAnswers, ApprovalExpires, ApprovalCancelled, ApprovalRefused,
       Settle, Terminated, AgentSends, AgentCloses, SubReplies, SubExits,
       Signal, ScanLine, ScanEOF, Evaluate, Audit, Remember, Forward, Refuse,
       ScanFrame, ScanFrameEnds, Observe, Relay, vars
  <1>2. subIn \in Seq(Lines) /\ subOut \in Seq(Replies)
    BY DEF TypeInv, TypeOK
  <1>3. \A k \in DOMAIN subIn : subIn[k] \in Nat /\ subIn[k] <= nread'
    BY <1>1, <1>2 DEF TypeInv, Flow, Lines
  <1>4. \A k \in DOMAIN subOut :
          subOut[k].line <= nread' /\ sent'[subOut[k].line].id \in Ids
    <2>1. \A k \in DOMAIN subOut : subOut[k].line \in 1 .. Len(sent)
      <3>1. \A k \in DOMAIN subOut : subOut[k].line \in Lines
        <4>1. \A k \in DOMAIN subOut : subOut[k] \in Replies
          BY <1>2
        <4>2. \A r \in Replies : r.line \in Lines
          BY DEF Replies
        <4> QED
          BY <4>1, <4>2
      <3>2. \A k \in DOMAIN subOut : subOut[k].line <= nread
        BY DEF TypeInv, Flow
      <3>3. Len(sent) \in Nat
        BY DEF TypeInv, TypeOK
      <3> QED
        BY <1>1, <3>1, <3>2, <3>3 DEF Lines
    <2> QED
      BY <1>1, <2>1, SentKeeps DEF TypeInv, Flow
  <1>5. CASE subIn' = subIn /\ subOut' = subOut
    BY <1>3, <1>4, <1>5 DEF Flow
  <1>6. CASE Forward
    <2>1. subOut' = subOut
      BY <1>6 DEF Forward
    <2>2. subIn' = subIn \/ subIn' = Append(subIn, nread)
      BY <1>6 DEF Forward
    <2>3. \A k \in DOMAIN subIn' : subIn'[k] <= nread'
      <3>1. CASE subIn' = subIn
        BY <1>3, <3>1
      <3>2. CASE subIn' = Append(subIn, nread)
        <4>1. /\ DOMAIN subIn' = DOMAIN subIn \union {Len(subIn) + 1}
              /\ \A k \in DOMAIN subIn : subIn'[k] = subIn[k]
              /\ subIn'[Len(subIn) + 1] = nread
          BY <1>2, <3>2
        <4> QED
          BY <1>1, <1>3, <4>1
      <3> QED
        BY <2>2, <3>1, <3>2
    <2> QED
      BY <1>4, <2>1, <2>3 DEF Flow
  <1>7. CASE SubReplies
    <2>1. PICK k \in DOMAIN subIn, text \in Values \union {Empty, Error} :
            /\ sent[subIn[k]].id # NoId
            /\ subOut' = Append(subOut, [line |-> subIn[k], text |-> text])
      BY <1>7 DEF SubReplies
    <2>2. subIn[k] \in 1 .. Len(sent) /\ subIn[k] <= nread'
      BY <1>1, <1>2, <1>3 DEF TypeInv, Flow, Lines
    <2>3. sent[subIn[k]].id \in Ids
      BY <2>1, <2>2, MessageKinds DEF TypeInv, TypeOK
    <2>4. sent' = sent /\ subIn' = subIn
      BY <1>7 DEF SubReplies
    <2>5. \A j \in DOMAIN subOut' :
            subOut'[j].line <= nread' /\ sent'[subOut'[j].line].id \in Ids
      BY <1>2, <1>4, <2>1, <2>2, <2>3, <2>4
    <2> QED
      BY <1>3, <2>4, <2>5 DEF Flow
  <1>8. CASE ScanFrame
    <2>1. subOut # <<>> /\ subOut' = Tail(subOut) /\ subIn' = subIn
      BY <1>8 DEF ScanFrame
    <2>2. \A j \in DOMAIN subOut' :
            j + 1 \in DOMAIN subOut /\ subOut'[j] = subOut[j + 1]
      BY <1>2, <2>1
    <2> QED
      BY <1>3, <1>4, <2>1, <2>2 DEF Flow
  <1> QED
    BY <1>5, <1>6, <1>7, <1>8
    DEF Next, RelayAgentToSub, RelaySubToAgent, OperatorAnswers,
       ApprovalExpires, ApprovalCancelled, ApprovalRefused, Settle, Terminated,
       AgentSends, AgentCloses, SubExits, Signal, ScanLine, ScanEOF, Evaluate,
       Audit, Remember, Refuse, ScanFrameEnds, Observe, Relay, vars

(* A step keeps the types, and what each relay has in hand at its place.   *)
LEMMA TypeStep == TypeInv /\ [Next]_vars => TypeOK' /\ InHand'
  <1> SUFFICES ASSUME TypeOK, InHand, Flow, [Next]_vars
               PROVE  TypeOK' /\ InHand'
    BY DEF TypeInv
  <1> USE DEF varsA, varsB, varsEnv, history, GotoA, GotoB,
          AfterEvaluate, AfterAudit, Resolve
  <1>1. CASE AgentSends
    <2>1. PICK m \in Messages : sent' = Append(sent, m)
      BY <1>1 DEF AgentSends
    <2>2. sent' \in Seq(Messages) /\ Len(sent') = Len(sent) + 1
      BY <2>1 DEF TypeOK
    <2>3. \A n \in 1 .. Len(sent) : sent'[n] = sent[n]
      BY <2>1 DEF TypeOK
    <2>4. TypeOK'
      BY <1>1, <2>2 DEF AgentSends, TypeOK
    <2>5. InHand'
      BY <1>1, <2>3 DEF AgentSends, TypeOK, InHand, HandlingCall
    <2> QED
      BY <2>4, <2>5
  <1>2. CASE AgentCloses \/ SubExits \/ Signal
    <2>1. CASE AgentCloses
      BY <2>1 DEF AgentCloses, TypeOK, InHand, HandlingCall
    <2>2. CASE SubExits
      <3>1. TypeOK'
        <4>1. /\ UNCHANGED <<opts, varsA, varsB, sent, replies, agentGone,
                             cancelled, history, pending, subOut>>
              /\ subAlive' \in BOOLEAN
          BY <2>2 DEF SubExits
        <4> QED
          BY <4>1 DEF TypeOK
      <3>2. InHand'
        BY <2>2 DEF SubExits, InHand, HandlingCall
      <3> QED
        BY <3>1, <3>2
    <2>3. CASE Signal
      BY <2>3 DEF Signal, TypeOK, InHand, HandlingCall
    <2> QED
      BY <1>2, <2>1, <2>2, <2>3
  <1>3. CASE SubReplies
    <2>1. PICK k \in DOMAIN subIn, text \in Values \union {Empty, Error} :
            /\ replies' = replies \union {[line |-> subIn[k], text |-> text]}
            /\ subOut' = Append(subOut, [line |-> subIn[k], text |-> text])
      BY <1>3 DEF SubReplies
    <2>2. subIn[k] \in Lines
      BY <2>1 DEF TypeOK
    <2>3. [line |-> subIn[k], text |-> text] \in Replies
      BY <2>2 DEF Replies
    <2>4. subOut' \in Seq(Replies) /\ replies' \in SUBSET Replies
      BY <2>1, <2>2, <2>3 DEF TypeOK
    <2> QED
      BY <1>3, <2>4 DEF SubReplies, TypeOK, InHand, HandlingCall
  <1>4. CASE ScanLine
    <2>1. sent[nread + 1] \in Messages
      BY <1>4 DEF ScanLine, TypeOK
    <2>2. pcA' \in {"stopped", "forward", "refuse", "evaluate"}
      BY <1>4, <2>1, MessageKinds DEF ScanLine
    <2>3. pcA' = "evaluate" => sent[nread + 1] \in Calls
      BY <1>4, <2>1, MessageKinds DEF ScanLine
    <2>4. nread' \in 0 .. Len(sent') /\ nread' > 0
      BY <1>4 DEF ScanLine, TypeOK
    <2>5. TypeOK'
      <3>1. UNCHANGED <<opts, decision, code, log, lost, subIn, varsB, varsEnv,
                        history, pending, subOut>>
        BY <1>4 DEF ScanLine
      <3> QED
        BY <2>2, <2>4, <3>1 DEF TypeOK
    <2>6. pcA' = "evaluate" => sent'[nread'] \in Calls
      BY <1>4, <2>3 DEF ScanLine
    <2>7. InHand'
      BY <1>4, <2>2, <2>4, <2>6 DEF ScanLine, InHand, HandlingCall
    <2> QED
      BY <2>5, <2>7
  <1>5. CASE ScanEOF
    BY <1>5 DEF ScanEOF, TypeOK, InHand, HandlingCall
  <1>6. CASE Evaluate
    <2>1. Line \in Calls /\ nread \in Lines
      BY <1>6 DEF Evaluate, InHand, HandlingCall, Line, TypeOK, Lines
    <2>2. Static[Line.tool] \in Decisions
      BY <2>1 DEF Calls, Decisions
    <2>3. decision' \in Decisions /\ code' \in {"policy", "taint"}
      BY <1>6, <2>2 DEF Evaluate, Escalated, Decisions
    <2>4. verdict' \in [Lines -> {"none", "allow", "deny"}]
      BY <1>6, <2>1, <2>2 DEF Evaluate, Escalated, Decisions, TypeOK
    <2>5. pcA' = "audit" => decision' \in {"allow", "deny"}
      BY <1>6, <2>3 DEF Evaluate, Decisions
    <2>6. pcA' \in {"resolve", "audit"}
      BY <1>6 DEF Evaluate
    <2> QED
      BY <1>6, <2>1, <2>3, <2>4, <2>5, <2>6
      DEF Evaluate, TypeOK, InHand, HandlingCall, Codes
  <1>7. CASE \E o \in Outcomes : Settle(o)
    <2>1. PICK o \in Outcomes : Settle(o)
      BY <1>7
    <2>2. nread \in Lines
      BY <2>1 DEF Settle, InHand, TypeOK, Lines
    <2>3. /\ decision' \in {"allow", "deny"} /\ code' \in Codes
          /\ verdict' \in [Lines -> {"none", "allow", "deny"}]
          /\ approved' \in SUBSET Lines
      BY <2>1, <2>2 DEF Settle, TypeOK, Codes
    <2> QED
      BY <2>1, <2>3 DEF Settle, TypeOK, InHand, HandlingCall, Decisions
  <1>8. CASE Audit
    <2> DEFINE Events == [line : Lines, decision : {"allow", "deny"},
                          code : Codes]
    <2>1. nread \in Lines
      BY <1>8 DEF Audit, InHand, TypeOK, Lines
    <2>2. [line |-> nread, decision |-> decision, code |-> code] \in Events
      BY <1>8, <2>1 DEF Audit, InHand
    <2>3. log' \in Seq(Events)
      <3>1. log \in Seq(Events)
        BY DEF TypeOK
      <3>2. log' = log \/ log' = Append(log, [line |-> nread,
                              decision |-> decision, code |-> code])
        BY <1>8 DEF Audit
      <3> HIDE DEF Events
      <3> QED
        BY <2>2, <3>1, <3>2
    <2>4. pcA' \in {"remember", "refuse"} /\ lost' \in SUBSET Lines
      BY <1>8, <2>1 DEF Audit, TypeOK
    <2> QED
      BY <1>8, <2>3, <2>4 DEF Audit, TypeOK, InHand, HandlingCall
  <1>9. CASE Remember
    <2>1. Line.tool \in Tools
      BY <1>9 DEF Remember, Line, InHand, HandlingCall, Calls
    <2>2. pending' \in [Ids -> Tools \union {None}]
      BY <1>9, <2>1 DEF Remember, TypeOK
    <2> QED
      BY <1>9, <2>2 DEF Remember, TypeOK, InHand, HandlingCall
  <1>10. CASE Forward
    <2>1. nread \in Lines
      BY <1>10 DEF Forward, InHand, TypeOK, Lines
    <2>2. subIn' \in Seq(Lines)
      <3>1. subIn' = subIn \/ subIn' = Append(subIn, nread)
        BY <1>10 DEF Forward
      <3>2. subIn \in Seq(Lines)
        BY DEF TypeOK
      <3> QED
        BY <2>1, <3>1, <3>2
    <2> QED
      BY <1>10, <2>2 DEF Forward, NextLine, TypeOK, InHand, HandlingCall
  <1>11. CASE Refuse
    <2>1. answers' \in [Lines -> SUBSET {"reply", "blocked", "invalid"}]
      <3>1. answers \in [Lines -> SUBSET {"reply", "blocked", "invalid"}]
        BY DEF TypeOK
      <3>2. \/ answers' = answers
            \/ \E x \in {"invalid", "blocked"} :
                 answers' = [answers EXCEPT ![nread] = @ \union {x}]
        BY <1>11 DEF Refuse
      <3> QED
        BY <3>1, <3>2
    <2> QED
      BY <1>11, <2>1 DEF Refuse, NextLine, TypeOK, InHand, HandlingCall
  <1>12. CASE ScanFrame
    <2>1. Head(subOut) \in Replies /\ Tail(subOut) \in Seq(Replies)
      BY <1>12 DEF ScanFrame, TypeOK
    <2>2. pending' \in [Ids -> Tools \union {None}]
      BY <1>12 DEF ScanFrame, TypeOK
    <2>3. source' \in Tools \union {None}
      <3>1. \A i \in Ids : pending[i] \in Tools \union {None}
        BY DEF TypeOK
      <3>2. source' = None \/ \E i \in Ids : source' = pending[i]
        BY <1>12 DEF ScanFrame, InFlight
      <3> QED
        BY <3>1, <3>2
    <2> QED
      BY <1>12, <2>1, <2>2, <2>3 DEF ScanFrame, TypeOK, InHand, HandlingCall
  <1>13. CASE ScanFrameEnds
    BY <1>13 DEF ScanFrameEnds, TypeOK, InHand, HandlingCall
  <1>14. CASE Observe
    <2>1. tracked' \in [Values -> Tools \union {None}]
      BY <1>14 DEF Observe, TypeOK
    <2> QED
      BY <1>14, <2>1 DEF Observe, TypeOK, InHand, HandlingCall
  <1>15. CASE Relay
    <2>1. /\ answers' \in [Lines -> SUBSET {"reply", "blocked", "invalid"}]
          /\ seen' \in SUBSET Values
      <3>1. reply.line \in Lines
        BY <1>15 DEF Relay, InHand, Replies
      <3>2. answers' \in [Lines -> SUBSET {"reply", "blocked", "invalid"}]
        <4>1. \/ answers' = answers
              \/ answers' = [answers EXCEPT ![reply.line] = @ \union {"reply"}]
          BY <1>15 DEF Relay
        <4>2. answers \in [Lines -> SUBSET {"reply", "blocked", "invalid"}]
          BY DEF TypeOK
        <4> QED
          BY <3>1, <4>1, <4>2
      <3>3. seen' \in SUBSET Values
        BY <1>15 DEF Relay, TypeOK
      <3> QED
        BY <3>2, <3>3
    <2> QED
      BY <1>15, <2>1 DEF Relay, TypeOK, InHand, HandlingCall
  <1>16. CASE UNCHANGED vars
    BY <1>16 DEF vars, TypeOK, InHand, HandlingCall
  <1> QED
    BY <1>1, <1>2, <1>3, <1>4, <1>5, <1>6, <1>7, <1>8, <1>9, <1>10, <1>11,
       <1>12, <1>13, <1>14, <1>15, <1>16
    DEF Next, RelayAgentToSub, RelaySubToAgent, OperatorAnswers,
        ApprovalExpires, ApprovalCancelled, ApprovalRefused, Outcomes,
        Terminated
(* TypeOK: the two relays keep every variable within its type.             *)
THEOREM TypeCorrect == Spec => []TypeOK
  <1>1. TypeInv /\ [Next]_vars => TypeInv'
    BY TypeStep, FlowStep DEF TypeInv
  <1>2. TypeInv => TypeOK
    BY DEF TypeInv
  <1> QED
    BY InitType, <1>1, <1>2, PTL DEF Spec

-------------------------------------------------------------------------------
(* The gate.  What TypeInv lacks is where the line in hand stands: nothing *)
(* is known of it before Evaluate, it is settled but unrecorded at audit,  *)
(* and allowed and recorded from there to forward.                         *)

Recorded(n) == n \in lost \/ \E k \in DOMAIN log : log[k].line = n

Untouched ==
  \A n \in Lines : n > nread =>
    verdict[n] = "none" /\ ~Recorded(n) /\ n \notin Written

Stage ==
  /\ pcA \in {"evaluate", "resolve"} => verdict[nread] = "none"
  /\ pcA \in {"evaluate", "resolve", "audit"} => ~Recorded(nread)
  /\ HandlingCall \/ pcA = "forward" => nread \notin Written
  /\ pcA = "audit" => verdict[nread] = decision
  /\ pcA = "remember" \/ (pcA = "forward" /\ Line.kind = "call") =>
       verdict[nread] = "allow" /\ Recorded(nread)

GateInv == TypeInv /\ Untouched /\ Stage

(* No line has been touched when Run starts.                               *)
LEMMA InitGate == Init => Untouched /\ Stage
  BY DEF Init, Untouched, Stage, Recorded, Written, HandlingCall

(* The steps not named leave alone what GateInv speaks of, or leave it to  *)
(* the next line.                                                          *)
LEMMA GateFrame ==
  ASSUME TypeInv, [Next]_vars
  PROVE  \/ Evaluate \/ (\E o \in Outcomes : Settle(o)) \/ Audit
         \/ Remember \/ Forward \/ ScanLine
         \/ /\ UNCHANGED <<nread, verdict, log, lost, subIn, decision>>
            /\ pcA' = pcA
         \/ /\ UNCHANGED <<nread, verdict, log, lost, subIn>>
            /\ pcA' \in {"scan", "stopped"}
  BY DEF Next, RelayAgentToSub, RelaySubToAgent, OperatorAnswers, Outcomes,
     ApprovalExpires, ApprovalCancelled, ApprovalRefused, Terminated,
     AgentSends, AgentCloses, SubReplies, SubExits, Signal, ScanEOF, Refuse,
     NextLine, ScanFrame, ScanFrameEnds, Observe, Relay, vars, varsA, varsB,
     varsEnv, history, GotoA, GotoB,
          AfterEvaluate, AfterAudit, Resolve

Events == [line : Lines, decision : {"allow", "deny"}, code : Codes]

(* Some event of s is of line n.                                           *)
HasEvent(s, n) == \E k \in DOMAIN s : s[k].line = n

(* A line has an event in a longer log if it had one or the new one is     *)
(* its.                                                                    *)
LEMMA AppendedLines ==
  ASSUME NEW s \in Seq(Events), NEW e, NEW n
  PROVE  HasEvent(Append(s, e), n) <=> HasEvent(s, n) \/ e.line = n
  <1>1. DOMAIN Append(s, e) = DOMAIN s \union {Len(s) + 1}
    OBVIOUS
  <1>2. /\ \A k \in DOMAIN s : Append(s, e)[k] = s[k]
        /\ Append(s, e)[Len(s) + 1] = e
    OBVIOUS
  <1> QED
    BY <1>1, <1>2 DEF HasEvent

(* A step moves only the line in hand, and that from stage to stage.       *)
LEMMA GateStep == GateInv /\ [Next]_vars => Untouched' /\ Stage'
  <1> SUFFICES ASSUME GateInv, [Next]_vars PROVE Untouched' /\ Stage'
    OBVIOUS
  <1> USE DEF varsA, varsB, varsEnv, history, GotoA, GotoB,
          AfterEvaluate, AfterAudit, Resolve
  <1>1. /\ nread \in Nat /\ log \in Seq(Events)
        /\ subIn \in Seq(Lines)
        /\ verdict \in [Lines -> {"none", "allow", "deny"}]
        /\ pcA \notin {"scan", "stopped"} => nread \in Lines
    <2>1. nread \in Nat /\ nread <= Len(sent) /\ Len(sent) \in Nat
          /\ Len(sent) <= MaxLines
      BY DEF GateInv, TypeInv, TypeOK
    <2>2. pcA \notin {"scan", "stopped"} => nread \in Lines
      BY <2>1 DEF GateInv, TypeInv, InHand, Lines
    <2> QED
      BY <2>1, <2>2 DEF GateInv, TypeInv, TypeOK, Events
  <1>2. pcA \notin {"scan", "stopped"} => Line' = Line \/ nread' # nread
    BY SentKeeps DEF GateInv, TypeInv, TypeOK, InHand, Line
  <1>3. CASE Evaluate
    <2>1. /\ nread' = nread /\ lost' = lost /\ log' = log /\ subIn' = subIn
          /\ pcA = "evaluate" /\ pcA' \in {"resolve", "audit"}
          /\ pcA' = "resolve" => verdict' = verdict
          /\ pcA' = "audit" => verdict' = [verdict EXCEPT ![nread] = decision']
      BY <1>3 DEF Evaluate
    <2>2. \A n \in Lines : n > nread => verdict'[n] = verdict[n]
      BY <1>1, <2>1
    <2>3. Untouched'
      BY <2>1, <2>2 DEF GateInv, Untouched, Recorded, Written
    <2>4. Stage'
      BY <1>1, <2>1 DEF GateInv, Stage, HandlingCall, Recorded, Written
    <2> QED
      BY <2>3, <2>4
  <1>4. CASE \E o \in Outcomes : Settle(o)
    <2>1. /\ nread' = nread /\ lost' = lost /\ log' = log /\ subIn' = subIn
          /\ pcA = "resolve" /\ pcA' = "audit"
          /\ verdict' = [verdict EXCEPT ![nread] = decision']
      BY <1>4 DEF Settle
    <2>2. \A n \in Lines : n > nread => verdict'[n] = verdict[n]
      BY <1>1, <2>1
    <2>3. Untouched'
      BY <2>1, <2>2 DEF GateInv, Untouched, Recorded, Written
    <2>4. Stage'
      BY <1>1, <2>1 DEF GateInv, Stage, HandlingCall, Recorded, Written
    <2> QED
      BY <2>3, <2>4
  <1>5. CASE Audit
    <2>1. /\ nread' = nread /\ verdict' = verdict /\ subIn' = subIn
          /\ pcA = "audit" /\ decision' = decision
          /\ pcA' = IF decision = "allow" THEN "remember" ELSE "refuse"
      BY <1>5 DEF Audit
    <2>2. \/ lost' = lost \union {nread} /\ log' = log
          \/ lost' = lost /\ log' = Append(log, [line |-> nread,
                                decision |-> decision, code |-> code])
      BY <1>5 DEF Audit
    <2>3. \A n \in Lines : Recorded(n)' <=> Recorded(n) \/ n = nread
      <3> DEFINE e == [line |-> nread, decision |-> decision, code |-> code]
      <3>1. CASE lost' = lost \union {nread} /\ log' = log
        BY <3>1 DEF Recorded
      <3>2. CASE lost' = lost /\ log' = Append(log, e)
        <4>1. \A n \in Lines : (\E k \in DOMAIN log' : log'[k].line = n)
                <=> (\E k \in DOMAIN log : log[k].line = n) \/ n = nread
          <5>1. log \in Seq(Events) /\ e.line = nread
            BY <1>1 DEF Events
          <5> HIDE DEF e
          <5>2. \A n \in Lines : HasEvent(log', n) <=> HasEvent(log, n) \/ e.line = n
            BY <3>2, <5>1, AppendedLines
          <5> QED
            BY <5>1, <5>2 DEF HasEvent
        <4> QED
          BY <3>2, <4>1 DEF Recorded
      <3> QED
        BY <2>2, <3>1, <3>2
    <2>4. Untouched'
      BY <1>1, <2>1, <2>3 DEF GateInv, Untouched, Written
    <2>5. nread \notin Written' /\ verdict'[nread] = decision
      BY <2>1 DEF GateInv, Stage, HandlingCall, Written
    <2> QED
      BY <1>1, <2>1, <2>3, <2>4, <2>5 DEF Stage, HandlingCall
  <1>6. CASE Remember
    <2>1. UNCHANGED <<nread, verdict, log, lost, subIn>>
      BY <1>6 DEF Remember
    <2>2. pcA = "remember" /\ pcA' = "forward"
      BY <1>6 DEF Remember
    <2> QED
      BY <1>1, <2>1, <2>2
      DEF GateInv, Untouched, Stage, HandlingCall, Recorded, Written
  <1>7. CASE Forward
    <2>1. UNCHANGED <<nread, verdict, log, lost>>
      BY <1>7 DEF Forward
    <2>2. pcA' \in {"scan", "stopped"}
      BY <1>7 DEF Forward, NextLine
    <2>3. subIn' = subIn \/ subIn' = Append(subIn, nread)
      BY <1>7 DEF Forward
    <2>4. \A n \in Written' : n \in Written \/ n = nread
      BY <1>1, <2>3 DEF Written
    <2> QED
      BY <1>1, <2>1, <2>2, <2>4
      DEF GateInv, Untouched, Stage, HandlingCall, Recorded
  <1>8. CASE ScanLine
    <2>1. UNCHANGED <<verdict, log, lost, subIn>> /\ nread' = nread + 1
      BY <1>8 DEF ScanLine
    <2>2. nread' \in Lines
      BY <1>8, <1>1 DEF ScanLine, GateInv, TypeInv, TypeOK, Lines
    <2>3. /\ pcA' # "audit" /\ pcA' # "remember"
          /\ pcA' = "forward" => Line'.kind = "other"
      <3>1. sent' = sent /\ sent[nread + 1] \in Messages
        BY <1>8 DEF ScanLine, GateInv, TypeInv, TypeOK
      <3> QED
        BY <1>8, <2>1, <3>1, MessageKinds DEF ScanLine, Line
    <2> QED
      BY <1>1, <2>1, <2>2, <2>3
      DEF GateInv, Untouched, Stage, HandlingCall, Recorded, Written
  <1>9. CASE UNCHANGED <<nread, verdict, log, lost, subIn, decision>>
             /\ pcA' = pcA
    BY <1>2, <1>9 DEF GateInv, Untouched, Stage, HandlingCall, Recorded, Written
  <1>10. CASE UNCHANGED <<nread, verdict, log, lost, subIn>>
              /\ pcA' \in {"scan", "stopped"}
    BY <1>10 DEF GateInv, Untouched, Stage, HandlingCall, Recorded, Written
  <1> QED
    BY <1>3, <1>4, <1>5, <1>6, <1>7, <1>8, <1>9, <1>10, GateFrame DEF GateInv

(* What one audit write does to the trail.                                 *)
LEMMA TrailRecords ==
  ASSUME NEW n \in Lines, ~Recorded(n), log \in Seq(Events),
         NEW d \in {"allow", "deny"}, NEW e, e.line = n, e.decision = d,
         \/ log' = Append(log, e) /\ lost' = lost
         \/ log' = log /\ lost' = lost \union {n}
  PROVE  /\ Trail[n] = "none"
         /\ Trail' = [Trail EXCEPT ![n] = d] \/ Trail' = [Trail EXCEPT ![n] = "lost"]
  <1>1. Trail[n] = "none"
    BY DEF Trail, Recorded, Logged
  <1>2. CASE log' = log /\ lost' = lost \union {n}
    <2>1. Trail' = [Trail EXCEPT ![n] = "lost"]
      BY <1>2 DEF Trail, Logged
    <2> QED
      BY <1>1, <2>1
  <1>3. CASE log' = Append(log, e) /\ lost' = lost
    <2>1. DOMAIN log' = DOMAIN log \union {Len(log) + 1}
      BY <1>3
    <2>2. /\ \A k \in DOMAIN log : log'[k] = log[k]
          /\ log'[Len(log) + 1] = e
      BY <1>3
    <2>3. \A m \in Lines, c \in {"allow", "deny"} :
            Logged(m, c)' <=> Logged(m, c) \/ (m = n /\ c = d)
      BY <2>1, <2>2 DEF Logged
    <2>4. ~Logged(n, "allow") /\ ~Logged(n, "deny") /\ n \notin lost
      BY DEF Recorded, Logged
    <2>5. \A m \in Lines : Trail'[m] = IF m = n THEN d ELSE Trail[m]
      BY <1>3, <2>3, <2>4 DEF Trail
    <2>6. Trail' = [Trail EXCEPT ![n] = d]
      BY <2>5 DEF Trail
    <2> QED
      BY <1>1, <2>6
  <1> QED
    BY <1>2, <1>3

(* The trail changes only with the log or the lost events.                 *)
LEMMA TrailKeeps == UNCHANGED <<log, lost>> => UNCHANGED Trail
  BY DEF Trail, Logged

(* The calls the subprocess has change only when it is given a line.       *)
LEMMA PassedKeeps ==
  ASSUME TypeInv, [Next]_vars
  PROVE  /\ \A n \in Written : n \in 1 .. Len(sent) /\ sent'[n] = sent[n]
         /\ UNCHANGED subIn => UNCHANGED Passed
  <1>1. subIn \in Seq(Lines) /\ nread \in 0 .. Len(sent) /\ Len(sent) \in Nat
    BY DEF TypeInv, TypeOK
  <1>2. \A n \in Written : n \in Lines /\ n <= nread
    BY <1>1 DEF TypeInv, Flow, Written
  <1>3. \A n \in Written : n \in 1 .. Len(sent)
    BY <1>1, <1>2 DEF Lines
  <1>4. \A n \in Written : sent'[n] = sent[n]
    BY <1>3, SentKeeps DEF TypeInv
  <1>5. ASSUME UNCHANGED subIn PROVE UNCHANGED Passed
    <2>1. Written' = Written
      BY <1>5 DEF Written
    <2> QED
      BY <1>4, <2>1 DEF Passed
  <1> QED
    BY <1>3, <1>4, <1>5

(* Every step of the proxy is a step of Gate or leaves Gate's state alone. *)
LEMMA GateRefined == GateInv /\ [Next]_vars => [G!Next]_(G!vars)
  <1> SUFFICES ASSUME GateInv, [Next]_vars PROVE [G!Next]_(G!vars)
    OBVIOUS
  <1> USE DEF varsA, varsB, varsEnv, history, GotoA, GotoB,
          AfterEvaluate, AfterAudit, Resolve
  <1>1. /\ log \in Seq(Events) /\ subIn \in Seq(Lines)
        /\ verdict \in [Lines -> {"none", "allow", "deny"}]
        /\ pcA \notin {"scan", "stopped"} => nread \in Lines
    <2>1. nread \in Nat /\ nread <= Len(sent) /\ Len(sent) \in Nat
          /\ Len(sent) <= MaxLines
      BY DEF GateInv, TypeInv, TypeOK
    <2>2. pcA \notin {"scan", "stopped"} => nread \in Lines
      BY <2>1 DEF GateInv, TypeInv, InHand, Lines
    <2> QED
      BY <2>2 DEF GateInv, TypeInv, TypeOK, Events
  <1>2. ASSUME UNCHANGED <<verdict, log, lost, subIn>> PROVE UNCHANGED G!vars
    BY <1>2, TrailKeeps, PassedKeeps DEF G!vars, GateInv
  <1>3. CASE Evaluate
    <2>1. UNCHANGED <<log, lost, subIn>> /\ verdict[nread] = "none"
          /\ nread \in Lines
      BY <1>1, <1>3 DEF Evaluate, GateInv, Stage
    <2>2. UNCHANGED <<Trail, Passed>>
      BY <2>1, TrailKeeps, PassedKeeps DEF GateInv
    <2>3. \/ verdict' = verdict
          \/ \E d \in {"allow", "deny"} : verdict' = [verdict EXCEPT ![nread] = d]
      <3>1. \/ verdict' = verdict
            \/ /\ verdict' = [verdict EXCEPT ![nread] = decision']
               /\ decision' # "ask"
        BY <1>3 DEF Evaluate
      <3>2. decision' \in Decisions \union {"none"}
        BY TypeStep DEF GateInv, TypeOK
      <3>3. decision' # "none"
        <4>1. Line \in Calls
          BY <1>3 DEF Evaluate, GateInv, TypeInv, InHand, HandlingCall, Line
        <4>2. Static[Line.tool] \in Decisions
          BY <4>1 DEF Calls, Decisions
        <4> QED
          BY <1>3, <4>2 DEF Evaluate, Escalated, Decisions
      <3> QED
        BY <3>1, <3>2, <3>3 DEF Decisions
    <2>4. verdict' = verdict \/ G!Settle(nread)
      BY <2>1, <2>2, <2>3 DEF G!Settle, G!Final
    <2> QED
      BY <2>1, <2>2, <2>4 DEF G!Next, G!vars
  <1>4. CASE \E o \in Outcomes : Settle(o)
    <2>1. /\ UNCHANGED <<log, lost, subIn>> /\ verdict[nread] = "none"
          /\ nread \in Lines
          /\ \E d \in {"allow", "deny"} : verdict' = [verdict EXCEPT ![nread] = d]
      BY <1>1, <1>4 DEF Settle, GateInv, Stage
    <2>2. UNCHANGED <<Trail, Passed>>
      BY <2>1, TrailKeeps, PassedKeeps DEF GateInv
    <2>3. G!Settle(nread)
      BY <2>1, <2>2 DEF G!Settle, G!Final
    <2> QED
      BY <2>1, <2>3 DEF G!Next
  <1>5. CASE Audit
    <2>1. /\ UNCHANGED <<verdict, subIn>> /\ nread \in Lines
          /\ decision \in {"allow", "deny"} /\ verdict[nread] = decision
          /\ ~Recorded(nread)
      BY <1>1, <1>5 DEF Audit, GateInv, Stage, TypeInv, InHand
    <2>2. UNCHANGED Passed
      BY <2>1, PassedKeeps DEF GateInv
    <2>3. \/ /\ log' = Append(log, [line |-> nread, decision |-> decision,
                                   code |-> code])
             /\ lost' = lost
          \/ log' = log /\ lost' = lost \union {nread}
      BY <1>5 DEF Audit
    <2>4. /\ Trail[nread] = "none"
          /\ \/ Trail' = [Trail EXCEPT ![nread] = decision]
             \/ Trail' = [Trail EXCEPT ![nread] = "lost"]
      BY <1>1, <2>1, <2>3, TrailRecords
    <2>5. G!Record(nread)
      BY <2>1, <2>2, <2>4 DEF G!Record
    <2> QED
      BY <2>1, <2>5 DEF G!Next
  <1>6. CASE Forward
    <2>1. UNCHANGED <<verdict, log, lost, sent>> /\ nread \in Lines
      BY <1>1, <1>6 DEF Forward
    <2>2. \/ UNCHANGED subIn
          \/ subIn' = Append(subIn, nread) /\ Line.kind # "call"
          \/ subIn' = Append(subIn, nread) /\ Line.kind = "call"
      BY <1>6 DEF Forward
    <2>3. CASE UNCHANGED subIn
      BY <1>2, <2>1, <2>3
    <2>4. ASSUME subIn' = Append(subIn, nread)
          PROVE  Written' = Written \union {nread}
      BY <1>1, <2>4 DEF Written
    <2>5. CASE subIn' = Append(subIn, nread) /\ Line.kind # "call"
      <3>1. UNCHANGED Passed
        BY <2>1, <2>4, <2>5 DEF Passed, Line
      <3> QED
        BY <2>1, <3>1, TrailKeeps DEF G!vars
    <2>6. CASE subIn' = Append(subIn, nread) /\ Line.kind = "call"
      <3>1. verdict[nread] = "allow" /\ Recorded(nread) /\ nread \notin Passed
        BY <1>6, <2>6 DEF Forward, GateInv, Stage, Passed
      <3>2. Passed' = Passed \union {nread}
        BY <2>1, <2>4, <2>6 DEF Passed, Line
      <3>3. Trail[nread] # "none"
        <4>1. CASE nread \in lost
          BY <2>1, <4>1 DEF Trail
        <4>2. CASE \E k \in DOMAIN log : log[k].line = nread
          <5>1. PICK k \in DOMAIN log : log[k].line = nread
            BY <4>2
          <5>2. log[k].decision \in {"allow", "deny"}
            <6>1. log[k] \in Events
              BY <1>1, <5>1
            <6> QED
              BY <6>1 DEF Events
          <5> QED
            BY <2>1, <5>1, <5>2 DEF Trail, Logged
        <4> QED
          BY <3>1, <4>1, <4>2 DEF Recorded
      <3>4. G!Pass(nread)
        BY <2>1, <3>1, <3>2, <3>3, TrailKeeps DEF G!Pass
      <3> QED
        BY <2>1, <3>4 DEF G!Next
    <2> QED
      BY <2>2, <2>3, <2>5, <2>6
  <1>7. CASE Remember \/ ScanLine
    BY <1>2, <1>7 DEF Remember, ScanLine
  <1> QED
    BY <1>2, <1>3, <1>4, <1>5, <1>6, <1>7, GateFrame DEF GateInv

(* GateSpec: for every interleaving of the relays, the agent, the operator *)
(* and the subprocess, the proxy settles, records and then passes on.      *)
THEOREM Refinement == Spec => GateSpec
  <1>1. Init => GateInv
    BY InitType, InitGate DEF GateInv
  <1>2. GateInv /\ [Next]_vars => GateInv'
    BY TypeStep, FlowStep, GateStep DEF GateInv, TypeInv
  <1>3. Init => G!Init
    BY DEF Init, G!Init, Trail, Logged, Passed, Written
  <1> QED
    BY <1>1, <1>2, <1>3, GateRefined, PTL DEF Spec, GateSpec, G!Spec

-------------------------------------------------------------------------------
(* The log.  It is in the order of the lines because a line is audited     *)
(* once, after every earlier line, and an allow is explained when it is    *)
(* logged because it was when it reached audit.                            *)

InHandEvent == [line |-> nread, decision |-> decision, code |-> code]

Reasoned == pcA = "audit" /\ decision = "allow" => Explained(InHandEvent)

LogInv == GateInv /\ LogOrderedAndExplained /\ Reasoned

(* A step appends the event of the line in hand, with its reason.          *)
LEMMA LogStep ==
  LogInv /\ [Next]_vars => LogOrderedAndExplained' /\ Reasoned'
  <1> SUFFICES ASSUME LogInv, [Next]_vars
               PROVE  LogOrderedAndExplained' /\ Reasoned'
    OBVIOUS
  <1> USE DEF varsA, varsB, varsEnv, history, GotoA, GotoB,
          AfterEvaluate, AfterAudit, Resolve
  <1>1. /\ log \in Seq(Events) /\ nread \in Nat /\ Len(sent) \in Nat
        /\ nread <= Len(sent)
        /\ pcA \notin {"scan", "stopped"} => nread > 0
    BY DEF LogInv, GateInv, TypeInv, InHand, TypeOK, Events
  <1>2. \A k \in DOMAIN log : log[k].line \in 1 .. nread
    <2>1. \A k \in DOMAIN log : log[k] \in Events
      BY <1>1
    <2>2. \A k \in DOMAIN log : log[k].line \in Lines
      BY <2>1 DEF Events
    <2>3. \A k \in DOMAIN log : ~(log[k].line > nread)
      BY <2>2 DEF LogInv, GateInv, Untouched, Recorded
    <2> QED
      BY <1>1, <2>2, <2>3 DEF Lines
  <1>3. \A n \in 1 .. nread : sent'[n] = sent[n]
    <2>1. TypeOK
      BY DEF LogInv, GateInv, TypeInv
    <2>2. \A n \in 1 .. Len(sent) : sent'[n] = sent[n]
      BY <2>1, SentKeeps
    <2>3. \A n \in 1 .. nread : n \in 1 .. Len(sent)
      BY <1>1
    <2> QED
      BY <2>2, <2>3
  <1>4. pcA \notin {"scan", "stopped"} => sent'[nread] = sent[nread]
    BY <1>1, <1>3
  <1>5. approved \subseteq approved'
    BY DEF Settle, Next, RelayAgentToSub, RelaySubToAgent, OperatorAnswers,
       ApprovalExpires, ApprovalCancelled, ApprovalRefused, Terminated,
       AgentSends, AgentCloses, SubReplies, SubExits, Signal, ScanLine, ScanEOF,
       Evaluate, Audit, Remember, Forward, Refuse, ScanFrame, ScanFrameEnds,
       Observe, Relay, vars
  <1>6. ASSUME NEW e, e.line \in 1 .. nread, Explained(e)
        PROVE  Explained(e)'
    BY <1>3, <1>5, <1>6 DEF Explained
  <1>7. ASSUME log' = log PROVE LogOrderedAndExplained'
    <2>1. \A k \in DOMAIN log :
            log[k].decision = "allow" => Explained(log[k])
      BY DEF LogInv, LogOrderedAndExplained
    <2>2. ASSUME NEW k \in DOMAIN log', log'[k].decision = "allow"
          PROVE  Explained(log[k])'
      <3>1. sent'[log[k].line] = sent[log[k].line]
        BY <1>2, <1>3, <1>7, <2>2
      <3> QED
        BY <1>5, <1>7, <2>1, <2>2, <3>1 DEF Explained
    <2> QED
      BY <1>7, <2>2 DEF LogInv, LogOrderedAndExplained
  <1>8. CASE Evaluate
    <2>1. log' = log /\ nread' = nread /\ sent' = sent
      BY <1>8 DEF Evaluate
    <2>2. pcA' = "audit" /\ decision' = "allow" =>
            code' = "policy" /\ Static[Line.tool] = "allow"
      BY <1>8 DEF Evaluate, Escalated
    <2>3. Reasoned'
      BY <2>1, <2>2 DEF Reasoned, Explained, InHandEvent, Line
    <2> QED
      BY <1>7, <2>1, <2>3
  <1>9. CASE \E o \in Outcomes : Settle(o)
    <2>1. log' = log /\ nread' = nread
      BY <1>9 DEF Settle
    <2>2. decision' = "allow" => code' = "approved" /\ nread \in approved'
      BY <1>9 DEF Settle
    <2>3. Reasoned'
      BY <2>1, <2>2 DEF Reasoned, Explained, InHandEvent
    <2> QED
      BY <1>7, <2>1, <2>3
  <1>10. CASE Audit
    <2>1. pcA = "audit" /\ pcA' # "audit" /\ sent' = sent /\ approved' = approved
      BY <1>10 DEF Audit
    <2>2. log' = log \/ log' = Append(log, InHandEvent)
      BY <1>10 DEF Audit, InHandEvent
    <2>3. CASE log' = Append(log, InHandEvent)
      <3>1. /\ DOMAIN log' = DOMAIN log \union {Len(log) + 1}
            /\ \A k \in DOMAIN log : log'[k] = log[k] /\ k < Len(log) + 1
            /\ log'[Len(log) + 1] = InHandEvent
        BY <1>1, <2>3
      <3>2. ~\E k \in DOMAIN log : log[k].line = nread
        BY <2>1 DEF LogInv, GateInv, Stage, Recorded
      <3>3. \A k \in DOMAIN log : log[k].line < nread
        BY <1>1, <1>2, <3>2
      <3>4. \A j, k \in DOMAIN log' : j < k => log'[j].line < log'[k].line
        <4>1. \A j, k \in DOMAIN log : j < k => log[j].line < log[k].line
          BY DEF LogInv, LogOrderedAndExplained
        <4>2. InHandEvent.line = nread
          BY DEF InHandEvent
        <4>3. DOMAIN log \subseteq Nat /\ Len(log) \in Nat
          BY <1>1
        <4> QED
          BY <3>1, <3>3, <4>1, <4>2, <4>3
      <3>5. ASSUME NEW k \in DOMAIN log', log'[k].decision = "allow"
            PROVE  Explained(log[k])'
        <4>1. CASE k \in DOMAIN log
          <5>1. Explained(log[k])
            BY <3>1, <3>5, <4>1 DEF LogInv, LogOrderedAndExplained
          <5> QED
            BY <2>1, <3>1, <4>1, <5>1 DEF Explained
        <4>2. CASE k = Len(log) + 1
          <5>1. Explained(InHandEvent)
            BY <2>1, <3>1, <3>5, <4>2 DEF LogInv, Reasoned, InHandEvent
          <5> QED
            BY <2>1, <3>1, <4>2, <5>1 DEF Explained
        <4> QED
          BY <3>1, <4>1, <4>2
      <3>6. LogOrderedAndExplained'
        BY <3>4, <3>5 DEF LogOrderedAndExplained
      <3> QED
        BY <2>1, <3>6 DEF Reasoned
    <2> QED
      BY <1>7, <2>1, <2>2, <2>3 DEF Reasoned
  <1>11. CASE Remember \/ Forward \/ ScanLine
    <2>1. log' = log /\ pcA' # "audit"
      <3>1. CASE ScanLine
        <4>1. sent[nread + 1] \in Messages
          BY <3>1, <1>1 DEF ScanLine, LogInv, GateInv, TypeInv, TypeOK
        <4> QED
          BY <3>1, <4>1, MessageKinds DEF ScanLine
      <3> QED
        BY <1>11, <3>1 DEF Remember, Forward, NextLine
    <2> QED
      BY <1>7, <2>1 DEF Reasoned
  <1>12. CASE /\ UNCHANGED <<nread, verdict, log, lost, subIn, decision>>
              /\ pcA' = pcA
    <2>1. pcA = "audit" => code' = code
      BY <1>12 DEF Next, RelayAgentToSub, RelaySubToAgent, OperatorAnswers,
         ApprovalExpires, ApprovalCancelled, ApprovalRefused, Terminated,
         AgentSends, AgentCloses, SubReplies, SubExits, Signal, ScanLine,
         ScanEOF, Evaluate, Settle, Audit, Remember, Forward, Refuse, ScanFrame,
         ScanFrameEnds, Observe, Relay, vars
    <2> QED
      BY <1>4, <1>5, <1>7, <1>12, <2>1
      DEF LogInv, Reasoned, Explained, InHandEvent
  <1>13. CASE /\ UNCHANGED <<nread, verdict, log, lost, subIn>>
              /\ pcA' \in {"scan", "stopped"}
    BY <1>7, <1>13 DEF Reasoned
  <1> QED
    BY <1>8, <1>9, <1>10, <1>11, <1>12, <1>13, GateFrame
    DEF LogInv, GateInv

(* LogOrderedAndExplained: the audit log is in call order, without         *)
(* repetition, and every allow in it has its reason.                       *)
THEOREM LogCorrect == Spec => []LogOrderedAndExplained
  <1>1. Init => LogInv
    BY InitType, InitGate
    DEF Init, LogInv, GateInv, LogOrderedAndExplained, Reasoned
  <1>2. LogInv /\ [Next]_vars => LogInv'
    BY TypeStep, FlowStep, GateStep, LogStep DEF LogInv, GateInv, TypeInv
  <1>3. LogInv => LogOrderedAndExplained
    BY DEF LogInv
  <1> QED
    BY <1>1, <1>2, <1>3, PTL DEF Spec
-------------------------------------------------------------------------------
(* The calls in flight.  An id names one line, a settled line stays        *)
(* settled, and only Remember makes an entry, for the line in hand.        *)

IdsNameLines ==
  \A m, n \in DOMAIN sent : sent[m].id = sent[n].id /\ sent[m].id # NoId => m = n

PendingInv == GateInv /\ IdsNameLines /\ PendingIsACall

(* What each step may change.                                              *)
LEMMA Changes ==
  ASSUME [Next]_vars
  PROVE  /\ opts' = opts /\ approved \subseteq approved'
         /\ pending' # pending => Remember \/ ScanFrame
         /\ subOut' # subOut => SubReplies \/ ScanFrame
         /\ replies' # replies => SubReplies
         /\ subIn' # subIn => Forward
         /\ answers' # answers => Refuse \/ Relay
         /\ seen' # seen => Relay
         /\ tracked' # tracked => Observe
         /\ verdict' # verdict => Evaluate \/ \E o \in Outcomes : Settle(o)
         /\ \/ ScanFrame \/ ScanFrameEnds \/ Observe \/ Relay
            \/ UNCHANGED <<pcB, reply, source>>
  <1> USE DEF varsA, varsB, varsEnv, history
  <1>1. CASE AgentSends \/ AgentCloses \/ SubReplies \/ SubExits \/ Signal
             \/ UNCHANGED vars
    BY <1>1 DEF AgentSends, AgentCloses, SubReplies, SubExits, Signal, vars
  <1>2. CASE ScanLine \/ ScanEOF \/ Evaluate \/ (\E o \in Outcomes : Settle(o))
    BY <1>2 DEF ScanLine, ScanEOF, Evaluate, Settle
  <1>3. CASE Audit \/ Remember \/ Forward \/ Refuse
    BY <1>3 DEF Audit, Remember, Forward, Refuse
  <1>4. CASE ScanFrame \/ ScanFrameEnds \/ Observe \/ Relay
    BY <1>4 DEF ScanFrame, ScanFrameEnds, Observe, Relay
  <1> QED
    BY <1>1, <1>2, <1>3, <1>4
    DEF Next, RelayAgentToSub, RelaySubToAgent, OperatorAnswers,
        ApprovalExpires, ApprovalCancelled, ApprovalRefused, Outcomes,
        Terminated

(* The subprocess takes no frame back.                                     *)
LEMMA RepliesKept ==
  ASSUME [Next]_vars
  PROVE  /\ replies \subseteq replies' /\ replied \subseteq replied'
         /\ replies' = replies => replied' = replied
  <1>1. replies \subseteq replies'
    BY Changes DEF SubReplies
  <1> QED
    BY <1>1 DEF replied

(* A line is settled once, and lines are only ever added and scanned.      *)
LEMMA SettledStays ==
  ASSUME GateInv, [Next]_vars
  PROVE  /\ nread \in Nat /\ nread' \in Nat /\ nread <= nread'
         /\ nread <= Len(sent) /\ Len(sent) \in Nat
         /\ \A n \in 1 .. nread : n \in Lines /\ sent'[n] = sent[n]
         /\ \A n \in Lines : verdict[n] # "none" => verdict'[n] = verdict[n]
  <1>1. /\ nread \in Nat /\ nread <= Len(sent) /\ Len(sent) \in Nat
        /\ Len(sent) <= MaxLines /\ MaxLines \in Nat
        /\ verdict \in [Lines -> {"none", "allow", "deny"}]
    BY DEF GateInv, TypeInv, TypeOK
  <1>2. nread' \in Nat /\ nread <= nread'
    <2>1. nread' = nread \/ nread' = nread + 1
      BY GateFrame DEF GateInv, Evaluate, Settle, Audit, Remember, Forward,
         ScanLine
    <2> QED
      BY <1>1, <2>1
  <1>3. \A n \in 1 .. nread : n \in Lines /\ sent'[n] = sent[n]
    <2>1. \A n \in 1 .. nread : n \in 1 .. Len(sent) /\ n \in Lines
      BY <1>1 DEF Lines
    <2> QED
      BY <2>1, SentKeeps DEF GateInv, TypeInv
  <1>4. ASSUME NEW n \in Lines, verdict[n] # "none"
        PROVE  verdict'[n] = verdict[n]
    <2>1. CASE Evaluate \/ \E o \in Outcomes : Settle(o)
      <3>1. verdict[nread] = "none"
        BY <2>1 DEF Evaluate, Settle, GateInv, Stage
      <3>2. verdict' = verdict \/ verdict' = [verdict EXCEPT ![nread] = decision']
        BY <2>1 DEF Evaluate, Settle
      <3> QED
        BY <1>1, <1>4, <3>1, <3>2
    <2> QED
      BY <2>1, Changes
  <1> QED
    BY <1>1, <1>2, <1>3, <1>4

(* A call enters the map under its own id and tool, and leaves it whole.   *)
LEMMA PendingStep ==
  PendingInv /\ [Next]_vars => IdsNameLines' /\ PendingIsACall'
  <1> SUFFICES ASSUME PendingInv, [Next]_vars
               PROVE  IdsNameLines' /\ PendingIsACall'
    OBVIOUS
  <1>1. GateInv /\ TypeOK
    BY DEF PendingInv, GateInv, TypeInv
  <1>2. IdsNameLines'
    <2>1. CASE AgentSends
      <3>1. PICK m \in Messages : FreshId(m.id) /\ sent' = Append(sent, m)
        BY <2>1 DEF AgentSends
      <3>2. /\ DOMAIN sent' = DOMAIN sent \union {Len(sent) + 1}
            /\ \A n \in DOMAIN sent : sent'[n] = sent[n]
            /\ sent'[Len(sent) + 1] = m
        BY <1>1, <3>1 DEF TypeOK
      <3> QED
        BY <3>1, <3>2 DEF PendingInv, IdsNameLines, FreshId
    <2>2. CASE sent' = sent
      BY <2>2 DEF PendingInv, IdsNameLines
    <2> QED
      BY <1>1, <2>1, <2>2, SentKeeps
  <1>3. ASSUME NEW i \in Ids, pending'[i] # None, pending'[i] = pending[i]
        PROVE  \E n \in 1 .. nread' :
                 /\ sent'[n].kind = "call" /\ sent'[n].id = i
                 /\ sent'[n].tool = pending'[i] /\ verdict'[n] = "allow"
    <2>1. PICK n \in 1 .. nread :
            /\ sent[n].kind = "call" /\ sent[n].id = i
            /\ sent[n].tool = pending[i] /\ verdict[n] = "allow"
      BY <1>3 DEF PendingInv, PendingIsACall
    <2>2. n \in 1 .. nread' /\ sent'[n] = sent[n] /\ verdict'[n] = verdict[n]
      BY <1>1, <2>1, SettledStays
    <2> QED
      BY <1>3, <2>1, <2>2
  <1>4. CASE Remember
    <2>1. /\ nread' = nread /\ sent' = sent /\ verdict' = verdict
          /\ pcA = "remember" /\ Line \in Calls
      BY <1>4 DEF Remember, varsEnv, history, PendingInv, GateInv, TypeInv,
         InHand, HandlingCall, Line
    <2>2. nread \in 1 .. nread /\ verdict[nread] = "allow"
      BY <1>1, <1>4 DEF Remember, GateInv, TypeInv, InHand, Stage, TypeOK
    <2>3. Line.kind = "call"
      BY <2>1 DEF Calls
    <2>4. \A i \in Ids : pending'[i] = pending[i]
                           \/ (i = Line.id /\ pending'[i] = Line.tool)
      BY <1>1, <1>4 DEF Remember, TypeOK
    <2>5. ASSUME NEW i \in Ids, pending'[i] # None, i = Line.id,
                 pending'[i] = Line.tool
          PROVE  \E n \in 1 .. nread' :
                   /\ sent'[n].kind = "call" /\ sent'[n].id = i
                   /\ sent'[n].tool = pending'[i] /\ verdict'[n] = "allow"
      BY <2>1, <2>2, <2>3, <2>5 DEF Line
    <2> QED
      BY <1>2, <1>3, <2>4, <2>5 DEF PendingIsACall
  <1>5. CASE ScanFrame
    <2>1. \A i \in Ids : pending'[i] = pending[i] \/ pending'[i] = None
      BY <1>1, <1>5 DEF ScanFrame, TypeOK
    <2> QED
      BY <1>2, <1>3, <2>1 DEF PendingIsACall
  <1>6. CASE pending' = pending
    BY <1>2, <1>3, <1>6 DEF PendingIsACall
  <1> QED
    BY <1>4, <1>5, <1>6, Changes

(* What is in flight under an id stays a call with that id.                *)
LEMMA PendingInvariant == Spec => []PendingInv
  <1>1. Init => PendingInv
    BY InitType, InitGate
    DEF Init, PendingInv, GateInv, IdsNameLines, PendingIsACall
  <1>2. PendingInv /\ [Next]_vars => PendingInv'
    BY TypeStep, FlowStep, GateStep, PendingStep
    DEF PendingInv, GateInv, TypeInv
  <1> QED
    BY <1>1, <1>2, PTL DEF Spec

(* PendingIsACall: what rememberPending notes is the tool of the one       *)
(* allowed call with that id, whatever the subprocess answers meanwhile.   *)
THEOREM PendingIsACallCorrect == Spec => []PendingIsACall
  <1>1. PendingInv => PendingIsACall
    BY DEF PendingInv
  <1> QED
    BY <1>1, PendingInvariant, PTL
-------------------------------------------------------------------------------
(* The answers.  A frame stands for one line the subprocess was given: on  *)
(* the way in subOut, in relay B's hand, or relayed.  A line the proxy     *)
(* answers itself is not one of them.                                      *)

Frame(f) ==
  /\ f \in replies /\ sent[f.line].id \in Ids
  /\ f.text \in Values => sent[f.line].kind = "call"

FramesReal ==
  /\ replied \subseteq Written
  /\ \A k \in DOMAIN subOut : Frame(subOut[k])
  /\ pcB \in {"observe", "relay"} => Frame(reply)

OwnAnswers == {"blocked", "invalid"}

Answered ==
  /\ pcA = "refuse" => nread \notin Written
  /\ \A n \in Lines :
       /\ n \notin DOMAIN sent => answers[n] = {}
       /\ answers[n] # {} => sent[n].id # NoId
       /\ "reply" \in answers[n] => n \in replied
       /\ answers[n] \intersect OwnAnswers # {} => n <= nread /\ n \notin Written
       /\ "blocked" \in answers[n] => sent[n].kind # "malformed"
       /\ "invalid" \in answers[n] => sent[n].kind = "malformed"
       /\ n = nread /\ pcA \in {"evaluate", "resolve", "audit", "remember", "forward"}
            => answers[n] \intersect OwnAnswers = {}

AnswerInv == PendingInv /\ FramesReal /\ Answered

(* The lines the subprocess has only grow, by the line in hand.            *)
LEMMA WrittenGrows ==
  ASSUME GateInv, [Next]_vars
  PROVE  /\ Written \subseteq 1 .. nread
         /\ Written \subseteq Written'
         /\ Written' # Written => Forward /\ Written' = Written \union {nread}
  <1>1. subIn \in Seq(Lines)
    BY DEF GateInv, TypeInv, TypeOK
  <1>2. \A n \in Written : n \in 1 .. nread
    BY <1>1, SettledStays DEF GateInv, TypeInv, Flow, Written, Lines
  <1>3. CASE subIn' = Append(subIn, nread) /\ Forward
    <2>1. nread \in Lines
      BY <1>3, SettledStays DEF Forward, GateInv, TypeInv, InHand
    <2>2. Written' = Written \union {nread}
      BY <1>1, <1>3, <2>1 DEF Written
    <2> QED
      BY <1>2, <1>3, <2>2
  <1>4. CASE subIn' = subIn
    BY <1>2, <1>4 DEF Written
  <1> QED
    BY <1>3, <1>4, Changes DEF Forward

(* A frame under way answers a line the subprocess was given.              *)
LEMMA FramesStep ==
  AnswerInv /\ [Next]_vars => FramesReal'
  <1> SUFFICES ASSUME AnswerInv, [Next]_vars PROVE FramesReal'
    OBVIOUS
  <1>1. GateInv /\ TypeOK /\ FramesReal
    BY DEF AnswerInv, PendingInv, GateInv, TypeInv
  <1>2. replies \subseteq replies'
    BY RepliesKept
  <1>3. \A f \in replies : f.line \in replied /\ sent'[f.line] = sent[f.line]
    <2>1. \A n \in replied : sent'[n] = sent[n]
      BY <1>1, WrittenGrows, SettledStays DEF FramesReal
    <2> QED
      BY <2>1 DEF replied
  <1>4. ASSUME NEW f, Frame(f) PROVE f \in replies' /\ sent'[f.line].id \in Ids
                 /\ (f.text \in Values => sent'[f.line].kind = "call")
    BY <1>2, <1>3, <1>4 DEF Frame
  <1>5. CASE SubReplies
    <2>1. PICK k \in DOMAIN subIn, text \in Values \union {Empty, Error} :
            /\ sent[subIn[k]].id # NoId
            /\ sent[subIn[k]].kind # "call" => text \notin Values
            /\ replies' = replies \union {[line |-> subIn[k], text |-> text]}
            /\ subOut' = Append(subOut, [line |-> subIn[k], text |-> text])
      BY <1>5 DEF SubReplies
    <2> DEFINE f == [line |-> subIn[k], text |-> text]
    <2>2. /\ subIn' = subIn /\ sent' = sent
          /\ UNCHANGED <<pcB, reply>>
      BY <1>5 DEF SubReplies, varsA, varsB
    <2>3. subIn[k] \in Written /\ Written' = Written
      BY <2>1, <2>2 DEF Written
    <2>4. sent[subIn[k]] \in Messages
      <3>1. subIn[k] \in 1 .. Len(sent)
        BY <1>1, <2>3, WrittenGrows, SettledStays
      <3> QED
        BY <1>1, <3>1 DEF TypeOK
    <2>5. f \in replies' /\ sent'[f.line].id \in Ids
          /\ (f.text \in Values => sent'[f.line].kind = "call")
      BY <2>1, <2>2, <2>4, MessageKinds
    <2>6. /\ DOMAIN subOut' = DOMAIN subOut \union {Len(subOut) + 1}
          /\ \A j \in DOMAIN subOut : subOut'[j] = subOut[j]
          /\ subOut'[Len(subOut) + 1] = f
      BY <1>1, <2>1 DEF TypeOK
    <2> HIDE DEF f
    <2>7. \A j \in DOMAIN subOut' : Frame(subOut[j])'
      BY <1>1, <1>4, <2>5, <2>6 DEF FramesReal, Frame
    <2>8. pcB' \in {"observe", "relay"} => Frame(reply)'
      BY <1>1, <1>4, <2>2 DEF FramesReal, Frame
    <2>9. replied' \subseteq Written'
      <3>1. f.line = subIn[k] /\ replies' = replies \union {f}
        BY <2>1 DEF f
      <3>2. replied' = replied \union {subIn[k]}
        BY <3>1 DEF replied
      <3> QED
        BY <1>1, <2>3, <3>2 DEF FramesReal
    <2> QED
      BY <2>7, <2>8, <2>9 DEF FramesReal
  <1>6. CASE ScanFrame
    <2>1. /\ subOut # <<>> /\ reply' = subOut[1] /\ 1 \in DOMAIN subOut
          /\ \A j \in DOMAIN subOut' :
               j + 1 \in DOMAIN subOut /\ subOut'[j] = subOut[j + 1]
      BY <1>1, <1>6 DEF ScanFrame, TypeOK
    <2>2. replies' = replies /\ replied' = replied /\ Written' = Written
      BY <1>6 DEF ScanFrame, varsA, varsEnv, Written, replied
    <2> QED
      BY <1>1, <1>4, <2>1, <2>2 DEF FramesReal, Frame
  <1>7. CASE UNCHANGED <<subOut, replies>> /\ ~ScanFrame
    <2>1. pcB' \in {"observe", "relay"} =>
             pcB \in {"observe", "relay"} /\ reply' = reply
      BY <1>7, Changes DEF ScanFrameEnds, Observe, Relay, GotoB
    <2>2. Written \subseteq Written' /\ replied' = replied
      BY <1>1, <1>7, WrittenGrows, RepliesKept
    <2> QED
      BY <1>1, <1>4, <1>7, <2>1, <2>2 DEF FramesReal, Frame
  <1> QED
    BY <1>5, <1>6, <1>7, Changes

(* A line is answered by a refusal before it is forwarded or by one frame. *)
LEMMA AnsweredStep ==
  AnswerInv /\ [Next]_vars => Answered'
  <1> SUFFICES ASSUME AnswerInv, [Next]_vars PROVE Answered'
    OBVIOUS
  <1> USE DEF varsA, varsB, varsEnv, history
  <1>1. GateInv /\ TypeOK /\ FramesReal /\ Answered
    BY DEF AnswerInv, PendingInv, GateInv, TypeInv
  <1>2. /\ nread \in Nat /\ nread' \in Nat /\ nread <= nread'
        /\ nread <= Len(sent) /\ Len(sent) \in Nat
        /\ \A n \in 1 .. nread : n \in Lines /\ sent'[n] = sent[n]
        /\ Written \subseteq 1 .. nread
        /\ replied \subseteq replied'
        /\ pcA \notin {"scan", "stopped"} => nread \in Lines /\ nread \in 1 .. nread
    <2>1. replied \subseteq replied'
      BY RepliesKept
    <2>2. pcA \notin {"scan", "stopped"} => nread \in Lines /\ nread \in 1 .. nread
      BY <1>1, SettledStays DEF GateInv, TypeInv, InHand
    <2> QED
      BY <1>1, <2>1, <2>2, SettledStays, WrittenGrows
  <1>3. /\ DOMAIN sent \subseteq DOMAIN sent'
        /\ \A n \in DOMAIN sent : sent'[n] = sent[n]
    <2>1. sent \in Seq(Messages) /\ sent' \in Seq(Messages)
      BY <1>1, TypeStep DEF TypeOK, GateInv
    <2>2. Len(sent') \in Nat /\ DOMAIN sent = 1 .. Len(sent)
          /\ DOMAIN sent' = 1 .. Len(sent')
      BY <2>1
    <2> QED
      BY <1>1, <1>2, <2>2, SentKeeps DEF GateInv, TypeInv
  <1>4. \A n \in Lines : n \in DOMAIN sent \/ answers[n] = {}
    BY <1>1 DEF Answered
  <1>5. CASE Refuse
    <2>1. /\ UNCHANGED <<sent, nread, subIn, replies>> /\ pcA = "refuse"
          /\ pcA' \in {"scan", "stopped"}
          /\ \/ answers' = answers
             \/ /\ ~IsNotification
                /\ answers' = [answers EXCEPT ![nread] = @ \union
                     {IF Line.kind = "malformed" THEN "invalid" ELSE "blocked"}]
      BY <1>5 DEF Refuse, NextLine, GotoA
    <2>2. Written' = Written /\ nread \notin Written /\ replied' = replied
      BY <1>1, <2>1 DEF Written, Answered, replied
    <2>3. CASE answers' = answers
      BY <1>1, <2>1, <2>2, <2>3 DEF Answered
    <2>4. CASE /\ ~IsNotification
               /\ answers' = [answers EXCEPT ![nread] = @ \union
                     {IF Line.kind = "malformed" THEN "invalid" ELSE "blocked"}]
      <3> DEFINE a == IF Line.kind = "malformed" THEN "invalid" ELSE "blocked"
      <3>1. /\ answers'[nread] = answers[nread] \union {a}
            /\ \A n \in Lines : n # nread => answers'[n] = answers[n]
        BY <1>1, <1>2, <2>1, <2>4 DEF TypeOK
      <3>2. nread \in DOMAIN sent /\ Line.id # NoId /\ nread <= nread
        BY <1>2, <2>1, <2>4 DEF IsNotification
      <3>3. /\ a = "invalid" => Line.kind = "malformed"
            /\ a = "blocked" => Line.kind # "malformed"
            /\ a \in {"invalid", "blocked"}
        OBVIOUS
      <3> HIDE DEF a
      <3> QED
        BY <1>1, <2>1, <2>2, <3>1, <3>2, <3>3 DEF Answered, Line
    <2> QED
      BY <2>1, <2>3, <2>4
  <1>6. CASE Relay
    <2>1. /\ UNCHANGED <<sent, nread, subIn, replies, pcA>> /\ Frame(reply)
          /\ reply \in Replies
          /\ \/ answers' = answers
             \/ answers' = [answers EXCEPT ![reply.line] = @ \union {"reply"}]
      BY <1>1, <1>6 DEF Relay, FramesReal, GateInv, TypeInv, InHand
    <2>2. Written' = Written /\ replied' = replied /\ reply.line \in Lines
      BY <2>1 DEF Written, Replies, replied
    <2>3. CASE answers' = answers
      BY <1>1, <2>1, <2>2, <2>3 DEF Answered
    <2>4. CASE answers' = [answers EXCEPT ![reply.line] = @ \union {"reply"}]
      <3>1. /\ answers'[reply.line] = answers[reply.line] \union {"reply"}
            /\ \A n \in Lines : n # reply.line => answers'[n] = answers[n]
        BY <1>1, <2>2, <2>4 DEF TypeOK
      <3>2. /\ reply.line \in replied /\ reply.line \in DOMAIN sent
            /\ sent[reply.line].id # NoId
        <4>1. reply.line \in replied /\ sent[reply.line].id \in Ids
          BY <2>1 DEF Frame, replied
        <4>2. reply.line \in 1 .. nread
          BY <1>1, <1>2, <4>1 DEF FramesReal
        <4>3. DOMAIN sent = 1 .. Len(sent)
          BY <1>1 DEF TypeOK
        <4>4. reply.line \in DOMAIN sent
          BY <1>2, <4>2, <4>3
        <4> QED
          BY <4>1, <4>4
      <3> QED
        BY <1>1, <2>1, <2>2, <3>1, <3>2 DEF Answered, OwnAnswers
    <2> QED
      BY <2>1, <2>3, <2>4
  <1>7. CASE answers' = answers /\ ~Refuse
    <2>1. \/ Written' = Written
          \/ pcA = "forward" /\ Written' = Written \union {nread}
      BY <1>1, WrittenGrows DEF Forward
    <2>2. \/ nread' = nread
          \/ /\ ScanLine /\ nread' = nread + 1 /\ Written' = Written
      BY <1>1, GateFrame DEF GateInv, Evaluate, Settle, Audit, Remember,
         Forward, ScanLine, Written
    <2>3. pcA' \in {"evaluate", "resolve", "audit", "remember", "forward", "refuse"}
            => \/ /\ nread' = nread
                  /\ pcA \in {"evaluate", "resolve", "audit", "remember", "forward", "refuse"}
                  /\ pcA' = "refuse" => pcA \in {"audit", "refuse"}
                  /\ pcA = "refuse" => pcA' = "refuse"
                  /\ pcA = "forward" => Written' = Written
               \/ nread' = nread + 1
      <3>1. CASE Forward
        BY <3>1 DEF Forward, NextLine, GotoA
      <3>2. CASE ScanLine
        BY <3>2 DEF ScanLine
      <3>3. CASE Evaluate \/ (\E o \in Outcomes : Settle(o)) \/ Audit \/ Remember
        BY <1>2, <3>3 DEF Evaluate, Settle, Audit, Remember, GotoA, AfterEvaluate, AfterAudit
      <3>4. CASE /\ UNCHANGED <<nread, verdict, log, lost, subIn, decision>>
                 /\ pcA' = pcA
        BY <3>4 DEF Written
      <3> QED
        BY <1>1, <3>1, <3>2, <3>3, <3>4, GateFrame DEF GateInv
    <2>4. pcA' = "refuse" => nread' \notin Written'
      <3>1. CASE nread' = nread + 1
        BY <1>2, <2>2, <3>1
      <3>2. CASE nread' = nread /\ pcA \in {"audit", "refuse"}
        BY <1>1, <2>1, <3>2 DEF Answered, GateInv, Stage, HandlingCall
      <3> QED
        BY <2>3, <3>1, <3>2
    <2>5. ASSUME NEW n \in Lines, n \in DOMAIN sent
          PROVE  /\ answers[n] # {} => sent'[n].id # NoId
                 /\ "reply" \in answers[n] => n \in replied'
                 /\ "blocked" \in answers[n] => sent'[n].kind # "malformed"
                 /\ "invalid" \in answers[n] => sent'[n].kind = "malformed"
      BY <1>1, <1>2, <1>3, <2>5 DEF Answered
    <2>6. ASSUME NEW n \in Lines, answers[n] \intersect OwnAnswers # {}
          PROVE  n <= nread' /\ n \notin Written'
      <3>1. n <= nread /\ n \notin Written
        BY <1>1, <2>6 DEF Answered
      <3>2. pcA = "forward" => n # nread
        BY <1>1, <2>6 DEF Answered
      <3> QED
        BY <1>2, <2>1, <3>1, <3>2 DEF Lines
    <2>7. ASSUME NEW n \in Lines, n = nread',
                 pcA' \in {"evaluate", "resolve", "audit", "remember", "forward"}
          PROVE  answers[n] \intersect OwnAnswers = {}
      <3>1. CASE nread' = nread + 1
        BY <1>1, <1>2, <2>7, <3>1 DEF Answered
      <3>2. CASE nread' = nread
        BY <1>1, <1>2, <2>3, <2>7, <3>2 DEF Answered
      <3> QED
        BY <2>2, <3>1, <3>2
    <2>8. \A n \in Lines : n \notin DOMAIN sent' => answers[n] = {}
      BY <1>3, <1>4
    <2> QED
      BY <1>4, <1>7, <2>4, <2>5, <2>6, <2>7, <2>8 DEF Answered
  <1> QED
    BY <1>5, <1>6, <1>7, Changes

(* Each answer has one author at every moment.                             *)
LEMMA AnswerInvariant == Spec => []AnswerInv
  <1>1. Init => FramesReal /\ Answered
    BY DEF Init, FramesReal, Answered, Written, OwnAnswers, replied
  <1>2. AnswerInv /\ [Next]_vars => FramesReal' /\ Answered'
    BY FramesStep, AnsweredStep
  <1> QED
    BY <1>1, <1>2, PendingInvariant, PTL DEF AnswerInv, Spec

(* OneAnswer: a request is answered by the proxy or by the server, never   *)
(* by both, and a notification by nobody.                                  *)
THEOREM OneAnswerCorrect == Spec => []OneAnswer
  <1>1. ASSUME AnswerInv PROVE OneAnswer
    <2>1. TypeOK /\ Answered /\ FramesReal /\ DOMAIN sent \subseteq Lines
      <3>1. TypeOK /\ Answered /\ FramesReal
        BY <1>1 DEF AnswerInv, PendingInv, GateInv, TypeInv
      <3>2. sent \in Seq(Messages) /\ Len(sent) <= MaxLines
        BY <3>1 DEF TypeOK
      <3>3. DOMAIN sent = 1 .. Len(sent) /\ Len(sent) \in Nat /\ MaxLines \in Nat
        BY <3>2
      <3> QED
        BY <3>1, <3>2, <3>3 DEF Lines
    <2>2. ASSUME NEW n \in DOMAIN sent
          PROVE  /\ Cardinality(answers[n]) <= (IF sent[n].id = NoId THEN 0 ELSE 1)
                 /\ answers[n] \intersect {"blocked", "invalid"} # {} => n \notin Written
      <3>1. answers[n] \subseteq {"reply", "blocked", "invalid"}
        BY <2>1, <2>2 DEF TypeOK
      <3>2. \A a, b \in answers[n] : a = b
        BY <2>1, <2>2, <3>1 DEF Answered, FramesReal, OwnAnswers
      <3>3. CASE answers[n] = {}
        BY <3>3, FS_EmptySet
      <3>4. CASE answers[n] # {}
        <4>1. PICK a \in answers[n] : answers[n] = {a}
          BY <3>2, <3>4
        <4>2. Cardinality(answers[n]) = 1
          BY <4>1, FS_Singleton
        <4>3. sent[n].id # NoId /\ (answers[n] \intersect {"blocked", "invalid"} # {} => n \notin Written)
          BY <2>1, <2>2, <3>4 DEF Answered, OwnAnswers
        <4> QED
          BY <4>2, <4>3
      <3> QED
        BY <3>3, <3>4
    <2> QED
      BY <2>2 DEF OneAnswer
  <1> QED
    BY <1>1, AnswerInvariant, PTL
-------------------------------------------------------------------------------
(* The order of the trail and the wire.                                    *)

(* A call is recorded, or its loss noticed, before the next line is        *)
(* scanned, even as the relay stops.                                       *)
TrailKeepsUp ==
  \A n \in 1 .. nread :
    \/ sent[n].kind # "call" \/ Recorded(n)
    \/ n = nread /\ pcA \in {"evaluate", "resolve", "audit"}

WireInOrder == \A j, k \in DOMAIN subIn : j < k => subIn[j] < subIn[k]

(* The lines reach the subprocess in the order the agent sent them, which  *)
(* is that of the log; and whatever shows of a call, or of a line after    *)
(* it, at the subprocess or at the agent, the trail has it already.        *)
TrailLeadsWire ==
  /\ WireInOrder
  /\ \A n \in DOMAIN sent :
       /\ sent[n].kind = "call"
       /\ answers[n] # {} \/ \E m \in Written : n <= m
       => Recorded(n)

(* Relay A ends a call's audit before it scans, writes or answers.         *)
LEMMA TrailStep == AnswerInv /\ TrailKeepsUp /\ [Next]_vars => TrailKeepsUp'
  <1> SUFFICES ASSUME AnswerInv, TrailKeepsUp, [Next]_vars PROVE TrailKeepsUp'
    OBVIOUS
  <1> USE DEF varsA, GotoA
  <1>1. /\ GateInv /\ TypeInv /\ nread \in Nat /\ nread <= Len(sent)
        /\ Len(sent) \in Nat /\ \A n \in 1 .. nread : sent'[n] = sent[n]
    BY SettledStays DEF AnswerInv, PendingInv, GateInv
  <1>2. ASSUME nread' = nread, lost' = lost, log' = log,
               pcA \in {"evaluate", "resolve", "audit"}
                 => pcA' \in {"evaluate", "resolve", "audit"}
        PROVE  TrailKeepsUp'
    BY <1>1, <1>2 DEF TrailKeepsUp, Recorded
  <1>3. CASE Evaluate \/ (\E o \in Outcomes : Settle(o)) \/ Remember \/ Forward
    BY <1>2, <1>3 DEF Evaluate, Settle, Remember, Forward, AfterEvaluate
  <1>4. CASE ScanLine
    <2>1. /\ pcA = "scan" /\ nread' = nread + 1 /\ log' = log /\ lost' = lost
          /\ sent' = sent /\ sent[nread + 1] \in Messages
      BY <1>1, <1>4 DEF ScanLine, varsEnv, TypeInv, TypeOK
    <2>2. sent[nread + 1].kind = "call" => pcA' = "evaluate"
      BY <1>4, <2>1, MessageKinds DEF ScanLine
    <2>3. \A n \in 1 .. nread : sent[n].kind # "call" \/ Recorded(n)
      BY <2>1 DEF TrailKeepsUp
    <2> QED
      BY <1>1, <2>1, <2>2, <2>3 DEF TrailKeepsUp, Recorded
  <1>5. CASE Audit
    <2>1. /\ pcA = "audit" /\ nread' = nread /\ sent' = sent
          /\ nread \in Lines /\ log \in Seq(Events)
      BY <1>1, <1>5 DEF Audit, varsEnv, TypeInv, TypeOK, InHand, Events, Lines
    <2>2. \A n \in 1 .. nread : Recorded(n) => Recorded(n)'
      <3>1. CASE log' = log /\ lost \subseteq lost'
        BY <3>1 DEF Recorded
      <3>2. CASE log' = Append(log, InHandEvent) /\ lost' = lost
        BY <2>1, <3>2, AppendedLines DEF Recorded, HasEvent
      <3> QED
        BY <1>5, <3>1, <3>2 DEF Audit, InHandEvent
    <2>3. Recorded(nread)'
      <3>1. CASE nread \in lost'
        BY <2>1, <3>1 DEF Recorded
      <3>2. CASE log' = Append(log, InHandEvent)
        <4>1. InHandEvent.line = nread
          BY DEF InHandEvent
        <4> QED
          BY <2>1, <3>2, <4>1, AppendedLines DEF Recorded, HasEvent
      <3> QED
        BY <1>5, <3>1, <3>2 DEF Audit, InHandEvent
    <2> QED
      BY <1>1, <2>1, <2>2, <2>3 DEF TrailKeepsUp
  <1>6. CASE UNCHANGED <<nread, log, lost>> /\ pcA' = pcA
    BY <1>2, <1>6
  <1>7. CASE UNCHANGED <<nread, log, lost>> /\ pcA \notin {"evaluate", "resolve", "audit"}
    BY <1>2, <1>7
  <1>8. \/ Evaluate \/ (\E o \in Outcomes : Settle(o)) \/ Audit \/ Remember
        \/ Forward \/ ScanLine
        \/ UNCHANGED <<nread, log, lost>> /\ pcA' = pcA
        \/ UNCHANGED <<nread, log, lost>> /\ pcA \notin {"evaluate", "resolve", "audit"}
    BY DEF Next, RelayAgentToSub, RelaySubToAgent, OperatorAnswers, Outcomes,
       ApprovalExpires, ApprovalCancelled, ApprovalRefused, Terminated,
       AgentSends, AgentCloses, SubReplies, SubExits, Signal, ScanEOF, Refuse,
       ScanFrame, ScanFrameEnds, Observe, Relay, vars
  <1> QED
    BY <1>3, <1>4, <1>5, <1>6, <1>7, <1>8

(* The line in hand is behind all the subprocess has.                      *)
LEMMA WireOrderStep == AnswerInv /\ WireInOrder /\ [Next]_vars => WireInOrder'
  <1> SUFFICES ASSUME AnswerInv, WireInOrder, [Next]_vars PROVE WireInOrder'
    OBVIOUS
  <1>1. GateInv /\ subIn \in Seq(Lines)
    BY DEF AnswerInv, PendingInv, GateInv, TypeInv, TypeOK
  <1>2. CASE subIn' = subIn
    BY <1>2 DEF WireInOrder
  <1>3. CASE subIn' = Append(subIn, nread) /\ Forward
    <2>1. Written \subseteq 1 .. nread /\ nread \notin Written
      BY <1>1, <1>3, WrittenGrows DEF Forward, GateInv, Stage
    <2>2. \A k \in DOMAIN subIn : subIn[k] \in Written
      BY DEF Written
    <2>3. \A k \in DOMAIN subIn : subIn[k] < nread
      <3>1. nread \in Nat
        BY <1>1, SettledStays
      <3>2. \A m \in Written : m < nread
        BY <2>1, <3>1
      <3> QED
        BY <2>2, <3>2
    <2>4. /\ DOMAIN subIn' = DOMAIN subIn \union {Len(subIn) + 1}
          /\ \A k \in DOMAIN subIn : subIn'[k] = subIn[k] /\ k < Len(subIn) + 1
          /\ subIn'[Len(subIn) + 1] = nread
      BY <1>1, <1>3
    <2>5. DOMAIN subIn \subseteq Nat /\ Len(subIn) \in Nat
      BY <1>1
    <2> QED
      BY <2>3, <2>4, <2>5 DEF WireInOrder
  <1> QED
    BY <1>2, <1>3, Changes DEF Forward

(* TrailLeadsWire: relay A handles one line at a time and audits it before *)
(* it forwards or refuses it, so neither the subprocess nor the agent is   *)
(* ever ahead of the audit trail.                                          *)
THEOREM TrailLeadsWireCorrect == Spec => []TrailLeadsWire
  <1>1. Init => TrailKeepsUp /\ WireInOrder
    BY DEF Init, TrailKeepsUp, WireInOrder
  <1>2. AnswerInv /\ TrailKeepsUp /\ WireInOrder => TrailLeadsWire
    <2> SUFFICES ASSUME AnswerInv, TrailKeepsUp, WireInOrder,
                        NEW n \in DOMAIN sent, sent[n].kind = "call",
                        answers[n] # {} \/ \E m \in Written : n <= m
                 PROVE  Recorded(n)
      BY DEF TrailLeadsWire
    <2>1. GateInv /\ FramesReal /\ Answered /\ TypeOK
      BY DEF AnswerInv, PendingInv, GateInv, TypeInv
    <2>2. /\ nread \in Nat /\ n \in Nat \ {0} /\ n \in Lines
          /\ \A m \in Written : m \in 1 .. nread
      <3>1. /\ sent \in Seq(Messages) /\ Len(sent) \in Nat
            /\ Len(sent) <= MaxLines /\ MaxLines \in Nat
            /\ nread \in 0 .. Len(sent) /\ subIn \in Seq(Lines)
        BY <2>1 DEF TypeOK
      <3>2. n \in 1 .. Len(sent)
        BY <3>1
      <3>3. \A k \in DOMAIN subIn : subIn[k] \in 1 .. nread
        BY <2>1, <3>1 DEF GateInv, TypeInv, Flow, Lines
      <3> QED
        BY <3>1, <3>2, <3>3 DEF Lines, Written
    <2>3. ASSUME NEW m \in Written, n <= m
          PROVE  Recorded(n)
      <3>1. n \in 1 .. nread
        BY <2>2, <2>3
      <3>2. CASE n = nread /\ pcA \in {"evaluate", "resolve", "audit"}
        <4>1. m = n
          BY <2>2, <2>3, <3>2
        <4> QED
          BY <2>1, <2>3, <3>2, <4>1 DEF GateInv, Stage, HandlingCall
      <3> QED
        BY <3>1, <3>2 DEF TrailKeepsUp
    <2>4. CASE answers[n] # {}
      <3>1. "reply" \in answers[n] => n \in Written
        BY <2>1, <2>2 DEF Answered, FramesReal
      <3>2. CASE "reply" \in answers[n]
        BY <2>2, <2>3, <3>1, <3>2
      <3>3. CASE answers[n] \intersect OwnAnswers # {}
        <4>1. /\ n <= nread
              /\ ~(n = nread /\ pcA \in {"evaluate", "resolve", "audit"})
          BY <2>1, <2>2, <3>3 DEF Answered
        <4> QED
          BY <2>2, <4>1 DEF TrailKeepsUp
      <3>4. answers[n] \subseteq {"reply"} \union OwnAnswers
        BY <2>1, <2>2 DEF TypeOK, OwnAnswers
      <3> QED
        BY <2>4, <3>2, <3>3, <3>4
    <2> QED
      BY <2>3, <2>4
  <1> QED
    BY <1>1, <1>2, TrailStep, WireOrderStep, AnswerInvariant, PTL DEF Spec
-------------------------------------------------------------------------------
(* The tracker.  A call that was forwarded with taint on keeps its entry   *)
(* until the frame that answers it is taken, so a tool result is observed  *)
(* before it is relayed, and never under another call's tool.              *)

OnWire(n) == \E k \in DOMAIN subOut : subOut[k].line = n

OnceOnWire ==
  \A j, k \in DOMAIN subOut : subOut[j].line = subOut[k].line => j = k

Noted(m) == m.kind = "call" /\ m.id # NoId => pending[m.id] # None

InFlightNoted ==
  opts.taint # "off" =>
    /\ pcA = "forward" => Noted(Line)
    /\ \A n \in Written : n \notin replied \/ OnWire(n) => Noted(sent[n])

SourceReal ==
  pcB = "observe" =>
    /\ source # None /\ sent[reply.line].kind = "call"
    /\ sent[reply.line].tool = source

WireInv == AnswerInv /\ OnceOnWire /\ InFlightNoted /\ SourceReal

(* A call is on the wire at most once and in the map while it is there.    *)
LEMMA WireStep ==
  ASSUME WireInv, [Next]_vars
  PROVE  OnceOnWire' /\ InFlightNoted'
  <1> USE DEF varsA, varsB, varsEnv, history
  <1>1. /\ GateInv /\ TypeOK /\ FramesReal /\ IdsNameLines /\ OnceOnWire
        /\ InFlightNoted /\ AnswerInv
    BY DEF WireInv, AnswerInv, PendingInv, GateInv, TypeInv
  <1>2. /\ nread \in Nat /\ nread <= Len(sent)
        /\ Written \subseteq 1 .. nread /\ replied \subseteq Written
        /\ \A n \in 1 .. nread : sent'[n] = sent[n] /\ n \in DOMAIN sent
                                 /\ sent[n] \in Messages
        /\ pcA \notin {"scan", "stopped"} => nread \in 1 .. nread
    <2>1. sent \in Seq(Messages) /\ nread \in 0 .. Len(sent)
      BY <1>1 DEF TypeOK
    <2>2. pcA \notin {"scan", "stopped"} => nread \in 1 .. nread
      BY <2>1, <1>1 DEF GateInv, TypeInv, InHand
    <2> QED
      BY <1>1, <2>1, <2>2, WrittenGrows, SettledStays DEF FramesReal
  <1>3. \A m \in Messages : m.id # NoId => m.id \in Ids
    BY MessageKinds
  <1>4. CASE SubReplies
    <2>1. PICK k \in DOMAIN subIn, text \in Values \union {Empty, Error} :
            /\ subIn[k] \notin replied
            /\ replies' = replies \union {[line |-> subIn[k], text |-> text]}
            /\ subOut' = Append(subOut, [line |-> subIn[k], text |-> text])
      BY <1>4 DEF SubReplies
    <2> DEFINE f == [line |-> subIn[k], text |-> text]
    <2>2. /\ UNCHANGED <<subIn, sent, opts, nread, pending, pcA>>
          /\ Written' = Written
      BY <1>4 DEF SubReplies, Written
    <2>3. f.line = subIn[k]
      OBVIOUS
    <2>4. /\ DOMAIN subOut' = DOMAIN subOut \union {Len(subOut) + 1}
          /\ \A j \in DOMAIN subOut : subOut'[j] = subOut[j]
          /\ subOut'[Len(subOut) + 1] = f
      BY <1>1, <2>1 DEF TypeOK
    <2>5. /\ \A j \in DOMAIN subOut : subOut[j].line # subIn[k]
          /\ replied' = replied \union {subIn[k]}
      <3>1. \A j \in DOMAIN subOut : subOut[j].line \in replied
        BY <1>1 DEF FramesReal, Frame, replied
      <3>2. replies' = replies \union {f}
        BY <2>1
      <3> HIDE DEF f
      <3>3. replied' = replied \union {subIn[k]}
        BY <2>3, <3>2 DEF replied
      <3> QED
        BY <2>1, <3>1, <3>3
    <2> HIDE DEF f
    <2>6. OnceOnWire'
      BY <1>1, <2>3, <2>4, <2>5 DEF OnceOnWire
    <2>7. \A n \in Written : (n \notin replied' \/ OnWire(n)') =>
                             (n \notin replied \/ OnWire(n))
      <3>1. subIn[k] \notin replied
        BY <2>1
      <3> QED
        BY <2>3, <2>4, <2>5, <3>1 DEF OnWire
    <2>8. InFlightNoted'
      BY <1>1, <2>2, <2>7 DEF InFlightNoted, Noted, Line
    <2> QED
      BY <2>6, <2>8
  <1>5. CASE ScanFrame
    <2>1. /\ subOut # <<>> /\ 1 \in DOMAIN subOut
          /\ \A j \in DOMAIN subOut' :
               j + 1 \in DOMAIN subOut /\ subOut'[j] = subOut[j + 1] /\ j \in Nat \ {0}
          /\ Head(subOut) = subOut[1]
      BY <1>1, <1>5 DEF ScanFrame, TypeOK
    <2>2. /\ UNCHANGED <<subIn, sent, opts, nread, replied, pcA>>
          /\ Written' = Written
      BY <1>5 DEF ScanFrame, Written, replied
    <2>3. OnceOnWire'
      BY <1>1, <2>1 DEF OnceOnWire
    <2>4. \A n \in Written : OnWire(n)' => OnWire(n) /\ n # subOut[1].line
      <3>1. ASSUME NEW n \in Written, NEW j \in DOMAIN subOut', subOut'[j].line = n
            PROVE  OnWire(n) /\ n # subOut[1].line
        <4>1. j + 1 \in DOMAIN subOut /\ subOut[j + 1].line = n /\ j + 1 # 1
          BY <2>1, <3>1
        <4> QED
          BY <1>1, <2>1, <4>1 DEF OnWire, OnceOnWire
      <3> QED
        BY <3>1 DEF OnWire
    <2>5. Frame(subOut[1])
      BY <1>1, <2>1 DEF FramesReal
    <2>6. \A i \in Ids : pending'[i] = pending[i] \/ i = sent[subOut[1].line].id
      BY <1>1, <1>5, <2>1 DEF ScanFrame, InFlight, TypeOK
    <2>7. subOut[1].line \in replied /\ subOut[1].line \in Written
          /\ subOut[1].line \in DOMAIN sent
      BY <1>2, <2>5 DEF Frame, replied
    <2>8. ASSUME NEW n \in 1 .. nread, n # subOut[1].line, Noted(sent[n])
          PROVE  Noted(sent[n])'
      <3>1. sent[n].id # NoId => sent[n].id # sent[subOut[1].line].id
        BY <1>1, <1>2, <2>7, <2>8 DEF IdsNameLines
      <3>2. sent[n] \in Messages
        BY <1>2
      <3> QED
        BY <1>3, <2>2, <2>6, <2>8, <3>1, <3>2 DEF Noted
    <2>9. pcA = "forward" => nread # subOut[1].line
      BY <1>1, <2>7 DEF GateInv, Stage
    <2>10. ASSUME opts.taint # "off", pcA = "forward" PROVE Noted(Line)'
      BY <1>1, <1>2, <2>2, <2>8, <2>9, <2>10 DEF InFlightNoted, Line, Noted
    <2>11. ASSUME opts.taint # "off", NEW n \in Written,
                  n \notin replied \/ OnWire(n)'
           PROVE  Noted(sent[n])'
      <3>1. n # subOut[1].line /\ (n \notin replied \/ OnWire(n))
        BY <2>4, <2>7, <2>11
      <3> QED
        BY <1>1, <1>2, <2>8, <2>11, <3>1 DEF InFlightNoted
    <2>12. InFlightNoted'
      BY <2>2, <2>10, <2>11 DEF InFlightNoted
    <2> QED
      BY <2>3, <2>12
  <1>6. CASE UNCHANGED <<subOut, replies>> /\ ~ScanFrame
    <2>1. OnceOnWire' /\ replied' = replied
      BY <1>1, <1>6 DEF OnceOnWire, replied
    <2>2. \A n : OnWire(n)' <=> OnWire(n)
      BY <1>6 DEF OnWire
    <2>3. opts' = opts /\ (pending' # pending => Remember)
      BY <1>6, Changes
    <2>4. ASSUME NEW m \in Messages, Noted(m)
          PROVE  m.kind = "call" /\ m.id # NoId => pending'[m.id] # None
      <3>1. CASE Remember
        <4>1. Line \in Calls
          BY <3>1 DEF Remember, GateInv, TypeInv, InHand, HandlingCall, Line,
             WireInv, AnswerInv, PendingInv
        <4>2. Line.tool # None
          BY <4>1, MessageKinds DEF Calls
        <4> QED
          BY <1>1, <1>3, <2>4, <3>1, <4>2 DEF Remember, Noted, TypeOK
      <3> QED
        BY <2>3, <2>4, <3>1 DEF Noted
    <2>5. ASSUME opts.taint # "off", pcA' = "forward"
          PROVE  LET m == sent'[nread'] IN
                 m.kind = "call" /\ m.id # NoId => pending'[m.id] # None
      <3>1. CASE Remember
        <4>1. Line \in Calls /\ UNCHANGED <<sent, nread>>
          BY <3>1 DEF Remember, GateInv, TypeInv, InHand, HandlingCall, Line,
             WireInv, AnswerInv, PendingInv
        <4>2. Line.tool # None /\ (Line.id # NoId => Line.id \in Ids)
          BY <4>1, MessageKinds DEF Calls
        <4> QED
          BY <1>1, <2>5, <3>1, <4>1, <4>2 DEF Remember, TypeOK, Line, IsNotification
      <3>2. CASE ScanLine
        <4>1. sent' = sent /\ nread' = nread + 1 /\ sent[nread + 1] \in Messages
          BY <1>1, <3>2 DEF ScanLine, TypeOK
        <4> QED
          BY <2>5, <3>2, <4>1, MessageKinds DEF ScanLine, GotoA
      <3>3. CASE pcA = "forward" /\ nread' = nread
        BY <1>1, <1>2, <2>4, <2>5, <3>3 DEF InFlightNoted, Line
      <3>4. Remember \/ ScanLine \/ (pcA = "forward" /\ nread' = nread)
        BY <1>1, <2>5, GateFrame
        DEF GateInv, Evaluate, Settle, Audit, Forward, NextLine, GotoA,
            AfterEvaluate, AfterAudit
      <3> QED
        BY <3>1, <3>2, <3>3, <3>4
    <2>6. ASSUME opts.taint # "off", NEW n \in Written',
                 n \notin replied \/ OnWire(n)
          PROVE  LET m == sent'[n] IN
                 m.kind = "call" /\ m.id # NoId => pending'[m.id] # None
      <3>1. n \in Written \/ (Forward /\ n = nread)
        BY <1>1, WrittenGrows
      <3>2. n \in 1 .. nread /\ Noted(sent[n])
        <4>1. CASE n \in Written
          BY <1>1, <1>2, <2>6, <4>1 DEF InFlightNoted
        <4>2. CASE Forward /\ n = nread
          BY <1>1, <1>2, <2>6, <4>2 DEF InFlightNoted, Forward, Line
        <4> QED
          BY <3>1, <4>1, <4>2
      <3> QED
        BY <1>2, <2>4, <3>2
    <2>7. InFlightNoted'
      BY <2>1, <2>2, <2>3, <2>5, <2>6 DEF InFlightNoted, Noted, Line
    <2> QED
      BY <2>1, <2>7
  <1> QED
    BY <1>4, <1>5, <1>6, Changes

(* The tool taken from the map is the one whose text the frame carries.    *)
LEMMA SourceStep ==
  ASSUME WireInv, [Next]_vars
  PROVE  SourceReal'
  <1> USE DEF varsA, varsB, varsEnv, history
  <1>1. /\ GateInv /\ TypeOK /\ FramesReal /\ IdsNameLines /\ PendingIsACall
        /\ SourceReal
    BY DEF WireInv, AnswerInv, PendingInv, GateInv, TypeInv
  <1>2. \A n \in replied : n \in 1 .. nread /\ sent'[n] = sent[n]
    BY <1>1, WrittenGrows, SettledStays DEF FramesReal
  <1>3. CASE ScanFrame /\ pcB' = "observe"
    <2>1. /\ 1 \in DOMAIN subOut /\ Head(subOut) = subOut[1]
          /\ reply' = subOut[1] /\ sent' = sent
      BY <1>1, <1>3 DEF ScanFrame, TypeOK
    <2>2. PICK i \in Ids : /\ i = sent[subOut[1].line].id /\ pending[i] # None
                           /\ source' = pending[i]
      BY <1>3, <2>1 DEF ScanFrame, InFlight, GotoB
    <2>3. PICK n \in 1 .. nread : /\ sent[n].kind = "call" /\ sent[n].id = i
                                  /\ sent[n].tool = pending[i]
      BY <1>1, <2>2 DEF PendingIsACall
    <2>4. subOut[1].line \in replied
      BY <1>1, <2>1 DEF FramesReal, Frame, replied
    <2>5. 1 .. nread \subseteq DOMAIN sent
      BY <1>1 DEF TypeOK
    <2>6. n = subOut[1].line
      BY <1>1, <1>2, <2>2, <2>3, <2>4, <2>5 DEF IdsNameLines
    <2> QED
      BY <2>1, <2>2, <2>3, <2>6 DEF SourceReal
  <1>4. CASE UNCHANGED <<pcB, reply, source>>
    <2>1. pcB = "observe" => reply.line \in replied
      BY <1>1 DEF FramesReal, Frame, replied
    <2> QED
      BY <1>1, <1>2, <1>4, <2>1 DEF SourceReal
  <1>5. CASE pcB' # "observe"
    BY <1>5 DEF SourceReal
  <1> QED
    BY <1>3, <1>4, <1>5, Changes DEF ScanFrameEnds, Observe, Relay, GotoB

(* The attribution of frames to calls holds at every moment.               *)
LEMMA WireInvariant == Spec => []WireInv
  <1>1. Init => OnceOnWire /\ InFlightNoted /\ SourceReal
    BY DEF Init, OnceOnWire, InFlightNoted, SourceReal, Written
  <1>2. WireInv /\ [Next]_vars => OnceOnWire' /\ InFlightNoted' /\ SourceReal'
    BY WireStep, SourceStep
  <1> QED
    BY <1>1, <1>2, AnswerInvariant, PTL DEF WireInv, Spec

(* TaintSourceReal: takePending hands relay B the tool of the call the     *)
(* frame in hand answers, so a value is filed under the tool that returned *)
(* it (proxy.go:276-289, 320-325).                                         *)
THEOREM TaintSourceRealCorrect == Spec => []TaintSourceReal
  <1>1. Init => TaintSourceReal
    BY DEF Init, TaintSourceReal
  <1>2. ASSUME WireInv, TaintSourceReal, [Next]_vars PROVE TaintSourceReal'
    <2>1. GateInv /\ TypeOK /\ FramesReal /\ SourceReal
      BY <1>2 DEF WireInv, AnswerInv, PendingInv, GateInv, TypeInv
    <2>2. /\ replies \subseteq replies'
          /\ \A f \in replies : sent'[f.line] = sent[f.line]
      <3>1. \A n \in replied : sent'[n] = sent[n]
        BY <1>2, <2>1, WrittenGrows, SettledStays DEF FramesReal
      <3>2. replies \subseteq replies'
        BY <1>2, RepliesKept
      <3> QED
        BY <3>1, <3>2 DEF replied
    <2>3. ASSUME NEW v \in Values, tracked'[v] # None
          PROVE  \E f \in replies :
                   /\ f.text = v /\ sent[f.line].kind = "call"
                   /\ sent[f.line].tool = tracked'[v]
      <3>1. CASE tracked'[v] = tracked[v]
        BY <1>2, <2>3, <3>1 DEF TaintSourceReal
      <3>2. CASE Observe /\ v = reply.text /\ tracked'[v] = source
        BY <2>1, <3>2 DEF Observe, SourceReal, FramesReal, Frame
      <3>3. tracked'[v] = tracked[v] \/ (Observe /\ v = reply.text /\ tracked'[v] = source)
        BY <1>2, <2>1, Changes DEF Observe, TypeOK
      <3> QED
        BY <3>1, <3>2, <3>3
    <2> QED
      BY <2>2, <2>3 DEF TaintSourceReal
  <1> QED
    BY <1>1, <1>2, WireInvariant, PTL DEF Spec
-------------------------------------------------------------------------------
(* Derived calls.  What the agent has received as a tool result is in the  *)
(* tracker, or the tracker is full, and the tracker forgets nothing: so is *)
(* the argument of a derived call when Evaluate looks it up.               *)

Fragments == {v \in Values : tracked[v] # None}

Known(v) == v \in Trackable => tracked[v] # None \/ TrackerFull

SeenKnown ==
  opts.taint # "off" =>
    /\ \A v \in seen : Known(v)
    /\ pcB = "relay" /\ reply.text \in Values => Known(reply.text)

DerivedSeen == \A n \in DOMAIN sent : sent[n].derived => sent[n].arg \in seen

(* A call put to an operator who can only refuse it has nothing to fear    *)
(* from the tracker.                                                       *)
AskedFull ==
  /\ pcA = "resolve" /\ opts.taint = "deny"
  /\ Line.derived /\ Line.arg \in Trackable
  => TrackerFull

TaintInv ==
  /\ WireInv /\ IsFiniteSet(Fragments)
  /\ SeenKnown /\ DerivedSeen /\ AskedFull /\ DerivedCallsNeedApproval

(* The tracker forgets nothing, stays full once full, and Observe adds the *)
(* value it is given if there is room.                                     *)
LEMMA TrackerGrows ==
  ASSUME WireInv, IsFiniteSet(Fragments), [Next]_vars
  PROVE  /\ IsFiniteSet(Fragments)'
         /\ \A v \in Values : tracked[v] # None => tracked'[v] # None
         /\ TrackerFull => TrackerFull'
         /\ Observe /\ reply.text \in Trackable =>
              tracked'[reply.text] # None \/ TrackerFull'
  <1>1. tracked \in [Values -> Tools \union {None}] /\ Trackable \subseteq Values
        /\ MaxTracked \in Nat /\ SourceReal
    BY DEF WireInv, AnswerInv, PendingInv, GateInv, TypeInv, TypeOK
  <1>2. Cardinality(Fragments) \in Nat
    BY FS_CardinalityType
  <1>3. CASE tracked' = tracked
    <2>1. Observe /\ reply.text \in Trackable =>
            tracked[reply.text] # None \/ TrackerFull
      <3>1. SUFFICES ASSUME Observe, reply.text \in Trackable,
                            tracked[reply.text] = None
                     PROVE  TrackerFull
        OBVIOUS
      <3>2. pcB = "observe" /\ source # None
        BY <1>1, <3>1 DEF Observe, SourceReal
      <3>3. CASE Cardinality(Fragments) < MaxTracked
        <4>1. tracked' = [tracked EXCEPT ![reply.text] = source]
          BY <3>1, <3>3 DEF Observe, Fragments
        <4> QED
          BY <1>1, <1>3, <3>1, <3>2, <4>1
      <3>4. CASE ~(Cardinality(Fragments) < MaxTracked)
        BY <1>1, <1>2, <3>4 DEF TrackerFull, Fragments
      <3> QED
        BY <3>3, <3>4
    <2> QED
      BY <1>3, <2>1 DEF Fragments, TrackerFull
  <1>4. CASE /\ Observe /\ reply.text \in Trackable
             /\ tracked' = [tracked EXCEPT ![reply.text] = source]
    <2> DEFINE v == reply.text
    <2>1. source # None /\ v \in Values
      BY <1>1, <1>4 DEF Observe, SourceReal
    <2>2. tracked'[v] = source /\ \A u \in Values : u # v => tracked'[u] = tracked[u]
      BY <1>1, <1>4, <2>1
    <2> HIDE DEF v
    <2>3. Fragments' = Fragments \union {v}
      BY <2>1, <2>2 DEF Fragments
    <2>4. IsFiniteSet(Fragments') /\ Fragments \subseteq Fragments'
      BY <2>3, FS_AddElement
    <2>5. Cardinality(Fragments) <= Cardinality(Fragments')
          /\ Cardinality(Fragments') \in Nat
      BY <2>4, FS_Subset, FS_CardinalityType
    <2>6. TrackerFull <=> Cardinality(Fragments) >= MaxTracked
      BY DEF TrackerFull, Fragments
    <2>7. TrackerFull' <=> Cardinality(Fragments') >= MaxTracked
      BY DEF TrackerFull, Fragments
    <2>8. TrackerFull => TrackerFull'
      BY <1>1, <1>2, <2>5, <2>6, <2>7
    <2>9. tracked'[reply.text] # None
      BY <2>1, <2>2 DEF v
    <2> QED
      BY <2>1, <2>2, <2>4, <2>8, <2>9
  <1> QED
    BY <1>3, <1>4, Changes DEF Observe

(* A value that is tracked, or found the tracker full, stays so.           *)
LEMMA KnownStays ==
  ASSUME WireInv, IsFiniteSet(Fragments), [Next]_vars, NEW v, Known(v)
  PROVE  Known(v)'
  BY TrackerGrows DEF Known

(* What the agent has received is known, and is what it derives calls      *)
(* from.                                                                   *)
LEMMA SeenStep ==
  ASSUME TaintInv, [Next]_vars
  PROVE  SeenKnown' /\ DerivedSeen'
  <1> USE DEF varsA, varsB, varsEnv, history
  <1>1. /\ WireInv /\ GateInv /\ TypeOK /\ FramesReal /\ InFlightNoted
        /\ IsFiniteSet(Fragments) /\ SeenKnown /\ DerivedSeen
    BY DEF TaintInv, WireInv, AnswerInv, PendingInv, GateInv, TypeInv
  <1>2. opts' = opts
    BY Changes
  <1>3. seen \subseteq seen'
    BY Changes DEF Relay
  <1>4. ASSUME opts.taint # "off", NEW v \in seen'
        PROVE  Known(v)'
    <2>1. v \in seen \/ (Relay /\ v = reply.text /\ v \in Values)
      BY <1>4, Changes DEF Relay
    <2>2. Known(v)
      BY <1>1, <1>4, <2>1 DEF SeenKnown, Relay
    <2> QED
      BY <1>1, <2>2, KnownStays
  <1>5. ASSUME opts.taint # "off", pcB' = "relay", reply'.text \in Values
        PROVE  Known(reply.text)'
    <2>1. CASE ScanFrame
      <3> DEFINE f == subOut[1]
      <3>1. /\ 1 \in DOMAIN subOut /\ Head(subOut) = f /\ reply' = f
            /\ InFlight(f) = {}
        BY <1>1, <1>5, <2>1 DEF ScanFrame, TypeOK, GotoB
      <3>2. Frame(f) /\ OnWire(f.line)
        BY <1>1, <3>1 DEF FramesReal, OnWire
      <3>3. f.text \in Values /\ f.text # Error
        BY <1>5, <3>1
      <3> HIDE DEF f
      <3>4. sent[f.line].kind = "call" /\ sent[f.line].id \in Ids
            /\ f.line \in Written
        BY <1>1, <3>2, <3>3 DEF Frame, FramesReal, replied
      <3>5. pending[sent[f.line].id] = None
        BY <3>1, <3>3, <3>4 DEF InFlight
      <3>6. Noted(sent[f.line])
        BY <1>1, <1>5, <3>2, <3>4 DEF InFlightNoted
      <3> QED
        BY <3>4, <3>5, <3>6 DEF Noted
    <2>2. CASE Observe
      <3>1. reply' = reply /\ (reply.text \in Trackable =>
              tracked'[reply.text] # None \/ TrackerFull')
        BY <1>1, <2>2, TrackerGrows DEF Observe
      <3> QED
        BY <3>1 DEF Known
    <2>3. CASE pcB' = pcB /\ reply' = reply
      <3>1. Known(reply.text)
        BY <1>1, <1>5, <2>3 DEF SeenKnown
      <3>2. Known(reply.text) => \/ reply.text \notin Trackable
                                 \/ tracked[reply.text] # None \/ TrackerFull
        BY DEF Known
      <3>3. reply.text \in Trackable => tracked'[reply.text] # None \/ TrackerFull'
        BY <1>1, <3>1, <3>2, TrackerGrows
      <3> QED
        BY <2>3, <3>3 DEF Known
    <2> QED
      BY <1>5, <2>1, <2>2, <2>3, Changes DEF ScanFrameEnds, Relay, GotoB
  <1>6. SeenKnown'
    BY <1>2, <1>4, <1>5 DEF SeenKnown
  <1>7. DerivedSeen'
    <2>1. CASE AgentSends
      <3>1. PICK m \in Messages : /\ m.derived <=> m.arg \in seen
                                  /\ sent' = Append(sent, m)
        BY <2>1 DEF AgentSends
      <3>2. /\ DOMAIN sent' = DOMAIN sent \union {Len(sent) + 1}
            /\ \A n \in DOMAIN sent : sent'[n] = sent[n]
            /\ sent'[Len(sent) + 1] = m
        BY <1>1, <3>1 DEF TypeOK
      <3> QED
        BY <1>1, <1>3, <3>1, <3>2 DEF DerivedSeen
    <2>2. CASE sent' = sent
      BY <1>1, <1>3, <2>2 DEF DerivedSeen
    <2> QED
      BY <1>1, <2>1, <2>2, SentKeeps
  <1> QED
    BY <1>6, <1>7

(* What Evaluate makes of a derived call.                                  *)
LEMMA EvaluateDerived ==
  ASSUME TaintInv, Evaluate, Line.derived, Line.arg \in Trackable,
         opts.taint # "off"
  PROVE  /\ decision' = "allow" => TrackerFull
         /\ opts.taint = "deny" /\ decision' = "ask" => TrackerFull
  <1>1. /\ SeenKnown /\ DerivedSeen /\ TypeOK /\ Line \in Calls
        /\ nread \in DOMAIN sent
    <2>1. TypeOK /\ InHand /\ SeenKnown /\ DerivedSeen
      BY DEF TaintInv, WireInv, AnswerInv, PendingInv, GateInv, TypeInv
    <2> QED
      BY <2>1 DEF Evaluate, InHand, HandlingCall, Line, TypeOK
  <1>2. tracked[Line.arg] # None \/ TrackerFull
    BY <1>1 DEF SeenKnown, DerivedSeen, Known, Line
  <1>3. tracked[Line.arg] # None => Tainted(Line.arg)
    BY DEF Tainted
  <1>4. decision' = IF Tainted(Line.arg) THEN Escalated(Static[Line.tool])
                    ELSE Static[Line.tool]
    BY DEF Evaluate
  <1>5. /\ Escalated(Static[Line.tool]) # "allow"
        /\ opts.taint = "deny" => Escalated(Static[Line.tool]) # "ask"
    BY DEF Escalated
  <1> QED
    BY <1>2, <1>3, <1>4, <1>5

(* Evaluate finds the source of a derived call unless the tracker is full. *)
LEMMA DerivedStep ==
  ASSUME TaintInv, [Next]_vars
  PROVE  AskedFull' /\ DerivedCallsNeedApproval'
  <1> USE DEF varsA, varsB, varsEnv, history
  <1>1. /\ WireInv /\ GateInv /\ TypeOK /\ InHand /\ IsFiniteSet(Fragments)
        /\ AskedFull /\ DerivedCallsNeedApproval
    BY DEF TaintInv, WireInv, AnswerInv, PendingInv, GateInv, TypeInv
  <1>2. opts' = opts /\ approved \subseteq approved' /\ (TrackerFull => TrackerFull')
    BY <1>1, Changes, TrackerGrows
  <1>3. /\ nread \in Nat /\ nread' \in Nat /\ nread <= nread'
        /\ \A n \in 1 .. nread : n \in Lines /\ sent'[n] = sent[n]
        /\ \A n \in Lines : verdict[n] # "none" => verdict'[n] = verdict[n]
        /\ opts.taint \in {"off", "escalate", "deny"}
    <2>1. opts.taint \in {"off", "escalate", "deny"}
      BY <1>1 DEF TypeOK, AllConfigs
    <2> QED
      BY <1>1, <2>1, SettledStays
  <1> DEFINE Fine(n) == \/ opts.taint = "off"
                        \/ opts.taint = "escalate" /\ n \in approved
                        \/ TrackerFull
  <1>4. ASSUME NEW n, Fine(n) PROVE Fine(n)'
    BY <1>2, <1>4
  <1>5. CASE Evaluate
    <2>1. /\ UNCHANGED <<nread, sent>> /\ pcA = "evaluate"
          /\ pcA' \in {"resolve", "audit"}
          /\ pcA' = "resolve" => decision' = "ask"
          /\ verdict' = IF decision' = "ask" THEN verdict
                        ELSE [verdict EXCEPT ![nread] = decision']
      BY <1>5 DEF Evaluate, GotoA, AfterEvaluate
    <2>2. nread \in 1 .. nread /\ nread \in Lines
      BY <1>1, <1>3, <2>1 DEF InHand
    <2>3. AskedFull'
      BY <1>2, <1>5, <2>1, EvaluateDerived DEF AskedFull, Line
    <2>4. ASSUME NEW n \in 1 .. nread, sent[n].derived, sent[n].arg \in Trackable,
                 verdict'[n] = "allow"
          PROVE  Fine(n)
      <3>1. CASE verdict[n] = "allow"
        BY <1>1, <2>4, <3>1 DEF DerivedCallsNeedApproval
      <3>2. CASE verdict[n] # "allow"
        <4>1. n = nread /\ decision' = "allow"
          BY <1>1, <1>3, <2>1, <2>2, <2>4, <3>2 DEF TypeOK
        <4> QED
          BY <1>5, <2>4, <4>1, EvaluateDerived DEF Line
      <3> QED
        BY <3>1, <3>2
    <2> QED
      BY <1>4, <2>1, <2>3, <2>4 DEF DerivedCallsNeedApproval
  <1>6. CASE \E o \in Outcomes : Settle(o)
    <2>1. /\ UNCHANGED <<nread, sent>> /\ pcA = "resolve" /\ pcA' = "audit"
          /\ verdict' = [verdict EXCEPT ![nread] = decision']
          /\ decision' = "allow" => nread \in approved'
      BY <1>6 DEF Settle, GotoA, Resolve
    <2>2. nread \in 1 .. nread /\ nread \in Lines
      BY <1>1, <1>3, <2>1 DEF InHand
    <2>3. AskedFull'
      BY <2>1 DEF AskedFull
    <2>4. ASSUME NEW n \in 1 .. nread, sent[n].derived, sent[n].arg \in Trackable,
                 verdict'[n] = "allow"
          PROVE  Fine(n)'
      <3>1. CASE verdict[n] = "allow"
        BY <1>1, <1>4, <2>4, <3>1 DEF DerivedCallsNeedApproval
      <3>2. CASE verdict[n] # "allow"
        <4>1. n = nread /\ n \in approved'
          BY <1>1, <1>3, <2>1, <2>2, <2>4, <3>2 DEF TypeOK
        <4>2. opts.taint = "deny" => TrackerFull'
          BY <1>1, <1>2, <2>1, <2>4, <4>1 DEF AskedFull, Line
        <4> QED
          BY <1>2, <1>3, <4>1, <4>2
      <3> QED
        BY <3>1, <3>2
    <2> QED
      BY <2>1, <2>3, <2>4 DEF DerivedCallsNeedApproval
  <1>7. CASE verdict' = verdict /\ ~Evaluate
    <2>1. pcA' = "resolve" => pcA = "resolve" /\ nread' = nread
      <3>1. CASE ScanLine
        <4>1. sent[nread + 1] \in Messages
          BY <1>1, <3>1 DEF ScanLine, TypeOK
        <4> QED
          BY <3>1, <4>1, MessageKinds DEF ScanLine, GotoA
      <3> QED
        BY <1>1, <1>7, <3>1, GateFrame
        DEF GateInv, Settle, Audit, Remember, Forward, NextLine, GotoA,
            AfterAudit
    <2>2. pcA = "resolve" => sent'[nread] = sent[nread]
      BY <1>1, <1>3 DEF InHand
    <2>3. AskedFull'
      BY <1>1, <1>2, <2>1, <2>2 DEF AskedFull, Line
    <2>4. ASSUME NEW n \in 1 .. nread', sent'[n].derived,
                 sent'[n].arg \in Trackable, verdict[n] = "allow"
          PROVE  Fine(n)
      <3>1. n \in 1 .. nread
        <4>1. n \in Lines
          <5>1. nread' <= Len(sent') /\ Len(sent') \in Nat /\ Len(sent') <= MaxLines
            BY <1>1, TypeStep DEF TypeOK, GateInv
          <5> QED
            BY <1>3, <5>1 DEF Lines
        <4>2. ~(n > nread)
          BY <1>1, <2>4, <4>1 DEF GateInv, Untouched
        <4> QED
          BY <1>3, <4>1, <4>2 DEF Lines
      <3> QED
        BY <1>1, <1>3, <2>4, <3>1 DEF DerivedCallsNeedApproval
    <2> QED
      BY <1>4, <1>7, <2>3, <2>4 DEF DerivedCallsNeedApproval
  <1> QED
    BY <1>5, <1>6, <1>7, Changes

(* DerivedCallsNeedApproval: for every interleaving of the relays, a call  *)
(* made from a tool result the agent had received is not let through on    *)
(* the policy's word.                                                      *)
THEOREM DerivedCallsNeedApprovalCorrect == Spec => []DerivedCallsNeedApproval
  <1> DEFINE Rest == /\ IsFiniteSet(Fragments)
                     /\ SeenKnown /\ DerivedSeen /\ AskedFull
                     /\ DerivedCallsNeedApproval
  <1>1. Init => Rest
    <2> SUFFICES ASSUME Init PROVE Rest
      OBVIOUS
    <2>1. Fragments = {}
      BY DEF Init, Fragments
    <2> QED
      BY <2>1, FS_EmptySet
      DEF Init, SeenKnown, DerivedSeen, AskedFull, DerivedCallsNeedApproval
  <1>2. WireInv /\ Rest /\ [Next]_vars => Rest'
    BY TrackerGrows, SeenStep, DerivedStep DEF TaintInv
  <1>3. Rest => DerivedCallsNeedApproval
    OBVIOUS
  <1> HIDE DEF Rest
  <1> QED
    BY <1>1, <1>2, <1>3, WireInvariant, PTL DEF Spec
===============================================================================
