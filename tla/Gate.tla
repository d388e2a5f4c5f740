--------------------------------- MODULE Gate ---------------------------------
(***************************************************************************)
(* What AgentFence promises about tools/call requests, whatever transport  *)
(* carries them: a call is settled once as allow or deny, the settled      *)
(* decision is offered to the audit trail once, and only then may an       *)
(* allowed call -- and no other -- go on to the tool server.  The trail    *)
(* may refuse the record ("lost"): both proxies log that failure and carry *)
(* on, so the promise is "recorded or its loss noticed", not "recorded".   *)
(***************************************************************************)
CONSTANT Calls  \* identities of the calls the agent makes

VARIABLES
  verdict,      \* per call, the decision the proxy acts on
  trail,        \* per call, what the audit trail holds of it
  passed        \* calls handed to the tool server

vars == <<verdict, trail, passed>>

Final == {"allow", "deny"}

Init ==
  /\ verdict = [c \in Calls |-> "none"]
  /\ trail = [c \in Calls |-> "none"]
  /\ passed = {}

Settle(c) ==
  /\ verdict[c] = "none"
  /\ \E d \in Final : verdict' = [verdict EXCEPT ![c] = d]
  /\ UNCHANGED <<trail, passed>>

Record(c) ==
  /\ verdict[c] # "none"
  /\ trail[c] = "none"
  /\ \E r \in {verdict[c], "lost"} : trail' = [trail EXCEPT ![c] = r]
  /\ UNCHANGED <<verdict, passed>>

Pass(c) ==
  /\ verdict[c] = "allow"
  /\ trail[c] # "none"
  /\ c \notin passed
  /\ passed' = passed \union {c}
  /\ UNCHANGED <<verdict, trail>>

Next == \E c \in Calls : Settle(c) \/ Record(c) \/ Pass(c)

Spec == Init /\ [][Next]_vars
===============================================================================
