------------------------------ MODULE TTYApproval ------------------------------
(***************************************************************************)
(* approval.TTYApprover: goroutines that need an ask decision share one    *)
(* terminal.  Request holds the approver's mutex from the prompt to the    *)
(* answer; the read itself runs in a goroutine of its own, which cannot be *)
(* cancelled and so may outlive the Request that started it.               *)
(***************************************************************************)
EXTENDS Naturals, Sequences, FiniteSets

CONSTANTS
  Calls,      \* the tool calls Request is called for
  None,       \* no call
  Untimed,    \* calls whose context may never end: every call of a run without
              \* --approval-timeout, and a batch's in any run
  TypesAhead  \* the operator may type more than one line at a prompt

ASSUME ApprovalAssumption ==
  None \notin Calls /\ Untimed \subseteq Calls /\ TypesAhead \in BOOLEAN

VARIABLES
  at,         \* where the Request of each call stands
  holder,     \* the call whose Request holds TTYApprover.mu
  ended,      \* the calls whose context is done: deadline or cancellation
  pending,    \* TTYApprover.pending: the call whose read it holds, if any
  readers,    \* the calls whose read goroutine waits for a line
  channel,    \* what each read goroutine has sent, "none" before
  tty,        \* lines typed that no goroutine has read
  hungUp,     \* the terminal is gone
  result      \* what Request returned

(* History: the prompts shown, how many lines the operator typed at each,  *)
(* and the prompt the line that decided a call was typed at.               *)
VARIABLES shown, typed, answered

code == <<at, holder, pending, readers, channel, result>>
world == <<ended, tty, hungUp, typed>>
vars == <<code, world, shown, answered>>

Answers == {"yes", "no"}

(* A line is what was typed and the prompt it was meant for.               *)
Lines == [says : Answers, at : Calls]

Init ==
  /\ at = [c \in Calls |-> "away"] /\ holder = None
  /\ ended = {} /\ pending = None /\ readers = {}
  /\ channel = [c \in Calls |-> "none"]
  /\ tty = <<>> /\ hungUp = FALSE
  /\ result = [c \in Calls |-> "none"]
  /\ shown = {} /\ typed = [c \in Calls |-> 0]
  /\ answered = [c \in Calls |-> None]

-------------------------------------------------------------------------------
(* The operator, the terminal and the contexts.                            *)

(* A line may come long after its prompt; without TypesAhead the operator  *)
(* gives each prompt one line at most, in the order of the prompts.        *)
TypeLine ==
  \E c \in shown, s \in Answers :
    /\ typed[c] < (IF TypesAhead THEN 2 ELSE 1)
    /\ tty' = Append(tty, [says |-> s, at |-> c])
    /\ typed' = [typed EXCEPT ![c] = @ + 1]

OperatorTypes ==
  /\ ~hungUp
  /\ TypeLine
  /\ UNCHANGED <<code, ended, hungUp, shown, answered>>

(* The input may end in the middle of a line: what was typed of it is read *)
(* as a line, so a y without its newline still approves.                   *)
HangUp ==
  /\ ~hungUp
  /\ hungUp' = TRUE
  /\ TypeLine \/ UNCHANGED <<tty, typed>>
  /\ UNCHANGED <<code, ended, shown, answered>>

ContextEnds(c) ==
  /\ at[c] \notin {"away", "done"}
  /\ c \notin ended \union Untimed
  /\ ended' = ended \union {c}
  /\ UNCHANGED <<code, tty, hungUp, typed, shown, answered>>

-------------------------------------------------------------------------------
(* Request.                                                                *)

Goto(c, label) == at' = [at EXCEPT ![c] = label]

(* Returning unlocks the mutex.                                            *)
Return(c, r) ==
  /\ Goto(c, "done")
  /\ holder' = None
  /\ result' = [result EXCEPT ![c] = r]

Arrive(c) ==
  /\ at[c] = "away"
  /\ Goto(c, "lock")
  /\ UNCHANGED <<holder, pending, readers, channel, result, world, shown,
                 answered>>

Lock(c) ==
  /\ at[c] = "lock"
  /\ holder = None
  /\ holder' = c
  /\ Goto(c, "begin")
  /\ UNCHANGED <<pending, readers, channel, result, world, shown, answered>>

(* A context that is already done asks nobody.                             *)
TooLate(c) ==
  /\ at[c] = "begin"
  /\ c \in ended
  /\ Return(c, "ended")
  /\ UNCHANGED <<pending, readers, channel, world, shown, answered>>

(* Defect: the prompt is shown whatever an earlier Request left behind.    *)
NeedsNoDrain == TRUE

Fresh == pending = None

(* discardStalePending: nothing to discard, or the notice.                 *)
Begin(c) ==
  /\ at[c] = "begin"
  /\ c \notin ended
  /\ Goto(c, IF Fresh THEN "prompt" ELSE "drain")
  /\ UNCHANGED <<holder, pending, readers, channel, result, world, shown,
                 answered>>

(* The old read has ended: its line goes nowhere.                          *)
Drain(c) ==
  /\ at[c] = "drain"
  /\ channel[pending] # "none"
  /\ pending' = None
  /\ Goto(c, "prompt")
  /\ UNCHANGED <<holder, readers, channel, result, world, shown, answered>>

(* Defect: giving up the drain forgets the read it was waiting for.        *)
DrainEndsForgetting(c) ==
  /\ at[c] = "drain"
  /\ c \in ended
  /\ pending' = None
  /\ Return(c, "ended")
  /\ UNCHANGED <<readers, channel, world, shown, answered>>

(* Defect: the drain does not watch its context.                           *)
DrainEndsNever(c) ==
  FALSE /\ UNCHANGED vars

(* The context bounds the drain.                                           *)
DrainEnds(c) ==
  /\ at[c] = "drain"
  /\ c \in ended
  /\ Return(c, "ended")
  /\ UNCHANGED <<pending, readers, channel, world, shown, answered>>

Prompt(c) ==
  /\ at[c] = "prompt"
  /\ shown' = shown \union {c}
  /\ readers' = readers \union {c}
  /\ Goto(c, "wait")
  /\ UNCHANGED <<holder, pending, channel, result, world, answered>>

(* Writing the notice or the prompt fails.                                 *)
WriteFails(c) ==
  /\ at[c] \in {"drain", "prompt"}
  /\ hungUp
  /\ Return(c, "io_error")
  /\ UNCHANGED <<pending, readers, channel, world, shown, answered>>

(* The read goroutine.  The end of the input with nothing left to read is  *)
(* a no; any other error is sent as it is, and drops what was typed.       *)
Read(c) ==
  /\ c \in readers
  /\ readers' = readers \ {c}
  /\ \/ /\ tty # <<>>
        /\ channel' = [channel EXCEPT ![c] = Head(tty).says]
        /\ answered' = [answered EXCEPT ![c] = Head(tty).at]
        /\ tty' = Tail(tty)
     \/ /\ hungUp
        /\ \E r \in {"no", "io_error"} : channel' = [channel EXCEPT ![c] = r]
        /\ tty' = <<>>
        /\ UNCHANGED answered
  /\ UNCHANGED <<at, holder, pending, result, ended, hungUp, typed, shown>>

Answered(c) ==
  /\ at[c] = "wait"
  /\ channel[c] # "none"
  /\ Return(c, channel[c])
  /\ UNCHANGED <<pending, readers, channel, world, shown, answered>>

(* Defect: the mutex is left locked when a prompt times out.               *)
GiveUpLocked(c) ==
  /\ at[c] = "wait"
  /\ c \in ended
  /\ pending' = c
  /\ Goto(c, "done")
  /\ result' = [result EXCEPT ![c] = "ended"]
  /\ UNCHANGED <<holder, readers, channel, world, shown, answered>>

(* The context ends first, or the select picks it: the read goes on.       *)
GiveUp(c) ==
  /\ at[c] = "wait"
  /\ c \in ended
  /\ pending' = c
  /\ Return(c, "ended")
  /\ UNCHANGED <<readers, channel, world, shown, answered>>

Request(c) ==
  \/ Lock(c) \/ TooLate(c) \/ Begin(c) \/ Drain(c) \/ DrainEnds(c) \/ Prompt(c)
  \/ WriteFails(c) \/ Answered(c) \/ GiveUp(c)

Quiet ==
  /\ \A c \in Calls : at[c] = "done"
  /\ UNCHANGED vars

Next ==
  \/ OperatorTypes \/ HangUp
  \/ \E c \in Calls : ContextEnds(c) \/ Arrive(c) \/ Request(c) \/ Read(c)
  \/ Quiet

Spec == Init /\ [][Next]_vars

(* Goroutines run, the mutex hands itself to every waiter, and a deadline  *)
(* passes.  Nothing is assumed of the operator.                            *)
Fairness ==
  \A c \in Calls :
    WF_vars(Request(c)) /\ WF_vars(Read(c)) /\ WF_vars(ContextEnds(c))

FairSpec == Spec /\ Fairness

-------------------------------------------------------------------------------
(* Properties.                                                             *)

(* The mutex is held exactly from Lock to Return.                          *)
TypeOK ==
  /\ \A c \in Calls : holder = c <=> at[c] \notin {"away", "lock", "done"}
  /\ at \in [Calls -> {"away", "lock", "begin", "drain", "prompt", "wait",
                       "done"}]
  /\ holder \in Calls \union {None} /\ pending \in Calls \union {None}
  /\ ended \subseteq Calls \ Untimed /\ readers \subseteq Calls
  /\ channel \in [Calls -> Answers \union {"none", "io_error"}]
  /\ tty \in Seq(Lines) /\ hungUp \in BOOLEAN
  /\ result \in [Calls -> Answers \union {"none", "ended", "io_error"}]
  /\ shown \subseteq Calls /\ typed \in [Calls -> 0 .. 2]
  /\ answered \in [Calls -> Calls \union {None}]

(* approval.go:135-139: "a late keystroke can never authorize a different  *)
(* tool call": the yes that approves a call was typed at its own prompt.   *)
NoLateApproval ==
  \A c \in Calls : result[c] = "yes" => answered[c] = c

(* A prompt has the terminal to itself: while a Request waits for a line,  *)
(* no read of an earlier one is left that could take the line away.        *)
OneReader ==
  \A c \in Calls : at[c] = "wait" => readers \subseteq {c} /\ pending = None

(* Request returns in the end, though the operator never answers, when     *)
(* every context ends: one after the other, not by its own deadline, since *)
(* mu.Lock (approval.go:229) ignores the context of the call that waits.   *)
RequestsReturn ==
  \A c \in Calls : (at[c] = "lock") ~> (at[c] = "done")
===============================================================================
