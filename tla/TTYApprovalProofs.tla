--------------------------- MODULE TTYApprovalProofs ---------------------------
(***************************************************************************)
(* Proofs about the TTY approver, for any number of calls.                 *)
(***************************************************************************)
EXTENDS TTYApproval, SequenceTheorems, TLAPS

USE ApprovalAssumption DEF Answers

Unasked == {"away", "lock", "begin", "drain", "prompt"}

(* A read belongs to the prompt that waits for it or to the pending one,   *)
(* whose result must be drained before the next prompt; it sends once.     *)
ReadsOwned ==
  /\ \A c \in readers : at[c] = "wait" \/ (pending = c /\ at[c] = "done")
  /\ \A c \in readers : channel[c] = "none"
  /\ \A c \in Calls : at[c] \in Unasked => channel[c] = "none"
  /\ \A c \in Calls : at[c] \in {"prompt", "wait"} => pending = None

ReadInv == TypeOK /\ ReadsOwned

(* At most one read goroutine is left at any time.                         *)
LEMMA SingleReader ==
  ASSUME ReadInv, NEW c \in readers
  PROVE  readers = {c}
  <1> SUFFICES ASSUME NEW d \in readers PROVE d = c
    OBVIOUS
  <1>1. c \in Calls /\ d \in Calls
    BY DEF ReadInv, TypeOK
  <1>2. CASE at[c] = "wait"
    <2>1. holder = c /\ pending = None
      BY <1>1, <1>2 DEF ReadInv, TypeOK, ReadsOwned
    <2>2. at[d] = "wait"
      BY <1>1, <2>1 DEF ReadInv, ReadsOwned
    <2> QED
      BY <1>1, <2>1, <2>2 DEF ReadInv, TypeOK
  <1>3. CASE at[c] # "wait"
    <2>1. pending = c
      BY <1>3 DEF ReadInv, ReadsOwned
    <2>2. at[d] # "wait"
      BY <1>1, <2>1 DEF ReadInv, ReadsOwned
    <2> QED
      BY <2>1, <2>2 DEF ReadInv, ReadsOwned
  <1> QED
    BY <1>2, <1>3

(* Nobody reads the terminal at first.                                     *)
LEMMA InitReads == Init => ReadInv
  <1> SUFFICES ASSUME Init PROVE ReadInv
    OBVIOUS
  <1>1. TypeOK
    <2>1. tty \in Seq(Lines)
      BY DEF Init
    <2>2. \A c \in Calls : holder # c /\ at[c] = "away"
      BY DEF Init
    <2>3. typed \in [Calls -> 0 .. 2]
      BY DEF Init
    <2> QED
      BY <2>1, <2>2, <2>3 DEF Init, TypeOK
  <1>2. ReadsOwned
    BY DEF Init, ReadsOwned
  <1> QED
    BY <1>1, <1>2 DEF ReadInv

(* Every step keeps the types and the holder of the mutex.                 *)
LEMMA TypeStep == ReadInv /\ [Next]_vars => TypeOK'
  <1> SUFFICES ASSUME TypeOK, [Next]_vars PROVE TypeOK'
    BY DEF ReadInv
  <1> USE DEF TypeOK, code, world, Goto, Return
  <1>a. ASSUME TypeLine PROVE tty' \in Seq(Lines) /\ typed' \in [Calls -> 0 .. 2]
    <2>1. PICK c \in shown, s \in {"yes", "no"} :
            /\ typed[c] < (IF TypesAhead THEN 2 ELSE 1)
            /\ tty' = Append(tty, [says |-> s, at |-> c])
            /\ typed' = [typed EXCEPT ![c] = @ + 1]
      BY <1>a DEF TypeLine
    <2>2. c \in Calls /\ [says |-> s, at |-> c] \in Lines
      BY DEF Lines
    <2>3. tty' \in Seq(Lines)
      BY <2>1, <2>2
    <2>4. typed' \in [Calls -> 0 .. 2]
      BY <2>1, <2>2
    <2> QED
      BY <2>3, <2>4
  <1>1. CASE OperatorTypes
    BY <1>1, <1>a DEF OperatorTypes
  <1>2. CASE HangUp
    BY <1>2, <1>a DEF HangUp
  <1>3. ASSUME NEW c \in Calls, ContextEnds(c) PROVE TypeOK'
    BY <1>3 DEF ContextEnds
  <1>4. ASSUME NEW c \in Calls, Arrive(c) PROVE TypeOK'
    BY <1>4 DEF Arrive
  <1>5. ASSUME NEW c \in Calls, Request(c) PROVE TypeOK'
    <2>1. CASE Lock(c)
      BY <2>1 DEF Lock
    <2>2. CASE TooLate(c)
      BY <2>2 DEF TooLate
    <2>3. CASE Begin(c)
      BY <2>3 DEF Begin, Fresh
    <2>4. CASE Drain(c)
      BY <2>4 DEF Drain
    <2>5. CASE DrainEnds(c)
      BY <2>5 DEF DrainEnds
    <2>6. CASE Prompt(c)
      BY <2>6 DEF Prompt
    <2>7. CASE WriteFails(c)
      BY <2>7 DEF WriteFails
    <2>8. CASE Answered(c)
      BY <2>8 DEF Answered
    <2>9. CASE GiveUp(c)
      BY <2>9 DEF GiveUp
    <2> QED
      BY <1>5, <2>1, <2>2, <2>3, <2>4, <2>5, <2>6, <2>7, <2>8, <2>9 DEF Request
  <1>6. ASSUME NEW c \in Calls, Read(c) PROVE TypeOK'
    <2>1. CASE tty # <<>> /\ channel' = [channel EXCEPT ![c] = Head(tty).says]
               /\ answered' = [answered EXCEPT ![c] = Head(tty).at]
               /\ tty' = Tail(tty)
      <3>1. Head(tty) \in Lines /\ Tail(tty) \in Seq(Lines)
        BY <2>1
      <3>2. Head(tty).says \in {"yes", "no"} /\ Head(tty).at \in Calls
        BY <3>1 DEF Lines
      <3> QED
        BY <1>6, <2>1, <3>1, <3>2 DEF Read
    <2>2. CASE \E r \in {"no", "io_error"} :
                 /\ channel' = [channel EXCEPT ![c] = r]
                 /\ tty' = <<>> /\ answered' = answered
      <3>1. tty' \in Seq(Lines)
        BY <2>2
      <3> QED
        BY <1>6, <2>2, <3>1 DEF Read
    <2> QED
      BY <1>6, <2>1, <2>2 DEF Read
  <1>7. CASE UNCHANGED vars
    BY <1>7 DEF vars
  <1> QED
    BY <1>1, <1>2, <1>3, <1>4, <1>5, <1>6, <1>7 DEF Next, Quiet

(* A read is started only when no earlier one is left.                     *)
LEMMA ReadsStep == ReadInv /\ [Next]_vars => ReadsOwned'
  <1> SUFFICES ASSUME TypeOK, ReadsOwned, [Next]_vars PROVE ReadsOwned'
    BY DEF ReadInv
  <1> USE DEF TypeOK, ReadsOwned, Unasked, code, world, Goto, Return
  <1>1. CASE OperatorTypes
    BY <1>1 DEF OperatorTypes
  <1>2. CASE HangUp
    BY <1>2 DEF HangUp
  <1>3. ASSUME NEW c \in Calls, ContextEnds(c) PROVE ReadsOwned'
    BY <1>3 DEF ContextEnds
  <1>4. ASSUME NEW c \in Calls, Arrive(c) PROVE ReadsOwned'
    BY <1>4 DEF Arrive
  <1>5. ASSUME NEW c \in Calls, Request(c) PROVE ReadsOwned'
    <2>1. CASE Lock(c)
      BY <2>1 DEF Lock
    <2>2. CASE TooLate(c)
      BY <2>2 DEF TooLate
    <2>3. CASE Begin(c)
      BY <2>3 DEF Begin, Fresh
    (* The read drained has sent, so it is no longer among the readers.    *)
    <2>4. CASE Drain(c)
      BY <2>4 DEF Drain
    <2>5. CASE DrainEnds(c)
      BY <2>5 DEF DrainEnds
    (* No read is left: c holds the mutex and nothing is pending.          *)
    <2>6. CASE Prompt(c)
      <3>1. pending = None /\ pending' = None /\ holder = c
        BY <2>6 DEF Prompt
      <3>2. readers = {}
        BY <2>6, <3>1 DEF Prompt
      <3>3. readers' = {c} /\ at'[c] = "wait" /\ channel' = channel
        BY <2>6, <3>2 DEF Prompt
      <3>4. \A d \in Calls : at'[d] \in Unasked => at[d] \in Unasked
        BY <2>6 DEF Prompt
      <3>5. channel[c] = "none"
        BY <2>6 DEF Prompt
      <3> QED
        BY <3>1, <3>3, <3>4, <3>5
    <2>7. CASE WriteFails(c)
      BY <2>7 DEF WriteFails
    <2>8. CASE Answered(c)
      BY <2>8 DEF Answered
    (* Nobody else is at a prompt: c holds the mutex.                      *)
    <2>9. CASE GiveUp(c)
      BY <2>9 DEF GiveUp
    <2> QED
      BY <1>5, <2>1, <2>2, <2>3, <2>4, <2>5, <2>6, <2>7, <2>8, <2>9 DEF Request
  <1>6. ASSUME NEW c \in Calls, Read(c) PROVE ReadsOwned'
    <2>1. /\ readers' = readers \ {c} /\ at' = at /\ pending' = pending
          /\ \A d \in Calls : d # c => channel'[d] = channel[d]
      BY <1>6 DEF Read
    <2>2. at[c] \notin Unasked
      BY <1>6 DEF Read
    <2> QED
      BY <2>1, <2>2
  <1>7. CASE UNCHANGED vars
    BY <1>7 DEF vars
  <1> QED
    BY <1>1, <1>2, <1>3, <1>4, <1>5, <1>6, <1>7 DEF Next, Quiet

(* Every read belongs to the open prompt or to pending at all times.       *)
LEMMA ReadInvariant == Spec => []ReadInv
  <1>1. ReadInv /\ [Next]_vars => ReadInv'
    BY TypeStep, ReadsStep DEF ReadInv
  <1> QED
    BY InitReads, <1>1, PTL DEF Spec

(* Every variable keeps its type, and the mutex is held exactly while a    *)
(* Request is between Lock and Return.                                     *)
THEOREM TypeCorrect == Spec => []TypeOK
  <1>1. ReadInv => TypeOK
    BY DEF ReadInv
  <1> QED
    BY ReadInvariant, <1>1, PTL

(* While a Request waits for its line no other read goroutine is left on   *)
(* the terminal, whatever deadlines, hang-ups and answers came before.     *)
THEOREM OneReaderCorrect == Spec => []OneReader
  <1>1. ReadInv => OneReader
    <2> SUFFICES ASSUME ReadInv, NEW c \in Calls, at[c] = "wait"
                 PROVE  readers \subseteq {c} /\ pending = None
      BY DEF OneReader
    <2>1. pending = None /\ holder = c
      BY DEF ReadInv, ReadsOwned, TypeOK
    <2>2. ASSUME NEW d \in readers PROVE d = c
      BY <2>1, <2>2 DEF ReadInv, ReadsOwned, TypeOK
    <2> QED
      BY <2>1, <2>2
  <1> QED
    BY ReadInvariant, <1>1, PTL

-------------------------------------------------------------------------------
(* Late answers, when nobody types ahead.                                  *)

(* The line in the terminal, if any, is for the prompt whose read waits;   *)
(* a prompt whose read is over gets no line any more.                      *)
LinesMatched ==
  /\ Len(tty) <= 1
  /\ tty # <<>> => tty[1].at \in readers /\ typed[tty[1].at] >= 1
  /\ \A c \in shown \ readers : typed[c] >= 1 \/ hungUp
  /\ \A c \in Calls : channel[c] = "yes" => answered[c] = c
  /\ \A c \in Calls : result[c] = "yes" => channel[c] = "yes"

LateInv == ReadInv /\ LinesMatched

(* The one positive number that is at most one.                            *)
LEMMA OnlyOne == ASSUME NEW n \in Nat, n <= 1, n # 0 PROVE n = 1
  OBVIOUS

(* A queue of at most one line is empty once that line is taken.           *)
LEMMA SingleLine ==
  ASSUME NEW s \in Seq(Lines), Len(s) <= 1, s # <<>>
  PROVE  Len(s) = 1 /\ Tail(s) = <<>>
  <1>1. Len(s) \in Nat /\ Len(s) # 0
    BY EmptySeq
  <1>2. Len(s) = 1
    BY <1>1, OnlyOne
  <1>3. Tail(s) \in Seq(Lines) /\ Len(Tail(s)) = 0
    BY <1>2, HeadTailProperties
  <1> QED
    BY <1>2, <1>3, EmptySeq

(* A line that waits was typed for the read that waits for it.             *)
LEMMA LateStep ==
  ASSUME ~TypesAhead
  PROVE  LateInv /\ [Next]_vars => LinesMatched'
  <1> SUFFICES ASSUME ReadInv, LinesMatched, [Next]_vars PROVE LinesMatched'
    BY DEF LateInv
  <1>t. TypeOK /\ ReadsOwned
    BY DEF ReadInv
  <1> USE DEF code, world, Goto, Return
  (* A prompt that may still get a line has its read waiting for it.      *)
  <1>a. ASSUME ~hungUp, TypeLine, UNCHANGED readers, UNCHANGED shown
        PROVE  /\ Len(tty') = 1 /\ tty'[1].at \in readers
               /\ typed'[tty'[1].at] >= 1
               /\ \A d \in shown \ readers : typed'[d] >= 1
    <2>1. PICK c \in shown, s \in {"yes", "no"} :
            /\ typed[c] < 1
            /\ tty' = Append(tty, [says |-> s, at |-> c])
            /\ typed' = [typed EXCEPT ![c] = @ + 1]
      BY <1>a DEF TypeLine
    <2>2. c \in readers
      BY <1>a, <1>t, <2>1 DEF LinesMatched, TypeOK
    <2>3. tty = <<>>
      <3>1. readers = {c}
        BY <2>2, SingleReader
      <3> QED
        BY <2>1, <3>1, <1>t DEF LinesMatched, TypeOK
    <2>4. Len(tty') = 1 /\ tty'[1].at = c
      BY <2>1, <2>3
    <2>5. typed'[c] >= 1 /\ \A d \in Calls : d # c => typed'[d] = typed[d]
      BY <2>1, <1>t DEF TypeOK
    <2>6. \A d \in shown \ readers : typed'[d] >= 1
      BY <1>a, <2>5, <1>t DEF LinesMatched, TypeOK
    <2> QED
      BY <2>2, <2>4, <2>5, <2>6
  <1>1. CASE OperatorTypes
    <2>1. UNCHANGED <<readers, shown, hungUp, channel, answered, result>>
      BY <1>1 DEF OperatorTypes
    <2>2. ~hungUp /\ TypeLine
      BY <1>1 DEF OperatorTypes
    <2>3. UNCHANGED readers /\ UNCHANGED shown
      BY <2>1
    <2>4. /\ Len(tty') = 1 /\ tty'[1].at \in readers
          /\ typed'[tty'[1].at] >= 1
          /\ \A d \in shown \ readers : typed'[d] >= 1
      BY <2>2, <2>3, <1>a
    <2> QED
      BY <2>1, <2>4 DEF LinesMatched
  <1>2. CASE HangUp
    <2>1. CASE TypeLine
      <3>1. UNCHANGED <<readers, shown, channel, answered, result>>
        BY <1>2 DEF HangUp
      <3>2. ~hungUp
        BY <1>2 DEF HangUp
      <3>3. UNCHANGED readers /\ UNCHANGED shown
        BY <3>1
      <3>4. /\ Len(tty') = 1 /\ tty'[1].at \in readers
            /\ typed'[tty'[1].at] >= 1
            /\ \A d \in shown \ readers : typed'[d] >= 1
        BY <2>1, <3>2, <3>3, <1>a
      <3> QED
        BY <3>1, <3>4 DEF LinesMatched
    <2>2. CASE UNCHANGED <<tty, typed>>
      BY <1>2, <2>2 DEF HangUp, LinesMatched
    <2> QED
      BY <1>2, <2>1, <2>2 DEF HangUp
  <1>3. ASSUME NEW c \in Calls, ContextEnds(c) PROVE LinesMatched'
    BY <1>3 DEF ContextEnds, LinesMatched
  <1>4. ASSUME NEW c \in Calls, Arrive(c) PROVE LinesMatched'
    BY <1>4 DEF Arrive, LinesMatched
  <1>5. ASSUME NEW c \in Calls, Request(c) PROVE LinesMatched'
    <2>1. CASE Prompt(c)
      BY <2>1 DEF Prompt, LinesMatched
    <2>2. CASE Answered(c)
      BY <2>2, <1>t DEF Answered, LinesMatched, TypeOK
    <2>3. CASE Lock(c) \/ Begin(c) \/ Drain(c)
      BY <2>3 DEF Lock, Begin, Drain, LinesMatched
    <2>4. CASE TooLate(c) \/ DrainEnds(c) \/ WriteFails(c) \/ GiveUp(c)
      BY <2>4, <1>t DEF TooLate, DrainEnds, WriteFails, GiveUp, LinesMatched,
         TypeOK
    <2> QED
      BY <1>5, <2>1, <2>2, <2>3, <2>4 DEF Request
  <1>6. ASSUME NEW c \in Calls, Read(c) PROVE LinesMatched'
    <2>1. readers = {c} /\ readers' = {} /\ channel[c] = "none"
      BY <1>6, <1>t, SingleReader DEF Read, ReadsOwned
    <2>2. result[c] # "yes"
      BY <2>1 DEF LinesMatched
    <2>3. UNCHANGED <<shown, typed, hungUp, result>>
      BY <1>6 DEF Read
    <2>4. CASE tty # <<>> /\ channel' = [channel EXCEPT ![c] = Head(tty).says]
               /\ answered' = [answered EXCEPT ![c] = Head(tty).at]
               /\ tty' = Tail(tty)
      <3>1. Len(tty) = 1 /\ tty' = <<>>
        BY <2>4, <1>t, SingleLine DEF LinesMatched, TypeOK
      <3>2. Head(tty).at = c /\ typed[c] >= 1
        BY <2>1, <2>4 DEF LinesMatched
      <3>3. \A d \in shown : typed[d] >= 1 \/ hungUp
        BY <2>1, <3>2 DEF LinesMatched
      <3>4. \A d \in Calls : channel'[d] = "yes" => answered'[d] = d
        BY <2>4, <3>2, <1>t DEF LinesMatched, TypeOK
      <3>5. \A d \in Calls : result[d] = "yes" => channel'[d] = "yes"
        BY <2>2, <2>4, <1>t DEF LinesMatched, TypeOK
      <3> QED
        BY <2>1, <2>3, <3>1, <3>3, <3>4, <3>5 DEF LinesMatched
    <2>5. CASE /\ hungUp /\ tty' = <<>> /\ answered' = answered
               /\ \E r \in {"no", "io_error"} :
                    channel' = [channel EXCEPT ![c] = r]
      BY <2>1, <2>2, <2>3, <2>5, <1>t DEF LinesMatched, TypeOK
    <2> QED
      BY <1>6, <2>4, <2>5 DEF Read
  <1>7. CASE UNCHANGED vars
    BY <1>7 DEF vars, LinesMatched
  <1> QED
    BY <1>1, <1>2, <1>3, <1>4, <1>5, <1>6, <1>7 DEF Next, Quiet

(* approval.go:135-139: as long as each prompt gets one line at most, the  *)
(* yes that approves a call was typed at that call's own prompt, however   *)
(* late it came.                                                           *)
THEOREM NoLateApprovalCorrect ==
  ASSUME ~TypesAhead
  PROVE  Spec => []NoLateApproval
  <1>1. Init => LateInv
    <2> SUFFICES ASSUME Init PROVE LinesMatched
      BY InitReads DEF LateInv
    <2> QED
      BY DEF Init, LinesMatched
  <1>2. LateInv /\ [Next]_vars => LateInv'
    BY LateStep, TypeStep, ReadsStep DEF LateInv, ReadInv
  <1>3. LateInv => NoLateApproval
    BY DEF LateInv, LinesMatched, NoLateApproval
  <1> QED
    BY <1>1, <1>2, <1>3, PTL DEF Spec
===============================================================================
