------------------------------ MODULE AuditSink ------------------------------
(***************************************************************************)
(* The asynchronous audit sink, internal/audit/sink.go: a bounded channel  *)
(* that Emit never blocks on, and one goroutine that collects the events   *)
(* into batches and delivers them.  A batch whose delivery fails is not    *)
(* tried again: the failure is a warning on stderr.                        *)
(*                                                                         *)
(* Over HTTP a batch arrives whole or not at all; over syslog its events   *)
(* are written one by one and the rest are given up at the first error.    *)
(***************************************************************************)
EXTENDS Naturals, Sequences, SequencesExt

CONSTANTS
  BufferSize,   \* sinkBufferSize
  BatchSize     \* sinkBatchSize

ASSUME SinkAssumption == BufferSize \in Nat \ {0} /\ BatchSize \in Nat \ {0}

VARIABLES
  sink,      \* "off", or whether Close has been called or has returned
  ch,        \* the channel
  batch,     \* the events run has collected
  flushing,  \* run is in flush
  dropped,   \* the events the channel had no room for
  sent,      \* the events delivered
  failed     \* the events of batches whose delivery failed

sinkVars == <<sink, ch, batch, flushing, dropped, sent, failed>>

SinkInit ==
  /\ sink = "off" /\ ch = <<>> /\ batch = <<>> /\ flushing = FALSE
  /\ dropped = {} /\ sent = <<>> /\ failed = {}

(* ParseSinks started the goroutine.                                       *)
OpenSink ==
  /\ sink = "off" /\ sink' = "open"
  /\ UNCHANGED <<ch, batch, flushing, dropped, sent, failed>>

(* Defect: the channel is one place larger than sinkBufferSize.            *)
EmitOverfull(e) ==
  /\ sink # "off"
  /\ IF Len(ch) <= BufferSize
     THEN ch' = Append(ch, e) /\ UNCHANGED dropped
     ELSE dropped' = dropped \union {e} /\ UNCHANGED ch
  /\ UNCHANGED <<sink, batch, flushing, sent, failed>>

Emit(e) ==
  /\ sink # "off"
  /\ IF Len(ch) < BufferSize
     THEN ch' = Append(ch, e) /\ UNCHANGED dropped
     ELSE dropped' = dropped \union {e} /\ UNCHANGED ch
  /\ UNCHANGED <<sink, batch, flushing, sent, failed>>

Receive ==
  /\ sink \in {"open", "closing"} /\ ~flushing /\ ch # <<>>
  /\ ch' = Tail(ch) /\ batch' = Append(batch, Head(ch))
  /\ flushing' = (Len(batch) + 1 >= BatchSize)
  /\ UNCHANGED <<sink, dropped, sent, failed>>

(* The ticker, or the closed channel once it is empty.                     *)
Flush ==
  /\ sink \in {"open", "closing"} /\ ~flushing /\ batch # <<>>
  /\ flushing' = TRUE
  /\ UNCHANGED <<sink, ch, batch, dropped, sent, failed>>

(* deliver got k events across.                                            *)
Deliver ==
  /\ flushing /\ flushing' = FALSE
  /\ \E k \in 0 .. Len(batch) :
       /\ sent' = sent \o SubSeq(batch, 1, k)
       /\ failed' = failed \union ToSet(SubSeq(batch, k + 1, Len(batch)))
  /\ batch' = <<>>
  /\ UNCHANGED <<sink, ch, dropped>>

(* Close closes the channel, then waits for run.                           *)
CloseSink ==
  /\ sink = "open" /\ sink' = "closing"
  /\ UNCHANGED <<ch, batch, flushing, dropped, sent, failed>>

(* run has met the end of the channel and has nothing left to flush.       *)
Drained ==
  /\ sink = "closing" /\ ch = <<>> /\ batch = <<>> /\ ~flushing
  /\ sink' = "closed"
  /\ UNCHANGED <<ch, batch, flushing, dropped, sent, failed>>

(* run.  The ticker fires every second, and deliver gives up after ten    *)
(* (HTTP) or five (syslog): run is never stuck.                            *)
Run == Receive \/ Flush \/ Deliver \/ Drained
===============================================================================
