------------------------------- MODULE AuditLog -------------------------------
(***************************************************************************)
(* The audit log of one path: audit.Writer and audit.Rotator appending to  *)
(* it, the files it leaves on disk, audit.VerifyChain reading them, and    *)
(* openAuditOutput picking the log up again after an exit, a crash or a    *)
(* power loss.                                                             *)
(*                                                                         *)
(* One Write runs at a time (Writer.mu).  It is cut at the system calls it *)
(* makes, for a crash can come between any two, and Close, which takes the *)
(* rotator's mutex but not the writer's, between those made under separate *)
(* holds of that mutex.                                                    *)
(*                                                                         *)
(* A file is its complete lines and what follows the last newline.  Each   *)
(* Write carries its own id, which stands for the event's hash: distinct   *)
(* events have distinct hashes and nobody rewrites a line.                 *)
(*                                                                         *)
(* What verify hashes again is the event it has unmarshalled.  A ToolCall  *)
(* keeps a number of its arguments as the text it was (UseNumber), which   *)
(* the redactor leaves alone and Write marshals as it is; into Event it is *)
(* read as a float64, and 1.0 or 9007199254740993 comes out as another     *)
(* text.  The events of check under audit.include_redacted_arguments may   *)
(* have such numbers; those of the proxies, decoded as float64, have none. *)
(***************************************************************************)
EXTENDS Integers, Sequences, FiniteSets

CONSTANTS
  Absent,         \* no file at the log's path
  NoTail,         \* the file ends with a newline, or is empty
  Corrupt,        \* a line that is not JSON
  Inexact,        \* the Writes whose event json.Unmarshal does not give back
  Configs,        \* the flags a process may be started with
  Keep,           \* --audit-keep, 0 keeps every rotated segment
  MaxWrites,      \* bound: calls of Writer.Write
  MaxStarts       \* bound: processes started on the log

(* tamper: --tamper-evident.  rotate: a size or age threshold is set.      *)
(* fsync: --audit-fsync.                                                   *)
AllConfigs == [tamper : BOOLEAN, rotate : BOOLEAN, fsync : BOOLEAN]

VARIABLES
  torn,       \* writes and power losses may leave part of a line
  active,     \* the file at the path
  segs,       \* the rotated segments on disk, by the number of the rotation
  rotations,  \* rotations made: the order of the segments' names
  pc,         \* where the process stands in Write
  opts,       \* its flags
  opened,     \* the log's file handle is usable (Rotator.f is not nil)
  session,    \* its session id: processes are numbered as they start
  seq,        \* Writer.seq
  prevHash    \* Writer.prevHash, 0 for the empty string

(* History: Writes begun, and the lines whose Write returned nil: the file *)
(* each went to and whether it was synced.                                 *)
VARIABLES writes, acked

disk == <<active, segs, rotations>>
process == <<pc, opts, opened, session, seq, prevHash>>
vars == <<torn, disk, process, writes, acked>>

Ids == 1 .. MaxWrites

Events == [id : Ids, session : 1 .. MaxStarts, seq : Ids, chained : BOOLEAN,
           prev : {0} \union Ids]

(* durable: how many of the lines a power loss cannot take.                *)
Files == [lines : Seq(Events \union {Corrupt}),
          tail : Events \union {NoTail, Corrupt}, durable : 0 .. MaxWrites]

EmptyFile == [lines |-> <<>>, tail |-> NoTail, durable |-> 0]

ASSUME LogAssumption ==
  /\ Configs \subseteq AllConfigs
  /\ Keep \in Nat
  /\ MaxWrites \in Nat /\ MaxStarts \in Nat /\ Inexact \subseteq Ids
  /\ Corrupt \notin Events /\ NoTail \notin Events \union {Corrupt}
  /\ Absent \notin Files

Init ==
  /\ torn \in BOOLEAN
  /\ active = Absent /\ segs = [r \in {} |-> EmptyFile] /\ rotations = 0
  /\ pc = "down" /\ opts \in Configs /\ opened = FALSE
  /\ session = 0 /\ seq = 0 /\ prevHash = 0
  /\ writes = 0 /\ acked = {}

OnDisk ==
  (IF active = Absent THEN {} ELSE {active})
    \union {segs[r] : r \in DOMAIN segs}

Goto(label) == pc' = label

-------------------------------------------------------------------------------
(* verifyChain.                                                            *)

(* What ReadBytes yields: a last line without its newline counts too.      *)
Entries(f) == IF f.tail = NoTail THEN f.lines ELSE Append(f.lines, f.tail)

IsChained(e) == e # Corrupt /\ e.chained

PrevOf(s, k) == IF k > 1 /\ IsChained(s[k - 1]) THEN s[k - 1].id ELSE 0

Unhashed(s, k) ==
  /\ s[k] # Corrupt /\ ~s[k].chained
  /\ \E j \in 1 .. k - 1 : IsChained(s[j])

(* Hash mismatch: the event read back is not the one that was hashed.      *)
Mismatched(s, k) == IsChained(s[k]) /\ s[k].id \in Inexact

(* prev_hash mismatch, looked at after the event's own hash.               *)
Forked(s, k) == IsChained(s[k]) /\ s[k].prev # PrevOf(s, k)

Problem(s, k) ==
  s[k] = Corrupt \/ Unhashed(s, k) \/ Mismatched(s, k) \/ Forked(s, k)

(* k is the event the scan stops at.                                       *)
StopsAt(s, k) ==
  /\ Problem(s, k)
  /\ \A j \in 1 .. k - 1 : ~Problem(s, j)

(* The verdicts of audit verify.                                           *)
Verify(f) ==
  LET s == Entries(f)
      chained == {k \in DOMAIN s : IsChained(s[k])} IN
  CASE \E k \in DOMAIN s : StopsAt(s, k) /\ s[k] = Corrupt -> "CORRUPT"
    [] \E k \in DOMAIN s : StopsAt(s, k) /\ s[k] # Corrupt -> "FAILED"
    [] OTHER -> IF chained = {} /\ s # <<>> THEN "UNCHAINED"
                ELSE IF s # <<>> /\ 1 \notin chained THEN "PARTIAL" ELSE "OK"

LastHash(f) == PrevOf(Entries(f), Len(Entries(f)) + 1)

-------------------------------------------------------------------------------
(* openAuditOutput, NewRotator and NewWriterOptions.                       *)

(* ResumeState and refuseMixedChain.                                       *)
Resumable(f) == Verify(f) = "OK"

Start ==
  /\ pc = "down"
  /\ session < MaxStarts
  /\ LET f == IF active = Absent THEN EmptyFile ELSE active IN
     \E c \in Configs :
       /\ c.tamper => Resumable(f)
       /\ opts' = c
       /\ active' = f
       /\ prevHash' = IF c.tamper THEN LastHash(f) ELSE 0
  /\ opened' = TRUE
  /\ session' = session + 1
  /\ seq' = 0
  /\ Goto("idle")
  /\ UNCHANGED <<torn, segs, rotations, writes, acked>>

-------------------------------------------------------------------------------
(* Writer.Write.                                                           *)

(* The sizes and ages of segments are left open: a non-empty segment may   *)
(* be due at any Write.                                                    *)
BeginWrite ==
  /\ pc = "idle"
  /\ writes < MaxWrites
  /\ writes' = writes + 1
  /\ Goto(IF opts.rotate THEN "rotate" ELSE "append")
  /\ UNCHANGED <<torn, disk, opts, opened, session, seq, prevHash, acked>>

(* maybeRotate, up to closing the segment that is due.                     *)
NotDue ==
  /\ pc = "rotate"
  /\ opened
  /\ Goto("append")
  /\ UNCHANGED <<torn, disk, opts, opened, session, seq, prevHash, writes,
                 acked>>

(* Defect: r.f is not set to nil, and goes on naming the closed file.      *)
CloseSegmentKept ==
  /\ pc = "rotate"
  /\ opened
  /\ Entries(active) # <<>>
  /\ Goto("rename") \/ Goto("idle")
  /\ UNCHANGED <<torn, disk, opts, opened, session, seq, prevHash, writes,
                 acked>>

CloseSegment ==
  /\ pc = "rotate"
  /\ opened
  /\ Entries(active) # <<>>
  /\ opened' = FALSE
  /\ Goto("rename") \/ Goto("idle")   \* Close of the file failed
  /\ UNCHANGED <<torn, disk, opts, session, seq, prevHash, writes, acked>>

(* The rotator has no file: os.ErrClosed.                                  *)
RotatorClosed ==
  /\ pc = "rotate"
  /\ ~opened
  /\ Goto("idle")
  /\ UNCHANGED <<torn, disk, opts, opened, session, seq, prevHash, writes,
                 acked>>

(* Defect: a segment takes the name of the one before it.                  *)
RenameOver ==
  LET name == IF rotations = 0 THEN 1 ELSE rotations IN
  /\ pc = "rename"
  /\ \/ /\ segs' = [r \in DOMAIN segs \union {name} |->
                      IF r = name THEN active ELSE segs[r]]
        /\ rotations' = name
        /\ active' = Absent
        /\ Goto("reopen")
     \/ Goto("idle") /\ UNCHANGED disk
  /\ UNCHANGED <<torn, opts, opened, session, seq, prevHash, writes, acked>>

Rename ==
  /\ pc = "rename"
  /\ \/ /\ segs' = [r \in DOMAIN segs \union {rotations + 1} |->
                      IF r = rotations + 1 THEN active ELSE segs[r]]
        /\ rotations' = rotations + 1
        /\ active' = Absent
        /\ Goto("reopen")
     \/ Goto("idle") /\ UNCHANGED disk
  /\ UNCHANGED <<torn, opts, opened, session, seq, prevHash, writes, acked>>

Reopen ==
  /\ pc = "reopen"
  /\ \/ active' = EmptyFile /\ opened' = TRUE /\ Goto("prune")
     \/ UNCHANGED <<active, opened>> /\ Goto("idle")
  /\ UNCHANGED <<torn, segs, rotations, opts, session, seq, prevHash, writes,
                 acked>>

(* Defect: one segment too many is taken for old.                          *)
ExpendableOneMore(r) == Keep > 0 /\ r <= rotations - Keep + 1

(* A segment beyond the Keep newest.                                       *)
Expendable(r) ==
  /\ Keep > 0
  /\ Cardinality({q \in DOMAIN segs : q >= r}) > Keep

(* Defect: a rotated log goes on with the chain of the old segment.        *)
PruneKeepsChain ==
  /\ pc = "prune"
  /\ \E gone \in SUBSET {r \in DOMAIN segs : Expendable(r)} :
       segs' = [r \in DOMAIN segs \ gone |-> segs[r]]
  /\ Goto("append")
  /\ UNCHANGED <<torn, active, rotations, opts, opened, session, seq, prevHash,
                 writes, acked>>

(* prune removes old segments, whose os.Remove may fail, and Write starts  *)
(* a new chain.                                                            *)
Prune ==
  /\ pc = "prune"
  /\ \E gone \in SUBSET {r \in DOMAIN segs : Expendable(r)} :
       segs' = [r \in DOMAIN segs \ gone |-> segs[r]]
  /\ prevHash' = 0
  /\ Goto("append")
  /\ UNCHANGED <<torn, active, rotations, opts, opened, session, seq, writes,
                 acked>>

Composed ==
  [id |-> writes, session |-> session, seq |-> seq + 1, chained |-> opts.tamper,
   prev |-> IF opts.tamper THEN prevHash ELSE 0]

(* The line lands behind whatever tail the file has.                       *)
WithLine(f, e) ==
  [f EXCEPT !.lines = Append(@, IF f.tail = NoTail THEN e ELSE Corrupt),
            !.tail = NoTail]

(* All of the line but its newline, or less, lands in the file.            *)
WithTorn(f, e) ==
  {[f EXCEPT !.tail = t] :
     t \in IF f.tail = NoTail THEN {e, Corrupt} ELSE {Corrupt}}

Appended ==
  /\ pc = "append"
  /\ opened
  /\ active' = WithLine(active, Composed)
  /\ seq' = seq + 1
  /\ prevHash' = IF opts.tamper THEN writes ELSE prevHash
  /\ Goto("sync")
  /\ UNCHANGED <<torn, segs, rotations, opts, opened, session, writes, acked>>

(* Defect: the sequence number is taken before the write.                  *)
AppendFailedNumbered ==
  /\ pc = "append"
  /\ Goto("idle")
  /\ seq' = seq + 1
  /\ UNCHANGED <<torn, disk, opts, opened, session, prevHash, writes, acked>>

(* Signing, marshalling or the write itself fails: the file is closed, the *)
(* disk is full, or part of the line was written.                          *)
AppendFailed ==
  /\ pc = "append"
  /\ Goto("idle")
  /\ \/ UNCHANGED active
     \/ torn /\ opened /\ active' \in WithTorn(active, Composed)
  /\ UNCHANGED <<torn, segs, rotations, opts, opened, session, seq, prevHash,
                 writes, acked>>

Flushed(f) == [f EXCEPT !.durable = Len(f.lines)]

(* The event is committed and handed to the sink; with --audit-fsync an    *)
(* error of Sync is returned all the same.                                 *)
Sync ==
  /\ pc = "sync"
  /\ Goto("idle")
  /\ \/ /\ opts.fsync => opened
        /\ active' = IF opts.fsync THEN Flushed(active) ELSE active
        /\ acked' = acked \union {[id |-> writes, file |-> rotations + 1,
                                   synced |-> opts.fsync]}
     \/ opts.fsync /\ UNCHANGED <<active, acked>>
  /\ UNCHANGED <<torn, segs, rotations, opts, opened, session, seq, prevHash,
                 writes>>

-------------------------------------------------------------------------------
(* The end of a process.                                                   *)

(* The closer of openAuditOutput: it waits for Rotator.mu, which Write     *)
(* holds throughout maybeRotate, and flushes the file if it can.           *)
Close ==
  /\ opened
  /\ pc \in {"idle", "append", "sync"}
  /\ opened' = FALSE
  /\ active' \in {active} \union (IF opts.fsync THEN {Flushed(active)} ELSE {})
  /\ UNCHANGED <<torn, segs, rotations, pc, opts, session, seq, prevHash, writes, acked>>

Down ==
  /\ Goto("down")
  /\ opened' = FALSE /\ seq' = 0 /\ prevHash' = 0
  /\ UNCHANGED <<opts, session, writes>>

(* Exit or crash: what was written is in the page cache.                   *)
Exit ==
  /\ pc # "down"
  /\ Down
  /\ UNCHANGED <<torn, disk, acked>>

(* What a power loss may leave of a file: the synced lines, some of those  *)
(* after them and, of the next, nothing, a part, or all but the newline.   *)
Remains(f) ==
  LET s == Entries(f)
      Cut(n, t) == [lines |-> SubSeq(f.lines, 1, n), tail |-> t, durable |-> n]
      Tails(n) == IF torn /\ n < Len(s) THEN {NoTail, Corrupt, s[n + 1]}
                  ELSE {NoTail} IN
  UNION {{Cut(n, t) : t \in Tails(n)} : n \in f.durable .. Len(f.lines)}

PowerLoss ==
  /\ Down
  /\ active' \in IF active = Absent THEN {Absent} ELSE Remains(active)
  /\ segs' \in {left \in [DOMAIN segs -> UNION {Remains(f) : f \in OnDisk}] :
                  \A r \in DOMAIN segs : left[r] \in Remains(segs[r])}
  /\ acked' = {a \in acked : a.synced}
  /\ UNCHANGED <<torn, rotations>>

Next ==
  \/ Start
  \/ BeginWrite \/ NotDue \/ CloseSegment \/ RotatorClosed \/ Rename \/ Reopen
  \/ Prune \/ Appended \/ AppendFailed \/ Sync
  \/ Close \/ Exit \/ PowerLoss

Spec == Init /\ [][Next]_vars

-------------------------------------------------------------------------------
(* Properties.                                                             *)

TypeOK ==
  /\ torn \in BOOLEAN
  /\ active \in Files \union {Absent}
  /\ rotations \in 0 .. MaxWrites
  /\ DOMAIN segs \subseteq 1 .. rotations
  /\ \A r \in DOMAIN segs : segs[r] \in Files
  /\ pc \in {"down", "idle", "rotate", "rename", "reopen", "prune", "append",
             "sync"}
  /\ opts \in Configs
  /\ opened \in BOOLEAN /\ (opened => active # Absent)
  /\ session \in 0 .. MaxStarts
  /\ seq \in 0 .. MaxWrites /\ prevHash \in 0 .. MaxWrites
  /\ writes \in 0 .. MaxWrites
  /\ acked \subseteq [id : Ids, file : 1 .. MaxWrites + 1, synced : BOOLEAN]

(* docs/threat-model.md:329-334: damage is diagnosed distinctly from       *)
(* tampering.  Nobody tampers here, and whatever failed, tore, crashed or  *)
(* lost power, no file is half chained, and an event names another than    *)
(* the one before it only behind a line that verify stops at anyway.       *)
(* FAILED it says of two logs only: one a process went on with without     *)
(* --tamper-evident, and one with an event that is not read back as it was *)
(* hashed.                                                                 *)
NoFalseAlarm ==
  \A f \in OnDisk :
    LET s == Entries(f) IN
    /\ Verify(f) # "PARTIAL"
    /\ \A k \in DOMAIN s : Forked(s, k) =>
         \E j \in 1 .. k - 1 : s[j] = Corrupt \/ Unhashed(s, j)
    /\ Verify(f) = "FAILED" =>
         \E k \in DOMAIN s : Unhashed(s, k) \/ Mismatched(s, k)

(* Every file holds its events in the order they were written, and the     *)
(* numbers of one session without a gap, whatever failed in between.       *)
NoGaps ==
  \A f \in OnDisk :
    LET s == Entries(f) IN
    \A k \in 2 .. Len(s) :
      (s[k - 1] # Corrupt /\ s[k] # Corrupt) =>
        /\ s[k - 1].id < s[k].id
        /\ s[k - 1].session = s[k].session => s[k].seq = s[k - 1].seq + 1

(* The file of a number: a segment, or else the active file, whose number  *)
(* is that of the rotation to come.                                        *)
Numbered(n) ==
  IF n \in DOMAIN segs THEN segs[n]
  ELSE IF n = rotations + 1 /\ active # Absent THEN active ELSE EmptyFile

(* The file an acknowledged line went to, wherever it is now.              *)
FileOf(a) == Numbered(a.file)

(* A line whose Write returned nil is in its file, through rotations,      *)
(* restarts and (synced) power losses, until Keep newer segments exist; a  *)
(* torn write may take it, and then leaves a line that says so.            *)
AckedSurvives ==
  \A a \in acked :
    Keep = 0 \/ a.file > rotations - Keep =>
      \E k \in DOMAIN FileOf(a).lines :
        IF FileOf(a).lines[k] = Corrupt THEN torn
        ELSE FileOf(a).lines[k].id = a.id

OnlyAppends(n) ==
  LET old == Numbered(n).lines
      new == Numbered(n)'.lines
  IN  /\ \A k \in DOMAIN old \intersect DOMAIN new : new[k] = old[k]
      /\ \A k \in DOMAIN old :
           pc' # "down" \/ k <= Numbered(n).durable => k \in DOMAIN new

(* The log is append-only: no step rewrites or moves a line of a file that *)
(* is still kept, nor lets a rotated segment take the name of another      *)
(* (rotatedName).  Lines may only go with the process, to a power loss,    *)
(* and synced ones not even then.                                          *)
AppendOnly ==
  [][\A n \in 1 .. rotations + 1 :
       Keep = 0 \/ n > rotations' - Keep => OnlyAppends(n)]_vars

(* audit.go:244-247: "retries do not produce gaps or break the chain".  If *)
(* every process ran with --tamper-evident, the log verifies whenever the  *)
(* latest Write returned nil, whatever failed before it.                   *)
RetriesKeepChain ==
  (\A c \in Configs : c.tamper) /\ (\E a \in acked : a.id = writes) =>
    \A f \in OnDisk : Verify(f) = "OK"

(* verify.go:183-184: the hash is recomputed "over the event with the Hash *)
(* field zeroed, exactly as the writer did".  If so, a log that every      *)
(* process wrote with --tamper-evident and nobody touched is not reported  *)
(* as tampered with.                                                       *)
HashedAsWritten ==
  (\A c \in Configs : c.tamper) => \A f \in OnDisk : Verify(f) # "FAILED"
===============================================================================
