---------------------------- MODULE AuditLogProofs ----------------------------
(***************************************************************************)
(* Proofs about the audit log, for every Keep and set of flags and any     *)
(* number of writes and processes.                                         *)
(***************************************************************************)
EXTENDS AuditLog, FiniteSetTheorems, TLAPS

Entry == Events \union {Corrupt}

-------------------------------------------------------------------------------
(* One file.  Its entries are sane when a fork is always behind a broken   *)
(* entry, no chain starts behind an unchained event, and the events are in *)
(* order.                                                                  *)

Broken(s, j) == s[j] = Corrupt \/ Unhashed(s, j)

InOrder(d, e) ==
  d.id < e.id /\ (d.session = e.session => e.seq = d.seq + 1)

Sane(s) ==
  /\ \A k \in DOMAIN s : Forked(s, k) => \E j \in 1 .. k - 1 : Broken(s, j)
  /\ \A k \in DOMAIN s : IsChained(s[k]) => s[1] = Corrupt \/ IsChained(s[1])
  /\ \A k \in 2 .. Len(s) :
       s[k - 1] # Corrupt /\ s[k] # Corrupt => InOrder(s[k - 1], s[k])

(* What e must be for s to stay sane with e behind it.                     *)
SaneNext(s, e) ==
  /\ IsChained(e) =>
       /\ s # <<>> => s[1] = Corrupt \/ IsChained(s[1])
       /\ (\E j \in DOMAIN s : Broken(s, j)) \/ e.prev = PrevOf(s, Len(s) + 1)
  /\ s # <<>> /\ s[Len(s)] # Corrupt /\ e # Corrupt => InOrder(s[Len(s)], e)

(* Whether an entry is forked or broken depends on those up to it.         *)
LEMMA SamePrefix ==
  ASSUME NEW s \in Seq(Entry), NEW t \in Seq(Entry), NEW n \in Nat,
         n <= Len(s), n <= Len(t), \A j \in 1 .. n : t[j] = s[j]
  PROVE  \A k \in 1 .. n : /\ Forked(t, k) <=> Forked(s, k)
                           /\ Broken(t, k) <=> Broken(s, k)
  <1> SUFFICES ASSUME NEW k \in 1 .. n
               PROVE  /\ Forked(t, k) <=> Forked(s, k)
                      /\ Broken(t, k) <=> Broken(s, k)
    OBVIOUS
  <1>1. t[k] = s[k] /\ \A j \in 1 .. k - 1 : t[j] = s[j]
    OBVIOUS
  <1>2. PrevOf(t, k) = PrevOf(s, k)
    <2>1. k > 1 => k - 1 \in 1 .. k - 1
      OBVIOUS
    <2> QED
      BY <1>1, <2>1 DEF PrevOf
  <1> QED
    BY <1>1, <1>2 DEF Forked, Broken, Unhashed

(* Entries cut off at the end do no harm to those before them.             *)
LEMMA SanePrefix ==
  ASSUME NEW s \in Seq(Entry), NEW t \in Seq(Entry), Sane(s), Len(t) <= Len(s),
         \A j \in 1 .. Len(t) : t[j] = s[j]
  PROVE  Sane(t)
  <1>1. DOMAIN t = 1 .. Len(t) /\ DOMAIN s = 1 .. Len(s) /\ Len(t) \in Nat
        /\ Len(s) \in Nat
    OBVIOUS
  <1>2. \A k \in 1 .. Len(t) : /\ Forked(t, k) <=> Forked(s, k)
                               /\ Broken(t, k) <=> Broken(s, k)
    BY <1>1, SamePrefix
  <1>3. ASSUME NEW k \in DOMAIN t, Forked(t, k)
        PROVE  \E j \in 1 .. k - 1 : Broken(t, j)
    <2>1. k \in DOMAIN s /\ Forked(s, k)
      BY <1>1, <1>2, <1>3
    <2>2. PICK j \in 1 .. k - 1 : Broken(s, j)
      BY <2>1 DEF Sane
    <2>3. j \in 1 .. Len(t)
      BY <1>1, <2>2
    <2> QED
      BY <1>2, <2>2, <2>3
  <1>4. ASSUME NEW k \in DOMAIN t, IsChained(t[k])
        PROVE  t[1] = Corrupt \/ IsChained(t[1])
    <2>1. k \in DOMAIN s /\ 1 \in 1 .. Len(t)
      BY <1>1
    <2> QED
      BY <1>1, <1>4, <2>1 DEF Sane
  <1>5. ASSUME NEW k \in 2 .. Len(t), t[k - 1] # Corrupt, t[k] # Corrupt
        PROVE  InOrder(t[k - 1], t[k])
    <2>1. k \in 2 .. Len(s) /\ k - 1 \in 1 .. Len(t) /\ k \in 1 .. Len(t)
      BY <1>1
    <2> QED
      BY <1>5, <2>1 DEF Sane
  <1> QED
    BY <1>3, <1>4, <1>5 DEF Sane

(* A sane sequence of entries stays so with a successor of its last.       *)
LEMMA SaneAppend ==
  ASSUME NEW s \in Seq(Entry), NEW e \in Entry, Sane(s), SaneNext(s, e)
  PROVE  Sane(Append(s, e))
  <1> DEFINE t == Append(s, e)
  <1>1. /\ t \in Seq(Entry) /\ Len(t) = Len(s) + 1 /\ Len(s) \in Nat
        /\ DOMAIN t = 1 .. Len(s) + 1 /\ DOMAIN s = 1 .. Len(s)
        /\ t[Len(s) + 1] = e
        /\ \A j \in 1 .. Len(s) : t[j] = s[j]
    OBVIOUS
  <1> HIDE DEF t
  <1>2. \A k \in 1 .. Len(s) : /\ Forked(t, k) <=> Forked(s, k)
                               /\ Broken(t, k) <=> Broken(s, k)
    BY <1>1, SamePrefix
  <1>3. s # <<>> <=> Len(s) > 0
    BY <1>1
  <1>4. ASSUME NEW k \in DOMAIN t, Forked(t, k)
        PROVE  \E j \in 1 .. k - 1 : Broken(t, j)
    <2>1. CASE k \in 1 .. Len(s)
      <3>1. PICK j \in 1 .. k - 1 : Broken(s, j)
        BY <1>1, <1>2, <1>4, <2>1 DEF Sane
      <3>2. j \in 1 .. Len(s)
        BY <1>1, <2>1
      <3> QED
        BY <1>2, <3>1, <3>2
    <2>2. CASE k = Len(s) + 1
      <3>1. IsChained(e) /\ e.prev # PrevOf(t, k)
        BY <1>1, <1>4, <2>2 DEF Forked
      <3>2. PrevOf(t, k) = PrevOf(s, k)
        BY <1>1, <2>2 DEF PrevOf
      <3>3. PICK j \in DOMAIN s : Broken(s, j)
        BY <2>2, <3>1, <3>2 DEF SaneNext
      <3>4. j \in 1 .. k - 1
        BY <1>1, <2>2
      <3> QED
        BY <1>1, <1>2, <3>3, <3>4
    <2> QED
      BY <1>1, <2>1, <2>2
  <1>5. ASSUME NEW k \in DOMAIN t, IsChained(t[k])
        PROVE  t[1] = Corrupt \/ IsChained(t[1])
    <2>1. CASE k \in 1 .. Len(s)
      <3>1. 1 \in 1 .. Len(s)
        BY <1>1, <2>1
      <3> QED
        BY <1>1, <1>5, <2>1, <3>1 DEF Sane
    <2>2. CASE k = Len(s) + 1 /\ Len(s) > 0
      <3>1. 1 \in 1 .. Len(s)
        BY <1>1, <2>2
      <3> QED
        BY <1>1, <1>3, <1>5, <2>2, <3>1 DEF SaneNext
    <2>3. CASE k = Len(s) + 1 /\ Len(s) = 0
      BY <1>1, <1>5, <2>3
    <2> QED
      BY <1>1, <2>1, <2>2, <2>3
  <1>6. ASSUME NEW k \in 2 .. Len(t), t[k - 1] # Corrupt, t[k] # Corrupt
        PROVE  InOrder(t[k - 1], t[k])
    <2>1. CASE k \in 2 .. Len(s)
      <3>1. k - 1 \in 1 .. Len(s) /\ k \in 1 .. Len(s)
        BY <1>1, <2>1
      <3> QED
        BY <1>1, <1>6, <2>1, <3>1 DEF Sane
    <2>2. CASE k = Len(s) + 1
      <3>1. k - 1 = Len(s) /\ Len(s) > 0 /\ Len(s) \in 1 .. Len(s)
        BY <1>1, <1>6, <2>2
      <3> QED
        BY <1>1, <1>3, <1>6, <2>2, <3>1 DEF SaneNext
    <2> QED
      BY <1>1, <2>1, <2>2
  <1> QED
    BY <1>4, <1>5, <1>6 DEF Sane, t
-------------------------------------------------------------------------------
(* The disk.  Only a torn write or power loss leaves part of a line.       *)

Healthy(f) ==
  /\ f \in Files
  /\ Len(f.lines) <= MaxWrites /\ f.durable <= Len(f.lines)
  /\ f.tail # NoTail \/ (\E k \in DOMAIN f.lines : f.lines[k] = Corrupt) => torn
  /\ Sane(Entries(f))

DiskInv ==
  /\ active = Absent \/ Healthy(active)
  /\ \A r \in DOMAIN segs : Healthy(segs[r])

(* A Write that has not appended its line yet.                             *)
Writing == {"rotate", "rename", "reopen", "prune", "append"}

(* Every rotation, line and number is that of one Write.                   *)
Counted ==
  /\ seq <= writes /\ rotations <= writes
  /\ pc \in Writing => seq < writes
  /\ pc \in {"rotate", "rename"} => rotations < writes
  /\ pc = "sync" => writes > 0
  /\ pc # "down" => session > 0
  /\ active # Absent =>
       /\ Len(active.lines) <= writes
       /\ pc \in Writing => Len(active.lines) < writes
       /\ \A k \in DOMAIN active.lines : active.lines[k] # Corrupt =>
            /\ active.lines[k].id <= writes
            /\ pc \in Writing => active.lines[k].id < writes
            /\ active.lines[k].session <= session

(* Where the file is while a rotation is under way.                        *)
Rotating ==
  /\ pc = "down" => ~opened
  /\ pc \in {"rename", "sync"} => active # Absent
  /\ pc \in {"rename", "reopen"} => ~opened
  /\ pc = "reopen" => active = Absent
  /\ pc = "prune" => active = EmptyFile /\ opened

(* The writer's number and hash are those of the last line of the file it  *)
(* has open: the next event continues the file, or the file is broken.     *)
Linked ==
  opened /\ pc # "prune" =>
    LET s == active.lines IN
    /\ active.tail = NoTail =>
         /\ s # <<>> /\ s[Len(s)] # Corrupt /\ s[Len(s)].session = session =>
              s[Len(s)].seq = seq
         /\ opts.tamper => \/ \E j \in DOMAIN s : Broken(s, j)
                           \/ prevHash = PrevOf(s, Len(s) + 1)
    /\ opts.tamper /\ s # <<>> => s[1] = Corrupt \/ IsChained(s[1])

(* Line k of a file is that of Write i, or a fragment that swallowed it.   *)
IsLine(f, k, i) ==
  k \in DOMAIN f.lines /\ IF f.lines[k] = Corrupt THEN torn ELSE f.lines[k].id = i

Obliged(a) == Keep = 0 \/ a.file > rotations - Keep

(* A synced line is one of those a power loss cannot take.                 *)
AckedKept ==
  /\ pc = "sync" => \E k \in DOMAIN active.lines : IsLine(active, k, writes)
  /\ \A a \in acked :
       /\ a.file <= rotations + 1
       /\ Obliged(a) => \E k \in DOMAIN FileOf(a).lines :
            IsLine(FileOf(a), k, a.id) /\ (a.synced => k <= FileOf(a).durable)

LogInv == TypeOK /\ DiskInv /\ Counted /\ Rotating /\ Linked /\ AckedKept

-------------------------------------------------------------------------------
(* What the steps do to a file.                                            *)

(* A file's entries are its lines and then its tail, if it has one.        *)
LEMMA FileFacts ==
  ASSUME NEW f \in Files
  PROVE  /\ f.lines \in Seq(Entry) /\ Len(f.lines) \in Nat
         /\ DOMAIN f.lines = 1 .. Len(f.lines)
         /\ f.durable \in 0 .. MaxWrites /\ f.durable \in Nat
         /\ f.tail \in Entry \union {NoTail}
         /\ Entries(f) \in Seq(Entry)
         /\ f.tail = NoTail => Entries(f) = f.lines
         /\ f.tail # NoTail => Entries(f) = Append(f.lines, f.tail)
         /\ Len(f.lines) <= Len(Entries(f)) /\ Len(Entries(f)) \in Nat
         /\ Len(Entries(f)) <= Len(f.lines) + 1
         /\ \A k \in 1 .. Len(f.lines) : Entries(f)[k] = f.lines[k]
  <1>1. /\ f.lines \in Seq(Entry) /\ f.durable \in 0 .. MaxWrites
        /\ f.tail \in Entry \union {NoTail}
    BY DEF Files, Entry
  <1>2. f.durable \in Nat
    BY <1>1, LogAssumption
  <1>3. f.tail = NoTail => Entries(f) = f.lines
    BY DEF Entries
  <1>4. f.tail # NoTail => f.tail \in Entry /\ Entries(f) = Append(f.lines, f.tail)
    BY <1>1 DEF Entries
  <1> QED
    BY <1>1, <1>2, <1>3, <1>4

(* A file that is sane with its tail is sane without it.                   *)
LEMMA LinesSane ==
  ASSUME NEW f \in Files, Sane(Entries(f))
  PROVE  Sane(f.lines)
  BY FileFacts, SanePrefix

(* A file made of sound parts is healthy.                                  *)
LEMMA FileMade ==
  ASSUME NEW ls \in Seq(Entry), NEW t \in Entry \union {NoTail},
         NEW d \in Nat, d <= Len(ls), Len(ls) <= MaxWrites,
         t # NoTail \/ (\E k \in DOMAIN ls : ls[k] = Corrupt) => torn,
         Sane(ls), t # NoTail => Sane(Append(ls, t))
  PROVE  Healthy([lines |-> ls, tail |-> t, durable |-> d])
  <1> DEFINE g == [lines |-> ls, tail |-> t, durable |-> d]
  <1>1. d \in 0 .. MaxWrites
    BY LogAssumption
  <1>2. g \in Files
    BY <1>1 DEF Files, Entry
  <1>3. g.lines = ls /\ g.tail = t /\ g.durable = d
    OBVIOUS
  <1> HIDE DEF g
  <1>4. Sane(Entries(g))
    BY <1>2, <1>3, FileFacts
  <1> QED
    BY <1>2, <1>3, <1>4 DEF Healthy, g

(* A file is its three parts.                                              *)
LEMMA FileIs ==
  ASSUME NEW f \in Files
  PROVE  f = [lines |-> f.lines, tail |-> f.tail, durable |-> f.durable]
  BY DEF Files

(* A file just created is healthy.                                         *)
LEMMA EmptyHealthy == Healthy(EmptyFile)
  <1>1. Sane(<<>>)
    BY DEF Sane
  <1>2. <<>> \in Seq(Entry) /\ Len(<<>>) = 0 /\ DOMAIN <<>> = {}
    OBVIOUS
  <1>3. 0 \in Nat /\ 0 <= Len(<<>>) /\ Len(<<>>) <= MaxWrites
    BY <1>2, LogAssumption
  <1>4. ~\E k \in DOMAIN <<>> : <<>>[k] = Corrupt
    BY <1>2
  <1>5. NoTail \in Entry \union {NoTail}
    OBVIOUS
  <1>6. Healthy([lines |-> <<>>, tail |-> NoTail, durable |-> 0])
    BY <1>1, <1>2, <1>3, <1>4, <1>5, FileMade
  <1> QED
    BY <1>6 DEF EmptyFile

(* An fsync makes every line durable and changes no content.               *)
LEMMA FlushedHealthy ==
  ASSUME NEW f, Healthy(f)
  PROVE  /\ Healthy(Flushed(f))
         /\ Flushed(f).lines = f.lines /\ Flushed(f).tail = f.tail
         /\ f.durable <= Flushed(f).durable
         /\ Flushed(f).durable = Len(f.lines)
  <1>1. f \in Files /\ Len(f.lines) <= MaxWrites /\ f.durable <= Len(f.lines)
    BY DEF Healthy
  <1>2. Flushed(f) = [lines |-> f.lines, tail |-> f.tail, durable |-> Len(f.lines)]
    <2>1. f = [lines |-> f.lines, tail |-> f.tail, durable |-> f.durable]
      BY <1>1, FileIs
    <2> QED
      BY <2>1 DEF Flushed
  <1>3. /\ Sane(f.lines) /\ f.tail # NoTail => Sane(Append(f.lines, f.tail))
    BY <1>1, FileFacts, LinesSane DEF Healthy
  <1>4. f.lines \in Seq(Entry) /\ f.tail \in Entry \union {NoTail}
        /\ Len(f.lines) \in Nat
    BY <1>1, FileFacts
  <1>5. Len(f.lines) <= Len(f.lines)
    BY <1>4
  <1>6. f.tail # NoTail \/ (\E k \in DOMAIN f.lines : f.lines[k] = Corrupt) => torn
    BY DEF Healthy
  <1>7. Sane(f.lines) /\ (f.tail # NoTail => Sane(Append(f.lines, f.tail)))
    BY <1>1, FileFacts, LinesSane DEF Healthy
  <1>8. Healthy([lines |-> f.lines, tail |-> f.tail, durable |-> Len(f.lines)])
    BY <1>1, <1>4, <1>5, <1>6, <1>7, FileMade
  <1> QED
    BY <1>1, <1>2, <1>8

(* Nothing but a line that swallows another may follow a fragment.         *)
LEMMA CorruptFits ==
  ASSUME NEW s PROVE SaneNext(s, Corrupt)
  BY DEF SaneNext, IsChained

(* A whole line written to a healthy file leaves it healthy, being its     *)
(* last line, or corrupt if it landed behind a fragment.                   *)
LEMMA WithLineHealthy ==
  ASSUME NEW f, Healthy(f), NEW e \in Events, Len(f.lines) < MaxWrites,
         f.tail = NoTail => SaneNext(f.lines, e)
  PROVE  /\ Healthy(WithLine(f, e))
         /\ WithLine(f, e).lines =
              Append(f.lines, IF f.tail = NoTail THEN e ELSE Corrupt)
         /\ WithLine(f, e).tail = NoTail
         /\ WithLine(f, e).durable = f.durable
  <1> DEFINE x == IF f.tail = NoTail THEN e ELSE Corrupt
             ls == Append(f.lines, x)
  <1>1. f \in Files /\ Len(f.lines) <= MaxWrites /\ f.durable <= Len(f.lines)
        /\ Sane(Entries(f))
    BY DEF Healthy
  <1>2. WithLine(f, e) = [lines |-> ls, tail |-> NoTail, durable |-> f.durable]
    <2>1. f = [lines |-> f.lines, tail |-> f.tail, durable |-> f.durable]
      BY <1>1, FileIs
    <2>2. WithLine(f, e) = [f EXCEPT !.lines = Append(f.lines, x), !.tail = NoTail]
      BY <1>1 DEF WithLine, Files
    <2> HIDE DEF x
    <2> QED
      BY <2>1, <2>2
  <1>3. x \in Entry /\ SaneNext(f.lines, x)
    BY CorruptFits DEF Entry
  <1>4. x = Corrupt => torn
    BY LogAssumption DEF Healthy
  <1>5. f.lines \in Seq(Entry) /\ f.durable \in Nat /\ Len(f.lines) \in Nat
    BY <1>1, FileFacts
  <1> HIDE DEF x
  <1>6. Sane(ls)
    BY <1>1, <1>3, <1>5, LinesSane, SaneAppend
  <1>7. /\ ls \in Seq(Entry) /\ Len(ls) = Len(f.lines) + 1
        /\ DOMAIN ls = DOMAIN f.lines \union {Len(f.lines) + 1}
        /\ \A k \in DOMAIN f.lines : ls[k] = f.lines[k]
        /\ ls[Len(f.lines) + 1] = x
    BY <1>3, <1>5
  <1>8. f.durable <= Len(ls) /\ Len(ls) <= MaxWrites
    BY <1>1, <1>5, <1>7, LogAssumption
  <1>9. (\E k \in DOMAIN ls : ls[k] = Corrupt) => torn
    BY <1>4, <1>7 DEF Healthy
  <1> HIDE DEF ls
  <1>10. Healthy([lines |-> ls, tail |-> NoTail, durable |-> f.durable])
    BY <1>5, <1>6, <1>7, <1>8, <1>9, FileMade
  <1> QED
    BY <1>2, <1>10 DEF ls, x

(* A torn write to a healthy file leaves its lines and a fragment.         *)
LEMMA WithTornHealthy ==
  ASSUME NEW f, Healthy(f), torn, NEW e \in Events,
         f.tail = NoTail => SaneNext(f.lines, e), NEW g \in WithTorn(f, e)
  PROVE  /\ Healthy(g)
         /\ g.lines = f.lines /\ g.tail # NoTail /\ g.durable = f.durable
  <1>1. f \in Files /\ Len(f.lines) <= MaxWrites /\ f.durable <= Len(f.lines)
        /\ Sane(Entries(f))
    BY DEF Healthy
  <1>2. PICK t \in (IF f.tail = NoTail THEN {e, Corrupt} ELSE {Corrupt}) :
          g = [f EXCEPT !.tail = t]
    BY DEF WithTorn
  <1>3. t \in Entry /\ t # NoTail /\ SaneNext(f.lines, t)
    BY <1>2, CorruptFits, LogAssumption DEF Entry
  <1>4. g = [lines |-> f.lines, tail |-> t, durable |-> f.durable]
    <2>1. f = [lines |-> f.lines, tail |-> f.tail, durable |-> f.durable]
      BY <1>1, FileIs
    <2> QED
      BY <1>2, <2>1
  <1>5. f.lines \in Seq(Entry) /\ f.durable \in Nat
    BY <1>1, FileFacts
  <1>6. Sane(f.lines) /\ Sane(Append(f.lines, t))
    BY <1>1, <1>3, <1>5, LinesSane, SaneAppend
  <1>7. Healthy([lines |-> f.lines, tail |-> t, durable |-> f.durable])
    BY <1>1, <1>3, <1>5, <1>6, FileMade
  <1> QED
    BY <1>3, <1>4, <1>7

(* A power loss leaves the synced lines and what it likes of the rest.     *)
LEMMA RemainsHealthy ==
  ASSUME NEW f, Healthy(f), NEW g \in Remains(f)
  PROVE  /\ Healthy(g)
         /\ Len(g.lines) <= Len(f.lines) /\ Len(g.lines) \in Nat
         /\ \A k \in 1 .. Len(g.lines) : g.lines[k] = f.lines[k]
         /\ g.durable = Len(g.lines) /\ f.durable <= g.durable
  <1>1. f \in Files /\ Len(f.lines) <= MaxWrites /\ f.durable <= Len(f.lines)
        /\ Sane(Entries(f))
    BY DEF Healthy
  <1> DEFINE s == Entries(f)
  <1>2. PICK n \in f.durable .. Len(f.lines) :
          \E t \in (IF torn /\ n < Len(s) THEN {NoTail, Corrupt, s[n + 1]}
                   ELSE {NoTail}) :
            g = [lines |-> SubSeq(f.lines, 1, n), tail |-> t, durable |-> n]
    BY DEF Remains
  <1>13. PICK t \in (IF torn /\ n < Len(s) THEN {NoTail, Corrupt, s[n + 1]}
                    ELSE {NoTail}) :
           g = [lines |-> SubSeq(f.lines, 1, n), tail |-> t, durable |-> n]
    BY <1>2
  <1>3. /\ f.lines \in Seq(Entry) /\ f.durable \in Nat /\ Len(f.lines) \in Nat
        /\ s \in Seq(Entry) /\ Len(s) \in Nat /\ Len(f.lines) <= Len(s)
        /\ \A k \in 1 .. Len(f.lines) : s[k] = f.lines[k]
        /\ DOMAIN f.lines = 1 .. Len(f.lines)
    BY <1>1, FileFacts
  <1> HIDE DEF s
  <1> DEFINE ls == SubSeq(f.lines, 1, n)
  <1>4. n \in Nat /\ n <= Len(f.lines) /\ f.durable <= n
    BY <1>3
  <1>5. /\ ls \in Seq(Entry) /\ Len(ls) = n /\ DOMAIN ls = 1 .. n
        /\ \A k \in 1 .. n : ls[k] = f.lines[k]
    BY <1>3, <1>4
  <1> HIDE DEF ls
  <1>6. Sane(ls)
    <2>1. Len(ls) <= Len(s) /\ \A k \in 1 .. Len(ls) : ls[k] = s[k]
      BY <1>3, <1>4, <1>5
    <2> QED
      BY <1>1, <1>3, <1>5, <2>1, SanePrefix DEF s
  <1>7. t \in Entry \union {NoTail} /\ (t # NoTail => torn)
    <2>1. torn /\ n < Len(s) => s[n + 1] \in Entry
      BY <1>3, <1>4
    <2> QED
      BY <1>13, <2>1 DEF Entry
  <1>8. ASSUME t # NoTail PROVE Sane(Append(ls, t))
    <2>1. CASE t = Corrupt
      BY <1>5, <1>6, <2>1, CorruptFits, SaneAppend DEF Entry
    <2>2. CASE n < Len(s) /\ t = s[n + 1]
      <3>1. /\ Append(ls, t) \in Seq(Entry) /\ Len(Append(ls, t)) = n + 1
            /\ \A k \in 1 .. n : Append(ls, t)[k] = ls[k]
            /\ Append(ls, t)[n + 1] = t
        BY <1>5, <1>7, <1>8
      <3>2. /\ Len(Append(ls, t)) <= Len(s)
            /\ \A k \in 1 .. Len(Append(ls, t)) : Append(ls, t)[k] = s[k]
        BY <1>3, <1>4, <1>5, <2>2, <3>1
      <3> QED
        BY <1>1, <1>3, <3>1, <3>2, SanePrefix DEF s
    <2> QED
      BY <1>13, <1>8, <2>1, <2>2
  <1>9. (\E k \in DOMAIN ls : ls[k] = Corrupt) => torn
    BY <1>3, <1>4, <1>5 DEF Healthy
  <1>10. n <= Len(ls) /\ Len(ls) <= MaxWrites
    BY <1>1, <1>3, <1>4, <1>5, LogAssumption
  <1>11. Healthy([lines |-> ls, tail |-> t, durable |-> n])
    BY <1>4, <1>5, <1>6, <1>7, <1>8, <1>9, <1>10, FileMade
  <1>12. g.lines = ls /\ g.durable = n
    BY <1>13 DEF ls
  <1> QED
    BY <1>13, <1>4, <1>5, <1>11, <1>12 DEF ls

-------------------------------------------------------------------------------
(* The steps.                                                              *)

(* The counters, and the numbers of files, are within their bounds.        *)
LEMMA Numbers ==
  ASSUME LogInv
  PROVE  /\ rotations \in Nat /\ writes \in Nat /\ seq \in Nat /\ session \in Nat
         /\ prevHash \in Nat /\ Keep \in Nat /\ MaxWrites \in Nat
         /\ MaxStarts \in Nat /\ writes <= MaxWrites /\ session <= MaxStarts
         /\ active # Absent => Healthy(active) /\ active \in Files
         /\ \A r \in DOMAIN segs : r \in 1 .. rotations
         /\ \A a \in acked : a.file \in Nat
         /\ EmptyFile \in Files /\ EmptyFile # Absent
         /\ EmptyFile.lines = <<>>
  <1>1. TypeOK /\ DiskInv
    BY DEF LogInv
  <1>2. EmptyFile \in Files /\ EmptyFile # Absent /\ EmptyFile.lines = <<>>
    BY EmptyHealthy, LogAssumption DEF Healthy, EmptyFile
  <1>3. \A a \in acked : a.file \in Nat
    BY <1>1 DEF TypeOK
  <1>4. active # Absent => Healthy(active) /\ active \in Files
    BY <1>1 DEF DiskInv, Healthy
  <1> QED
    BY <1>1, <1>2, <1>3, <1>4, LogAssumption DEF TypeOK

(* What was acknowledged stays where it is while its file only grows.      *)
LEMMA AckedStays ==
  ASSUME LogInv, torn' = torn, rotations' \in Nat,
         rotations <= rotations',
         \A a \in acked \intersect acked' : \A k \in DOMAIN FileOf(a).lines :
           Obliged(a)' /\ (a.synced => k <= FileOf(a).durable) =>
             /\ k \in DOMAIN FileOf(a)'.lines
             /\ FileOf(a)'.lines[k] = FileOf(a).lines[k]
             /\ a.synced => k <= FileOf(a)'.durable
  PROVE  \A a \in acked \intersect acked' :
           /\ a.file <= rotations' + 1
           /\ Obliged(a)' => \E k \in DOMAIN FileOf(a)'.lines :
                IsLine(FileOf(a), k, a.id)' /\ (a.synced => k <= FileOf(a)'.durable)
  <1> SUFFICES ASSUME NEW a \in acked \intersect acked'
               PROVE  /\ a.file <= rotations' + 1
                      /\ Obliged(a)' => \E k \in DOMAIN FileOf(a)'.lines :
                           /\ IsLine(FileOf(a), k, a.id)'
                           /\ a.synced => k <= FileOf(a)'.durable
    OBVIOUS
  <1>1. a \in acked /\ a.file \in Nat /\ rotations \in Nat /\ Keep \in Nat
    BY Numbers
  <1>2. a.file <= rotations' + 1
    BY <1>1 DEF LogInv, AckedKept
  <1>3. ASSUME Obliged(a)'
        PROVE  \E k \in DOMAIN FileOf(a)'.lines :
                 IsLine(FileOf(a), k, a.id)' /\ (a.synced => k <= FileOf(a)'.durable)
    <2>1. Obliged(a)
      BY <1>1, <1>3 DEF Obliged
    <2>2. PICK k \in DOMAIN FileOf(a).lines :
            IsLine(FileOf(a), k, a.id) /\ (a.synced => k <= FileOf(a).durable)
      BY <1>1, <2>1 DEF LogInv, AckedKept
    <2>3. /\ k \in DOMAIN FileOf(a)'.lines
          /\ FileOf(a)'.lines[k] = FileOf(a).lines[k]
          /\ a.synced => k <= FileOf(a)'.durable
      BY <1>3, <2>2
    <2> QED
      BY <2>2, <2>3 DEF IsLine
  <1> QED
    BY <1>2, <1>3

(* While the active file only grows, acknowledged events stay where they   *)
(* are.                                                                    *)
LEMMA ActiveGrows ==
  ASSUME LogInv, UNCHANGED <<torn, segs, rotations>>,
         active # Absent =>
           /\ active' # Absent
           /\ \A k \in DOMAIN active.lines :
                k \in DOMAIN active'.lines /\ active'.lines[k] = active.lines[k]
           /\ active.durable <= active'.durable
           /\ active'.durable \in Nat
  PROVE  \A a \in acked \intersect acked' :
           /\ a.file <= rotations' + 1
           /\ Obliged(a)' => \E k \in DOMAIN FileOf(a)'.lines :
                IsLine(FileOf(a), k, a.id)' /\ (a.synced => k <= FileOf(a)'.durable)
  <1>1. rotations \in Nat /\ DOMAIN EmptyFile.lines = {}
        /\ (active # Absent => active.durable \in Nat /\ DOMAIN active.lines \subseteq Nat)
    <2>1. rotations \in Nat /\ EmptyFile.lines = <<>>
      BY Numbers
    <2>2. ASSUME active # Absent
          PROVE  active.durable \in Nat /\ DOMAIN active.lines \subseteq Nat
      <3>1. active \in Files
        BY <2>2, Numbers
      <3>2. /\ active.durable \in Nat /\ Len(active.lines) \in Nat
            /\ DOMAIN active.lines = 1 .. Len(active.lines)
        BY <3>1, FileFacts
      <3> QED
        BY <3>2
    <2> QED
      BY <2>1, <2>2
  <1>2. ASSUME NEW a \in acked \intersect acked', NEW k \in DOMAIN FileOf(a).lines,
               a.synced => k <= FileOf(a).durable
        PROVE  /\ k \in DOMAIN FileOf(a)'.lines
               /\ FileOf(a)'.lines[k] = FileOf(a).lines[k]
               /\ a.synced => k <= FileOf(a)'.durable
    <2>1. CASE a.file \in DOMAIN segs
      BY <1>2, <2>1 DEF FileOf, Numbered
    <2>2. CASE a.file \notin DOMAIN segs /\ a.file = rotations + 1 /\ active # Absent
      <3>1. FileOf(a) = active /\ FileOf(a)' = active'
        BY <2>2 DEF FileOf, Numbered
      <3>2. k \in DOMAIN active.lines /\ k \in Nat
        BY <1>1, <1>2, <2>2, <3>1
      <3> QED
        BY <1>1, <1>2, <2>2, <3>1, <3>2
    <2>3. CASE /\ a.file \notin DOMAIN segs
               /\ ~(a.file = rotations + 1 /\ active # Absent)
      BY <1>1, <1>2, <2>3 DEF FileOf, Numbered
    <2> QED
      BY <2>1, <2>2, <2>3
  <1>3. rotations' \in Nat /\ rotations <= rotations'
    BY <1>1
  <1> QED
    BY <1>2, <1>3, AckedStays

(* The process goes from one call to the next, or ends.                    *)
LEMMA QuietStep ==
  ASSUME LogInv, BeginWrite \/ NotDue \/ CloseSegment \/ RotatorClosed \/ Exit
  PROVE  LogInv'
  <1>1. UNCHANGED <<torn, active, segs, rotations, session, opts, acked>>
    BY DEF BeginWrite, NotDue, CloseSegment, RotatorClosed, Exit, Down, disk
  <1>2. TypeOK /\ DiskInv /\ Counted /\ Rotating /\ Linked /\ AckedKept
    BY DEF LogInv
  <1>3. writes \in Nat /\ seq \in Nat /\ rotations \in Nat /\ session \in Nat
        /\ MaxWrites \in Nat
    BY Numbers
  <1>4. \/ /\ BeginWrite /\ UNCHANGED <<opened, seq, prevHash>>
           /\ pc = "idle" /\ pc' \in {"rotate", "append"}
           /\ writes' = writes + 1 /\ writes < MaxWrites
        \/ /\ UNCHANGED <<opened, seq, prevHash, writes>>
           /\ pc = "rotate" /\ pc' \in {"append", "idle"}
        \/ /\ UNCHANGED <<seq, prevHash, writes>> /\ opened' = FALSE
           /\ opened /\ pc = "rotate" /\ pc' \in {"rename", "idle"}
        \/ /\ writes' = writes /\ pc' = "down" /\ opened' = FALSE
           /\ seq' = 0 /\ prevHash' = 0
    BY DEF BeginWrite, NotDue, CloseSegment, RotatorClosed, Exit, Down, Goto
  <1>5. /\ opened' => opened /\ seq' = seq /\ prevHash' = prevHash /\ pc # "prune"
        /\ opened' \in BOOLEAN
    <2>1. opened \in BOOLEAN
      BY <1>2 DEF TypeOK
    <2>2. CASE UNCHANGED <<opened, seq, prevHash>> /\ pc # "prune"
      BY <2>1, <2>2
    <2>3. CASE opened' = FALSE
      BY <2>3
    <2> QED
      BY <1>4, <2>2, <2>3
  <1>6. writes' \in Nat /\ writes <= writes' /\ writes' <= MaxWrites
        /\ seq' \in 0 .. MaxWrites /\ prevHash' \in 0 .. MaxWrites
    BY <1>2, <1>3, <1>4 DEF TypeOK
  <1>7. TypeOK'
    <2>1. pc' \in {"down", "idle", "rotate", "rename", "append"}
      BY <1>4
    <2>2. writes' \in 0 .. MaxWrites
      BY <1>6
    <2>3. opened' => active' # Absent
      BY <1>1, <1>2, <1>5 DEF TypeOK
    <2> QED
      BY <1>1, <1>2, <1>5, <1>6, <2>1, <2>2, <2>3 DEF TypeOK
  <1>8. DiskInv'
    BY <1>1, <1>2 DEF DiskInv, Healthy
  <1>9. active # Absent => Len(active.lines) \in Nat /\ active \in Files
    BY Numbers, FileFacts
  <1>10. \A k \in DOMAIN active.lines : active # Absent /\ active.lines[k] # Corrupt =>
           active.lines[k].id \in Nat
    <2>1. active # Absent => active.lines \in Seq(Entry)
      BY Numbers, FileFacts
    <2>2. \A e \in Events : e.id \in Nat
      BY DEF Events, Ids
    <2> QED
      BY <2>1, <2>2 DEF Entry
  <1>11. Counted'
    <2>1. /\ seq' <= writes' /\ rotations' <= writes'
          /\ pc' \in Writing => seq' < writes'
          /\ pc' \in {"rotate", "rename"} => rotations' < writes'
          /\ pc' = "sync" => writes' > 0
          /\ pc' # "down" => session' > 0
      BY <1>1, <1>2, <1>3, <1>4 DEF Counted, Writing
    <2>2. active # Absent => Len(active.lines) <= writes'
                             /\ (pc' \in Writing => Len(active.lines) < writes')
      BY <1>2, <1>3, <1>4, <1>9 DEF Counted, Writing
    <2>3. ASSUME active # Absent, NEW k \in DOMAIN active.lines,
                 active.lines[k] # Corrupt
          PROVE  /\ active.lines[k].id <= writes'
                 /\ pc' \in Writing => active.lines[k].id < writes'
                 /\ active.lines[k].session <= session
      <3>1. /\ active.lines[k].id <= writes
            /\ pc \in Writing => active.lines[k].id < writes
            /\ active.lines[k].session <= session
        BY <1>2, <2>3 DEF Counted
      <3>2. active.lines[k].id \in Nat
        BY <1>10, <2>3
      <3> QED
        BY <1>3, <1>4, <3>1, <3>2 DEF Writing
    <2> QED
      BY <1>1, <2>1, <2>2, <2>3 DEF Counted
  <1>12. Rotating'
    <2>1. pc' = "rename" => active # Absent
      BY <1>2, <1>4 DEF TypeOK
    <2> QED
      BY <1>1, <1>2, <1>4, <2>1 DEF Rotating
  <1>13. Linked'
    BY <1>1, <1>2, <1>5 DEF Linked
  <1>14. AckedKept'
    <2>1. active # Absent => active.durable <= active.durable /\ active.durable \in Nat
      BY Numbers, FileFacts
    <2>2. pc' # "sync"
      BY <1>4
    <2> QED
      BY <1>1, <2>1, <2>2, ActiveGrows DEF AckedKept
  <1> QED
    BY <1>7, <1>8, <1>11, <1>12, <1>13, <1>14 DEF LogInv

(* A log openAuditOutput resumes: whole, and chained from its first line.  *)
LEMMA VerifyOK ==
  ASSUME NEW f, Verify(f) = "OK", Entries(f) # <<>>
  PROVE  1 \in DOMAIN Entries(f) /\ IsChained(Entries(f)[1])
  <1> DEFINE s == Entries(f)
             corrupt == \E k \in DOMAIN s : StopsAt(s, k) /\ s[k] = Corrupt
             failed == \E k \in DOMAIN s : StopsAt(s, k) /\ s[k] # Corrupt
             chained == {k \in DOMAIN s : IsChained(s[k])}
             rest == IF chained = {} /\ s # <<>> THEN "UNCHAINED"
                     ELSE IF s # <<>> /\ 1 \notin chained THEN "PARTIAL" ELSE "OK"
  <1>1. Verify(f) = CASE corrupt -> "CORRUPT" [] failed -> "FAILED" [] OTHER -> rest
    BY DEF Verify
  <1> HIDE DEF corrupt, failed, rest
  <1>2. Verify(f) \in {"CORRUPT", "FAILED"} \/ Verify(f) = rest
    BY <1>1
  <1>3. rest = "OK"
    BY <1>2
  <1> QED
    BY <1>3 DEF rest

(* A start resumes numbers and hash from the last line of the log.         *)
LEMMA StartStep ==
  ASSUME LogInv, Start
  PROVE  LogInv'
  <1> DEFINE f == IF active = Absent THEN EmptyFile ELSE active
  <1>1. PICK c \in Configs :
          /\ c.tamper => Resumable(f)
          /\ opts' = c /\ active' = f
          /\ prevHash' = IF c.tamper THEN LastHash(f) ELSE 0
    BY DEF Start
  <1>2. /\ pc = "down" /\ pc' = "idle" /\ opened' = TRUE /\ seq' = 0
        /\ session < MaxStarts /\ session' = session + 1
        /\ UNCHANGED <<torn, segs, rotations, writes, acked>>
    BY DEF Start, Goto
  <1>3. TypeOK /\ DiskInv /\ Counted /\ AckedKept
    BY DEF LogInv
  <1>4. Healthy(f) /\ f \in Files /\ f # Absent
    BY Numbers, EmptyHealthy, LogAssumption DEF Healthy
  <1>5. /\ f.lines \in Seq(Entry) /\ Len(f.lines) \in Nat
        /\ DOMAIN f.lines = 1 .. Len(f.lines)
        /\ Entries(f) \in Seq(Entry) /\ Len(Entries(f)) \in Nat
        /\ Len(f.lines) <= Len(Entries(f))
        /\ f.tail = NoTail => Entries(f) = f.lines
        /\ \A k \in 1 .. Len(f.lines) : Entries(f)[k] = f.lines[k]
    BY <1>4, FileFacts
  <1>6. writes \in Nat /\ session \in Nat /\ session' \in Nat /\ rotations \in Nat
        /\ MaxStarts \in Nat /\ MaxWrites \in Nat /\ writes <= MaxWrites
    BY <1>2, Numbers
  <1>7. /\ Len(f.lines) <= writes
        /\ \A k \in DOMAIN f.lines : f.lines[k] # Corrupt =>
             f.lines[k].id <= writes /\ f.lines[k].session <= session
    <2>1. CASE active = Absent
      BY <1>6, <2>1, Numbers
    <2>2. CASE active # Absent
      BY <1>3, <2>2 DEF Counted
    <2> QED
      BY <2>1, <2>2
  <1>8. \A k \in DOMAIN f.lines : f.lines[k] # Corrupt => f.lines[k].session \in Nat
    <2>1. \A e \in Events : e.session \in Nat
      BY DEF Events
    <2> QED
      BY <1>5, <2>1 DEF Entry
  <1>9. LastHash(f) \in 0 .. MaxWrites
    <2> DEFINE s == Entries(f)
    <2>1. \A k \in 1 .. Len(s) : s[k] \in Entry
      BY <1>5
    <2>2. \A e \in Events : e.id \in 0 .. MaxWrites
      BY <1>6 DEF Events, Ids
    <2>3. Len(s) + 1 - 1 = Len(s) /\ (Len(s) + 1 > 1 => Len(s) \in 1 .. Len(s))
      BY <1>5
    <2>4. Len(s) + 1 > 1 /\ IsChained(s[Len(s)]) => s[Len(s)] \in Events
      BY <2>1, <2>3 DEF IsChained, Entry
    <2> HIDE DEF s
    <2>5. PrevOf(s, Len(s) + 1) \in 0 .. MaxWrites
      BY <1>6, <2>2, <2>3, <2>4 DEF PrevOf
    <2> QED
      BY <2>5 DEF LastHash, s
  <1> HIDE DEF f
  <1>10. TypeOK'
    <2>1. session' \in 0 .. MaxStarts /\ seq' \in 0 .. MaxWrites
          /\ prevHash' \in 0 .. MaxWrites
      BY <1>1, <1>2, <1>6, <1>9
    <2> QED
      BY <1>1, <1>2, <1>3, <1>4, <2>1 DEF TypeOK
  <1>11. DiskInv'
    <2>1. Healthy(active)'
      BY <1>1, <1>2, <1>4 DEF Healthy
    <2> QED
      BY <1>2, <1>3, <2>1 DEF DiskInv, Healthy
  <1>12. Counted'
    <2>1. \A k \in DOMAIN f.lines : f.lines[k] # Corrupt =>
            f.lines[k].id <= writes /\ f.lines[k].session <= session'
      BY <1>2, <1>6, <1>7, <1>8
    <2> QED
      BY <1>1, <1>2, <1>3, <1>6, <1>7, <2>1 DEF Counted, Writing
  <1>13. Rotating'
    BY <1>2 DEF Rotating
  <1>14. Linked'
    <2> DEFINE s == f.lines
    <2>1. s # <<>> => Len(s) \in DOMAIN s /\ 1 \in DOMAIN s
      BY <1>5
    <2>2. s # <<>> /\ s[Len(s)] # Corrupt => s[Len(s)].session # session'
      BY <1>2, <1>6, <1>7, <1>8, <2>1
    <2>3. ASSUME c.tamper, f.tail = NoTail
          PROVE  prevHash' = PrevOf(s, Len(s) + 1)
      BY <1>1, <1>5, <2>3 DEF LastHash
    <2>4. ASSUME c.tamper, s # <<>> PROVE IsChained(s[1])
      <3>1. Entries(f) # <<>> /\ 1 \in 1 .. Len(s)
        BY <1>5, <2>4
      <3>2. IsChained(Entries(f)[1])
        BY <1>1, <2>4, <3>1, VerifyOK DEF Resumable
      <3> QED
        BY <1>5, <3>1, <3>2
    <2> QED
      BY <1>1, <1>2, <2>2, <2>3, <2>4 DEF Linked
  <1>15. AckedKept'
    <2>1. active # Absent => active' = active /\ active.durable <= active.durable
                             /\ active.durable \in Nat
      BY <1>1, Numbers, FileFacts DEF f
    <2> QED
      BY <1>2, <2>1, ActiveGrows DEF AckedKept
  <1> QED
    BY <1>10, <1>11, <1>12, <1>13, <1>14, <1>15 DEF LogInv

(* Renamed, the active file is the newest segment, its events with it.     *)
LEMMA RenameStep ==
  ASSUME LogInv, Rename
  PROVE  LogInv'
  <1>1. TypeOK /\ DiskInv /\ Counted /\ Rotating /\ Linked /\ AckedKept
    BY DEF LogInv
  <1>2. /\ pc = "rename" /\ ~opened /\ active # Absent
        /\ UNCHANGED <<torn, opts, opened, session, seq, prevHash, writes, acked>>
    BY <1>1 DEF Rename, Rotating
  <1>3. rotations \in Nat /\ writes \in Nat /\ writes <= MaxWrites
        /\ MaxWrites \in Nat /\ rotations < writes /\ Healthy(active)
        /\ seq < writes
    BY <1>1, <1>2, Numbers DEF Counted, Writing
  <1>4. CASE pc' = "idle" /\ UNCHANGED disk
    <2>1. active' = active /\ segs' = segs /\ rotations' = rotations
      BY <1>4 DEF disk
    <2>2. active.durable <= active.durable /\ active.durable \in Nat
      BY <1>2, Numbers, FileFacts
    <2>3. AckedKept'
      BY <1>2, <1>4, <2>1, <2>2, ActiveGrows DEF AckedKept
    <2>4. Counted'
      BY <1>1, <1>2, <1>4, <2>1 DEF Counted, Writing
    <2> QED
      BY <1>1, <1>2, <1>4, <2>1, <2>3, <2>4
      DEF LogInv, TypeOK, DiskInv, Healthy, Rotating, Linked
  <1>5. CASE /\ segs' = [r \in DOMAIN segs \union {rotations + 1} |->
                           IF r = rotations + 1 THEN active ELSE segs[r]]
             /\ rotations' = rotations + 1
             /\ active' = Absent
             /\ pc' = "reopen"
    <2>1. /\ DOMAIN segs' = DOMAIN segs \union {rotations + 1}
          /\ segs'[rotations + 1] = active
          /\ \A r \in DOMAIN segs : r # rotations + 1 /\ segs'[r] = segs[r]
      BY <1>3, <1>5, Numbers
    <2>2. TypeOK'
      <3>1. rotations' \in 0 .. MaxWrites /\ DOMAIN segs' \subseteq 1 .. rotations'
        BY <1>3, <1>5, <2>1, Numbers
      <3>2. \A r \in DOMAIN segs' : segs'[r] \in Files
        BY <1>1, <1>3, <2>1 DEF TypeOK, Healthy
      <3> QED
        BY <1>1, <1>2, <1>5, <3>1, <3>2 DEF TypeOK
    <2>3. DiskInv'
      BY <1>1, <1>2, <1>3, <1>5, <2>1 DEF DiskInv, Healthy
    <2>4. Counted'
      BY <1>1, <1>2, <1>3, <1>5 DEF Counted, Writing
    <2>5. Rotating' /\ Linked'
      BY <1>2, <1>5 DEF Rotating, Linked
    <2>6. AckedKept'
      <3>1. ASSUME NEW a \in acked \intersect acked', NEW k \in DOMAIN FileOf(a).lines
            PROVE  FileOf(a)' = FileOf(a)
        <4>1. CASE a.file \in DOMAIN segs
          BY <2>1, <4>1 DEF FileOf, Numbered
        <4>2. CASE a.file \notin DOMAIN segs /\ a.file = rotations + 1
          BY <1>2, <2>1, <4>2 DEF FileOf, Numbered
        <4>3. CASE a.file \notin DOMAIN segs /\ a.file # rotations + 1
          BY <3>1, <4>3, Numbers DEF FileOf, Numbered
        <4> QED
          BY <4>1, <4>2, <4>3
      <3>2. rotations' \in Nat /\ rotations <= rotations'
        BY <1>3, <1>5
      <3> QED
        BY <1>2, <1>5, <3>1, <3>2, AckedStays DEF AckedKept
    <2> QED
      BY <2>2, <2>3, <2>4, <2>5, <2>6 DEF LogInv
  <1> QED
    BY <1>4, <1>5 DEF Rename, Goto

(* A fresh active file continues the chain of the segment before it.       *)
LEMMA ReopenStep ==
  ASSUME LogInv, Reopen
  PROVE  LogInv'
  <1>1. TypeOK /\ DiskInv /\ Counted /\ Rotating /\ Linked /\ AckedKept
    BY DEF LogInv
  <1>2. /\ pc = "reopen" /\ active = Absent /\ ~opened
        /\ UNCHANGED <<torn, segs, rotations, opts, session, seq, prevHash,
                       writes, acked>>
        /\ \/ active' = EmptyFile /\ opened' = TRUE /\ pc' = "prune"
           \/ UNCHANGED <<active, opened>> /\ pc' = "idle"
    BY <1>1 DEF Reopen, Rotating, Goto
  <1>3. writes \in Nat /\ EmptyFile \in Files /\ EmptyFile # Absent
        /\ EmptyFile.lines = <<>> /\ Healthy(EmptyFile) /\ seq < writes
    BY <1>1, <1>2, Numbers, EmptyHealthy DEF Counted, Writing
  <1>4. TypeOK'
    <2>1. active' \in Files \union {Absent} /\ opened' \in BOOLEAN
          /\ (opened' => active' # Absent)
      <3>1. CASE active' = EmptyFile /\ opened' = TRUE
        BY <1>3, <3>1
      <3>2. CASE UNCHANGED <<active, opened>>
        BY <1>1, <3>2 DEF TypeOK
      <3> QED
        BY <1>2, <3>1, <3>2
    <2>2. pc' \in {"idle", "prune"}
      BY <1>2
    <2> QED
      BY <1>1, <1>2, <2>1, <2>2 DEF TypeOK
  <1>5. DiskInv'
    BY <1>1, <1>2, <1>3 DEF DiskInv, Healthy
  <1>6. Counted'
    <2>1. active' # Absent =>
            DOMAIN active'.lines = {} /\ Len(active'.lines) < writes
      BY <1>2, <1>3, Numbers
    <2>2. active' # Absent => Len(active'.lines) <= writes
      BY <1>2, <1>3
    <2> QED
      BY <1>1, <1>2, <2>1, <2>2 DEF Counted, Writing
  <1>7. Rotating' /\ Linked'
    BY <1>2 DEF Rotating, Linked
  <1>8. AckedKept'
    BY <1>2, ActiveGrows DEF AckedKept
  <1> QED
    BY <1>4, <1>5, <1>6, <1>7, <1>8 DEF LogInv

(* Pruning takes no segment among the Keep newest.                         *)
LEMMA ExpendableOld ==
  ASSUME LogInv, NEW r \in DOMAIN segs, Expendable(r)
  PROVE  Keep > 0 /\ r <= rotations - Keep
  <1> DEFINE newer == {q \in DOMAIN segs : q >= r}
  <1>1. r \in Nat /\ r <= rotations /\ rotations \in Nat /\ Keep \in Nat
        /\ newer \subseteq r .. rotations
    BY Numbers
  <1>2. /\ IsFiniteSet(r .. rotations)
        /\ Cardinality(r .. rotations) = rotations - r + 1
    <2>1. r \in Int /\ rotations \in Int /\ ~(r > rotations)
      BY <1>1
    <2> QED
      BY <2>1, FS_Interval
  <1>3. /\ Cardinality(newer) <= Cardinality(r .. rotations)
        /\ Cardinality(newer) \in Nat
    BY <1>1, <1>2, FS_Subset, FS_CardinalityType
  <1>4. Keep > 0 /\ Cardinality(newer) > Keep
    BY DEF Expendable
  <1> QED
    BY <1>1, <1>2, <1>3, <1>4

(* Pruning removes the oldest segments, whose events are not owed any      *)
(* more.                                                                   *)
LEMMA PruneStep ==
  ASSUME LogInv, Prune
  PROVE  LogInv'
  <1>1. TypeOK /\ DiskInv /\ Counted /\ Rotating /\ Linked /\ AckedKept
    BY DEF LogInv
  <1>2. /\ pc = "prune" /\ pc' = "append" /\ prevHash' = 0
        /\ active = EmptyFile /\ opened
        /\ UNCHANGED <<torn, active, rotations, opts, opened, session, seq,
                       writes, acked>>
    BY <1>1 DEF Prune, Rotating, Goto
  <1>3. PICK gone \in SUBSET {r \in DOMAIN segs : Expendable(r)} :
          segs' = [r \in DOMAIN segs \ gone |-> segs[r]]
    BY DEF Prune
  <1>4. /\ DOMAIN segs' \subseteq DOMAIN segs
        /\ \A r \in DOMAIN segs' : segs'[r] = segs[r]
        /\ \A r \in DOMAIN segs : r \in DOMAIN segs' \/ (Keep > 0 /\ r <= rotations - Keep)
    BY <1>3, ExpendableOld
  <1>5. active # Absent /\ active.lines = <<>> /\ rotations \in Nat /\ Keep \in Nat
        /\ MaxWrites \in Nat
    BY <1>2, Numbers
  <1>6. TypeOK'
    <2>1. DOMAIN segs' \subseteq 1 .. rotations' /\ \A r \in DOMAIN segs' : segs'[r] \in Files
      BY <1>1, <1>2, <1>4 DEF TypeOK
    <2>2. prevHash' \in 0 .. MaxWrites
      BY <1>2, <1>5
    <2> QED
      BY <1>1, <1>2, <2>1, <2>2 DEF TypeOK
  <1>7. DiskInv'
    BY <1>1, <1>2, <1>4 DEF DiskInv, Healthy
  <1>8. Counted'
    BY <1>1, <1>2 DEF Counted, Writing
  <1>9. Rotating'
    BY <1>2 DEF Rotating
  <1>10. Linked'
    <2>1. PrevOf(<<>>, Len(<<>>) + 1) = 0
      BY DEF PrevOf
    <2> QED
      BY <1>2, <1>5, <2>1 DEF Linked
  <1>11. AckedKept'
    <2>1. ASSUME NEW a \in acked \intersect acked', NEW k \in DOMAIN FileOf(a).lines, Obliged(a)'
          PROVE  FileOf(a)' = FileOf(a)
      <3>1. CASE a.file \in DOMAIN segs
        <4>1. a.file \in DOMAIN segs'
          BY <1>2, <1>4, <1>5, <2>1, <3>1, Numbers DEF Obliged
        <4> QED
          BY <1>4, <3>1, <4>1 DEF FileOf, Numbered
      <3>2. CASE a.file \notin DOMAIN segs
        BY <1>2, <1>4, <3>2 DEF FileOf, Numbered
      <3> QED
        BY <3>1, <3>2
    <2>2. rotations' \in Nat /\ rotations <= rotations'
      BY <1>2, <1>5
    <2> QED
      BY <1>2, <2>1, <2>2, AckedStays DEF AckedKept
  <1> QED
    BY <1>6, <1>7, <1>8, <1>9, <1>10, <1>11 DEF LogInv

(* The event a Write is about to append continues the file it has open.    *)
LEMMA ComposedFits ==
  ASSUME LogInv, pc = "append"
  PROVE  /\ Composed \in Events
         /\ opened => /\ Healthy(active) /\ Len(active.lines) < MaxWrites
                      /\ active.tail = NoTail => SaneNext(active.lines, Composed)
  <1>1. TypeOK /\ Counted /\ Linked
    BY DEF LogInv
  <1>2. /\ writes \in Nat /\ seq \in Nat /\ session \in Nat /\ MaxWrites \in Nat
        /\ MaxStarts \in Nat /\ writes <= MaxWrites /\ session <= MaxStarts
        /\ seq < writes /\ session > 0
    BY <1>1, Numbers DEF Counted, Writing
  <1>3. /\ Composed.id = writes /\ Composed.session = session
        /\ Composed.seq = seq + 1 /\ Composed.chained = opts.tamper
        /\ Composed.prev = IF opts.tamper THEN prevHash ELSE 0
    BY DEF Composed
  <1>4. Composed \in Events
    <2>1. writes \in Ids /\ seq + 1 \in Ids /\ session \in 1 .. MaxStarts
      BY <1>2 DEF Ids
    <2>2. opts.tamper \in BOOLEAN
      BY <1>1, LogAssumption DEF TypeOK, AllConfigs
    <2>3. prevHash \in {0} \union Ids
      BY <1>1, <1>2 DEF TypeOK, Ids
    <2>4. (IF opts.tamper THEN prevHash ELSE 0) \in {0} \union Ids
      BY <2>3
    <2> QED
      BY <2>1, <2>2, <2>4 DEF Composed, Events
  <1>5. ASSUME opened
        PROVE  Healthy(active) /\ Len(active.lines) < MaxWrites /\ active # Absent
    <2>1. active # Absent /\ Healthy(active) /\ active \in Files
      BY <1>1, <1>5, Numbers DEF TypeOK
    <2>2. Len(active.lines) < writes /\ Len(active.lines) \in Nat
      BY <1>1, <2>1, FileFacts DEF Counted, Writing
    <2> QED
      BY <1>2, <2>1, <2>2
  <1>6. ASSUME opened, active.tail = NoTail
        PROVE  SaneNext(active.lines, Composed)
    <2> DEFINE s == active.lines
    <2>1. s \in Seq(Entry) /\ DOMAIN s = 1 .. Len(s) /\ Len(s) \in Nat
      BY <1>5, <1>6, Numbers, FileFacts
    <2>2. s # <<>> => Len(s) \in DOMAIN s
      BY <2>1
    <2>3. s # <<>> /\ s[Len(s)] # Corrupt =>
            s[Len(s)].id < writes /\ (s[Len(s)].session = session => s[Len(s)].seq = seq)
      BY <1>1, <1>5, <1>6, <2>2 DEF Counted, Writing, Linked
    <2>4. /\ opts.tamper => \/ \E j \in DOMAIN s : Broken(s, j)
                            \/ prevHash = PrevOf(s, Len(s) + 1)
          /\ opts.tamper /\ s # <<>> => s[1] = Corrupt \/ IsChained(s[1])
      BY <1>1, <1>6 DEF Linked
    <2>5. IsChained(Composed) => opts.tamper
      BY <1>3 DEF IsChained
    <2> HIDE DEF s
    <2>6. SaneNext(s, Composed)
      BY <1>3, <2>3, <2>4, <2>5 DEF SaneNext, InOrder
    <2> QED
      BY <2>6 DEF s
  <1> QED
    BY <1>4, <1>5, <1>6

(* An event written whole is the successor of the one before it.           *)
LEMMA AppendedStep ==
  ASSUME LogInv, Appended
  PROVE  LogInv'
  <1> DEFINE s == active.lines
             x == IF active.tail = NoTail THEN Composed ELSE Corrupt
  <1>1. TypeOK /\ DiskInv /\ Counted /\ Rotating /\ Linked /\ AckedKept
    BY DEF LogInv
  <1>2. /\ pc = "append" /\ pc' = "sync" /\ opened
        /\ active' = WithLine(active, Composed)
        /\ seq' = seq + 1
        /\ prevHash' = IF opts.tamper THEN writes ELSE prevHash
        /\ UNCHANGED <<torn, segs, rotations, opts, opened, session, writes, acked>>
    BY DEF Appended, Goto
  <1>3. /\ Composed \in Events /\ Healthy(active) /\ Len(s) < MaxWrites
        /\ active.tail = NoTail => SaneNext(s, Composed)
        /\ active # Absent /\ active \in Files
    BY <1>1, <1>2, ComposedFits, Numbers DEF TypeOK
  <1>4. /\ Healthy(WithLine(active, Composed))
        /\ active'.lines = Append(s, x) /\ active'.tail = NoTail
        /\ active'.durable = active.durable
    BY <1>2, <1>3, WithLineHealthy
  <1>5. s \in Seq(Entry) /\ DOMAIN s = 1 .. Len(s) /\ Len(s) \in Nat
        /\ active.durable \in Nat
    BY <1>3, FileFacts
  <1>6. x \in Entry /\ (x = Corrupt => torn)
    BY <1>3, LogAssumption DEF Entry, Healthy
  <1>7. /\ Composed.id = writes /\ Composed.session = session
        /\ Composed.seq = seq + 1 /\ Composed.chained = opts.tamper
        /\ Composed # Corrupt
    BY <1>3, LogAssumption DEF Composed
  <1>8. x = Composed \/ x = Corrupt
    OBVIOUS
  <1>9. /\ Len(s) < writes /\ seq < writes /\ writes \in Nat /\ seq \in Nat
        /\ writes <= MaxWrites /\ session \in Nat
        /\ MaxWrites \in Nat
        /\ \A k \in DOMAIN s : s[k] # Corrupt => s[k].id < writes /\ s[k].session <= session
    BY <1>1, <1>2, <1>3, Numbers DEF Counted, Writing
  <1>10. active.tail = NoTail => x = Composed
    OBVIOUS
  <1>11. active.tail # NoTail => x = Corrupt
    OBVIOUS
  <1> HIDE DEF x
  <1>12. /\ DOMAIN Append(s, x) = DOMAIN s \union {Len(s) + 1}
         /\ Len(Append(s, x)) = Len(s) + 1
         /\ \A k \in DOMAIN s : Append(s, x)[k] = s[k]
         /\ Append(s, x)[Len(s) + 1] = x
    BY <1>5, <1>6
  <1> DEFINE t == Append(s, x)
  <1>13. /\ active'.lines = t /\ DOMAIN t = DOMAIN s \union {Len(s) + 1}
         /\ Len(t) = Len(s) + 1 /\ \A k \in DOMAIN s : t[k] = s[k]
         /\ t[Len(s) + 1] = x /\ t # <<>>
    BY <1>4, <1>5, <1>12
  <1> HIDE DEF t
  <1>14. active' \in Files /\ active' # Absent
    BY <1>2, <1>4, LogAssumption DEF Healthy
  <1>15. TypeOK'
    <2>1. seq' \in 0 .. MaxWrites /\ prevHash' \in 0 .. MaxWrites
      BY <1>1, <1>2, <1>9 DEF TypeOK
    <2> QED
      BY <1>1, <1>2, <1>14, <2>1 DEF TypeOK
  <1>16. DiskInv'
    <2>1. Healthy(active)'
      BY <1>2, <1>4 DEF Healthy
    <2> QED
      BY <1>1, <1>2, <2>1 DEF DiskInv, Healthy
  <1>17. Counted'
    <2>1. \A k \in DOMAIN t : t[k] # Corrupt => t[k].id <= writes /\ t[k].session <= session
      <3>1. \A k \in DOMAIN s : t[k] # Corrupt => t[k].id <= writes /\ t[k].session <= session
        <4>1. \A k \in DOMAIN s : s[k] # Corrupt => s[k].id \in Nat
          <5>1. \A e \in Events : e.id \in Nat
            BY DEF Events, Ids
          <5> QED
            BY <1>5, <5>1 DEF Entry
        <4> QED
          BY <1>9, <1>13, <4>1
      <3>2. x # Corrupt => x.id <= writes /\ x.session <= session
        BY <1>7, <1>8, <1>9
      <3> QED
        BY <1>13, <3>1, <3>2
    <2>2. Len(t) <= writes /\ seq' <= writes
      BY <1>2, <1>5, <1>9, <1>13
    <2>3. writes > 0
      BY <1>9
    <2> QED
      BY <1>1, <1>2, <1>13, <2>1, <2>2, <2>3 DEF Counted, Writing
  <1>18. Rotating'
    BY <1>2, <1>14 DEF Rotating
  <1>19. Linked'
    <2>1. opts.tamper => t[1] = Corrupt \/ IsChained(t[1])
      <3>1. CASE s = <<>>
        <4>1. t[1] = x
          BY <1>13, <3>1
        <4> QED
          BY <1>7, <1>8, <4>1 DEF IsChained
      <3>2. CASE s # <<>>
        <4>1. t[1] = s[1]
          BY <1>5, <1>13, <3>2
        <4> QED
          BY <1>1, <1>2, <3>2, <4>1 DEF Linked
      <3> QED
        BY <3>1, <3>2
    <2>2. t[Len(t)] # Corrupt => t[Len(t)].seq = seq'
      BY <1>2, <1>7, <1>8, <1>13
    <2>3. opts.tamper => \/ \E j \in DOMAIN t : Broken(t, j)
                         \/ prevHash' = PrevOf(t, Len(t) + 1)
      <3>1. CASE x = Corrupt
        BY <1>13, <3>1 DEF Broken
      <3>2. CASE x = Composed
        <4>1. Len(t) + 1 > 1 /\ Len(t) + 1 - 1 = Len(s) + 1
          BY <1>5, <1>13
        <4>2. opts.tamper => IsChained(x)
          BY <1>7, <3>2 DEF IsChained
        <4>3. opts.tamper => PrevOf(t, Len(t) + 1) = writes
          BY <1>7, <1>13, <3>2, <4>1, <4>2 DEF PrevOf
        <4> QED
          BY <1>2, <4>3
      <3> QED
        BY <1>8, <3>1, <3>2
    <2> QED
      BY <1>2, <1>13, <2>1, <2>2, <2>3 DEF Linked
  <1>20. AckedKept'
    <2>1. \E k \in DOMAIN active'.lines : IsLine(active, k, writes)'
      <3>1. PICK k : k = Len(s) + 1
        OBVIOUS
      <3>2. IsLine(active, k, writes)'
        BY <1>2, <1>6, <1>7, <1>8, <1>13, <3>1 DEF IsLine
      <3> QED
        BY <1>13, <3>1, <3>2
    <2>2. \A k \in DOMAIN active.lines : k \in DOMAIN active'.lines
                                         /\ active'.lines[k] = active.lines[k]
      BY <1>13
    <2>3. active.durable <= active'.durable /\ active'.durable \in Nat
      BY <1>4, <1>5
    <2> QED
      BY <1>2, <1>13, <1>14, <2>1, <2>2, <2>3, ActiveGrows DEF AckedKept
  <1> QED
    BY <1>15, <1>16, <1>17, <1>18, <1>19, <1>20 DEF LogInv

(* A file whose lines stay, and may lose the end of its last one.          *)
LEMMA SameLines ==
  ASSUME LogInv, pc' \in {"idle", pc}, pc' = "idle" => pc \in {"append", "sync", "idle"},
         pc \in {"idle", "append", "sync"},
         UNCHANGED <<torn, segs, rotations, opts, session, seq, prevHash, writes>>,
         opened' \in BOOLEAN, opened' => opened,
         active # Absent =>
           /\ Healthy(active)' /\ active' # Absent
           /\ active'.lines = active.lines
           /\ active'.tail = active.tail \/ active'.tail # NoTail,
         active = Absent => active' = Absent
  PROVE  DiskInv' /\ Counted' /\ Rotating' /\ Linked'
  <1>1. TypeOK /\ DiskInv /\ Counted /\ Rotating /\ Linked
    BY DEF LogInv
  <1>2. DiskInv'
    BY <1>1 DEF DiskInv, Healthy
  <1>3. Counted'
    BY <1>1 DEF Counted, Writing
  <1>4. Rotating'
    BY <1>1 DEF Rotating
  <1>5. opened' => pc # "prune" /\ pc' # "prune" /\ active # Absent
    BY <1>1 DEF TypeOK
  <1>6. Linked'
    BY <1>1, <1>5 DEF Linked
  <1> QED
    BY <1>2, <1>3, <1>4, <1>6

(* A failed write uses up no number and leaves the chain as it was.        *)
LEMMA AppendFailedStep ==
  ASSUME LogInv, AppendFailed
  PROVE  LogInv'
  <1>1. /\ TypeOK /\ pc = "append" /\ pc' = "idle"
        /\ UNCHANGED <<torn, segs, rotations, opts, opened, session, seq,
                       prevHash, writes, acked>>
        /\ \/ active' = active
           \/ torn /\ opened /\ active' \in WithTorn(active, Composed)
    BY DEF AppendFailed, Goto, LogInv
  <1>2. active # Absent => active \in Files /\ Healthy(active) /\ active.durable \in Nat
    BY Numbers, FileFacts
  <1>3. active # Absent =>
          /\ Healthy(active)' /\ active' # Absent
          /\ active'.lines = active.lines /\ active'.durable = active.durable
          /\ active'.tail = active.tail \/ active'.tail # NoTail
    <2>1. CASE active' = active
      BY <1>1, <1>2, <2>1 DEF Healthy
    <2>2. CASE torn /\ opened /\ active' \in WithTorn(active, Composed)
      <3>1. PICK g \in WithTorn(active, Composed) : active' = g
        BY <2>2
      <3>2. /\ Healthy(g) /\ g.lines = active.lines /\ g.tail # NoTail
            /\ g.durable = active.durable
        BY <1>1, <2>2, ComposedFits, WithTornHealthy
      <3>3. Healthy(active)'
        BY <1>1, <3>1, <3>2 DEF Healthy
      <3> QED
        BY <3>1, <3>2, <3>3, LogAssumption DEF Healthy
    <2> QED
      BY <1>1, <2>1, <2>2
  <1>4. active = Absent => active' = Absent
    BY <1>1 DEF TypeOK
  <1>5. opened' \in BOOLEAN /\ (opened' => opened)
    BY <1>1 DEF TypeOK
  <1>6. DiskInv' /\ Counted' /\ Rotating' /\ Linked'
    BY <1>1, <1>3, <1>4, <1>5, SameLines
  <1>7. TypeOK'
    BY <1>1, <1>3, <1>4 DEF TypeOK, Healthy
  <1>8. AckedKept'
    <2>1. active # Absent => active.durable <= active'.durable
      BY <1>2, <1>3
    <2> QED
      BY <1>1, <1>2, <1>3, <2>1, ActiveGrows DEF AckedKept
  <1> QED
    BY <1>6, <1>7, <1>8 DEF LogInv

(* An acknowledged event is in the file, durably if Sync was asked for.    *)
LEMMA SyncStep ==
  ASSUME LogInv, Sync
  PROVE  LogInv'
  <1>0. PICK a : a = [id |-> writes, file |-> rotations + 1, synced |-> opts.fsync]
    OBVIOUS
  <1>1. TypeOK /\ Rotating /\ Counted /\ AckedKept
    BY DEF LogInv
  <1>2. /\ pc = "sync" /\ pc' = "idle"
        /\ UNCHANGED <<torn, segs, rotations, opts, opened, session, seq,
                       prevHash, writes>>
        /\ \/ /\ active' = IF opts.fsync THEN Flushed(active) ELSE active
              /\ acked' = acked \union {[id |-> writes, file |-> rotations + 1,
                                         synced |-> opts.fsync]}
           \/ UNCHANGED <<active, acked>>
    BY DEF Sync, Goto
  <1>3. active # Absent /\ active \in Files /\ Healthy(active)
        /\ active.durable \in Nat /\ DOMAIN active.lines = 1 .. Len(active.lines)
        /\ Len(active.lines) \in Nat /\ active.durable <= Len(active.lines)
    BY <1>1, <1>2, Numbers, FileFacts DEF Rotating, Healthy
  <1>4. /\ Healthy(active)' /\ active' # Absent
        /\ active'.lines = active.lines /\ active'.tail = active.tail
        /\ active.durable <= active'.durable /\ active'.durable \in Nat
    <2>1. CASE active' = active
      BY <1>2, <1>3, <2>1 DEF Healthy
    <2>2. CASE active' = Flushed(active)
      <3>1. /\ Healthy(Flushed(active)) /\ Flushed(active).lines = active.lines
            /\ Flushed(active).tail = active.tail
            /\ active.durable <= Flushed(active).durable
            /\ Flushed(active).durable = Len(active.lines)
        BY <1>3, FlushedHealthy
      <3>2. Healthy(active)'
        BY <1>2, <2>2, <3>1 DEF Healthy
      <3> QED
        BY <1>3, <2>2, <3>1, <3>2, LogAssumption DEF Healthy
    <2> QED
      BY <1>2, <2>1, <2>2
  <1>5. opened' \in BOOLEAN /\ (opened' => opened)
    BY <1>1, <1>2 DEF TypeOK
  <1>6. DiskInv' /\ Counted' /\ Rotating' /\ Linked'
    BY <1>2, <1>3, <1>4, <1>5, SameLines
  <1>7. acked' \subseteq acked \union {a}
    BY <1>0, <1>2
  <1>8. a.file = rotations + 1 /\ a.id = writes /\ a.synced = opts.fsync
    BY <1>0
  <1>9. a \in [id : Ids, file : 1 .. MaxWrites + 1, synced : BOOLEAN]
    <2>1. writes \in Ids /\ rotations + 1 \in 1 .. MaxWrites + 1
      BY <1>1, <1>2, Numbers DEF Counted, Ids
    <2>2. opts.fsync \in BOOLEAN
      BY <1>1, LogAssumption DEF TypeOK, AllConfigs
    <2> QED
      BY <1>0, <2>1, <2>2
  <1>10. TypeOK'
    BY <1>1, <1>2, <1>4, <1>7, <1>9 DEF TypeOK, Healthy
  <1>11. ASSUME a \in acked', a \notin acked
         PROVE  \E k \in DOMAIN FileOf(a)'.lines :
                  IsLine(FileOf(a), k, a.id)' /\ (a.synced => k <= FileOf(a)'.durable)
    <2>1. active' = IF opts.fsync THEN Flushed(active) ELSE active
      BY <1>2, <1>11
    <2>2. FileOf(a)' = active'
      BY <1>2, <1>4, <1>8, Numbers DEF FileOf, Numbered
    <2>3. PICK k \in DOMAIN active.lines : IsLine(active, k, writes)
      BY <1>1, <1>2 DEF AckedKept
    <2>4. opts.fsync => active'.durable = Len(active.lines)
      BY <1>3, <2>1, FlushedHealthy
    <2>5. a.synced => k <= active'.durable
      BY <1>3, <1>8, <2>3, <2>4
    <2>6. IsLine(FileOf(a), k, a.id)'
      BY <1>2, <1>4, <1>8, <2>2, <2>3 DEF IsLine
    <2> QED
      BY <1>4, <2>2, <2>3, <2>5, <2>6
  <1>12. AckedKept'
    <2>1. \A b \in acked \intersect acked' :
            /\ b.file <= rotations' + 1
            /\ Obliged(b)' => \E k \in DOMAIN FileOf(b)'.lines :
                 IsLine(FileOf(b), k, b.id)' /\ (b.synced => k <= FileOf(b)'.durable)
      BY <1>2, <1>4, ActiveGrows
    <2>2. a.file <= rotations' + 1
      BY <1>2, <1>8, Numbers
    <2> QED
      BY <1>2, <1>7, <1>11, <2>1, <2>2 DEF AckedKept
  <1> QED
    BY <1>6, <1>10, <1>12 DEF LogInv

(* A closer may close the file under a Write.                              *)
LEMMA CloseStep ==
  ASSUME LogInv, Close
  PROVE  LogInv'
  <1>1. TypeOK /\ AckedKept
    BY DEF LogInv
  <1>2. /\ pc' = pc /\ pc \in {"idle", "append", "sync"} /\ opened /\ opened' = FALSE
        /\ UNCHANGED <<torn, segs, rotations, opts, session, seq, prevHash,
                       writes, acked>>
        /\ active' = active \/ active' = Flushed(active)
    BY DEF Close
  <1>3. active # Absent /\ active \in Files /\ Healthy(active)
        /\ active.durable \in Nat /\ Len(active.lines) \in Nat
    BY <1>1, <1>2, Numbers, FileFacts DEF TypeOK
  <1>4. /\ Healthy(active)' /\ active' # Absent
        /\ active'.lines = active.lines /\ active'.tail = active.tail
        /\ active.durable <= active'.durable /\ active'.durable \in Nat
    <2>1. CASE active' = active
      BY <1>2, <1>3, <2>1 DEF Healthy
    <2>2. CASE active' = Flushed(active)
      <3>1. /\ Healthy(Flushed(active)) /\ Flushed(active).lines = active.lines
            /\ Flushed(active).tail = active.tail
            /\ active.durable <= Flushed(active).durable
            /\ Flushed(active).durable = Len(active.lines)
        BY <1>3, FlushedHealthy
      <3>2. Healthy(active)'
        BY <1>2, <2>2, <3>1 DEF Healthy
      <3> QED
        BY <1>3, <2>2, <3>1, <3>2, LogAssumption DEF Healthy
    <2> QED
      BY <1>2, <2>1, <2>2
  <1>5. DiskInv' /\ Counted' /\ Rotating' /\ Linked'
    BY <1>2, <1>3, <1>4, SameLines
  <1>6. TypeOK'
    BY <1>1, <1>2, <1>4 DEF TypeOK, Healthy
  <1>7. AckedKept'
    BY <1>1, <1>2, <1>4, ActiveGrows DEF AckedKept, IsLine
  <1> QED
    BY <1>5, <1>6, <1>7 DEF LogInv

(* A power loss keeps the durable lines and a prefix of the others.        *)
LEMMA PowerLossStep ==
  ASSUME LogInv, PowerLoss
  PROVE  LogInv'
  <1>1. TypeOK /\ DiskInv /\ Counted /\ AckedKept
    BY DEF LogInv
  <1>2. /\ pc' = "down" /\ opened' = FALSE /\ seq' = 0 /\ prevHash' = 0
        /\ UNCHANGED <<torn, rotations, opts, session, writes>>
        /\ acked' = {a \in acked : a.synced}
        /\ active = Absent => active' = Absent
        /\ active # Absent => active' \in Remains(active)
        /\ DOMAIN segs' = DOMAIN segs
        /\ \A r \in DOMAIN segs : segs'[r] \in Remains(segs[r])
    BY DEF PowerLoss, Down, Goto
  <1>3. writes \in Nat /\ rotations \in Nat /\ MaxWrites \in Nat
    BY Numbers
  <1>4. ASSUME active # Absent
        PROVE  /\ Healthy(active)' /\ active' # Absent /\ active' \in Files
               /\ Len(active'.lines) <= Len(active.lines)
               /\ Len(active'.lines) \in Nat /\ Len(active.lines) \in Nat
               /\ DOMAIN active.lines = 1 .. Len(active.lines)
               /\ DOMAIN active'.lines = 1 .. Len(active'.lines)
               /\ \A k \in 1 .. Len(active'.lines) : active'.lines[k] = active.lines[k]
               /\ active'.durable = Len(active'.lines)
               /\ active.durable <= active'.durable /\ active.durable \in Nat
    <2>1. PICK g \in Remains(active) : active' = g
      BY <1>2, <1>4
    <2>2. Healthy(active) /\ active \in Files
      BY <1>4, Numbers
    <2>3. /\ Healthy(g) /\ Len(g.lines) <= Len(active.lines) /\ Len(g.lines) \in Nat
          /\ \A k \in 1 .. Len(g.lines) : g.lines[k] = active.lines[k]
          /\ g.durable = Len(g.lines) /\ active.durable <= g.durable
      BY <2>2, RemainsHealthy
    <2>4. g \in Files /\ g # Absent
      BY <2>3, LogAssumption DEF Healthy
    <2>5. DOMAIN g.lines = 1 .. Len(g.lines)
      BY <2>4, FileFacts
    <2>6. Healthy(active)'
      BY <1>2, <2>1, <2>3 DEF Healthy
    <2> QED
      BY <2>1, <2>2, <2>3, <2>4, <2>5, <2>6, FileFacts
  <1>5. ASSUME NEW r \in DOMAIN segs
        PROVE  /\ Healthy(segs[r])' /\ segs'[r] \in Files
               /\ DOMAIN segs[r].lines = 1 .. Len(segs[r].lines)
               /\ DOMAIN segs'[r].lines = 1 .. Len(segs'[r].lines)
               /\ \A k \in 1 .. Len(segs'[r].lines) : segs'[r].lines[k] = segs[r].lines[k]
               /\ segs'[r].durable = Len(segs'[r].lines)
               /\ Len(segs'[r].lines) \in Nat
               /\ segs[r].durable <= segs'[r].durable /\ segs[r].durable \in Nat
    <2>1. PICK g \in Remains(segs[r]) : segs'[r] = g
      BY <1>2
    <2>2. Healthy(segs[r]) /\ segs[r] \in Files
      BY <1>1 DEF DiskInv, TypeOK
    <2>3. /\ Healthy(g) /\ Len(g.lines) \in Nat
          /\ \A k \in 1 .. Len(g.lines) : g.lines[k] = segs[r].lines[k]
          /\ g.durable = Len(g.lines) /\ segs[r].durable <= g.durable
      BY <2>2, RemainsHealthy
    <2>4. g \in Files
      BY <2>3 DEF Healthy
    <2>5. DOMAIN g.lines = 1 .. Len(g.lines)
      BY <2>4, FileFacts
    <2>6. Healthy(segs[r])'
      BY <1>2, <2>1, <2>3 DEF Healthy
    <2> QED
      BY <2>1, <2>2, <2>3, <2>4, <2>5, <2>6, FileFacts
  <1>6. TypeOK'
    <2>1. active' \in Files \union {Absent}
      BY <1>2, <1>4
    <2>2. DOMAIN segs' \subseteq 1 .. rotations' /\ \A r \in DOMAIN segs' : segs'[r] \in Files
      BY <1>1, <1>2, <1>5 DEF TypeOK
    <2>3. seq' \in 0 .. MaxWrites /\ prevHash' \in 0 .. MaxWrites
      BY <1>2, <1>3
    <2> QED
      BY <1>1, <1>2, <2>1, <2>2, <2>3 DEF TypeOK
  <1>7. DiskInv'
    <2>1. active' # Absent => Healthy(active)'
      BY <1>2, <1>4
    <2>2. \A r \in DOMAIN segs : Healthy(segs[r])'
      BY <1>5
    <2> QED
      BY <1>2, <2>1, <2>2 DEF DiskInv
  <1>8. Counted'
    <2>1. active' # Absent => active # Absent
      BY <1>2
    <2>2. ASSUME active # Absent
          PROVE  /\ Len(active'.lines) <= writes
                 /\ \A k \in DOMAIN active'.lines : active'.lines[k] # Corrupt =>
                      active'.lines[k].id <= writes /\ active'.lines[k].session <= session
      BY <1>1, <1>3, <1>4, <2>2 DEF Counted
    <2> QED
      BY <1>1, <1>2, <1>3, <2>1, <2>2 DEF Counted, Writing
  <1>9. Rotating' /\ Linked'
    BY <1>2 DEF Rotating, Linked
  <1>10. AckedKept'
    <2>1. ASSUME NEW a \in acked \intersect acked', NEW k \in DOMAIN FileOf(a).lines,
                 a.synced => k <= FileOf(a).durable
          PROVE  /\ k \in DOMAIN FileOf(a)'.lines
                 /\ FileOf(a)'.lines[k] = FileOf(a).lines[k]
                 /\ a.synced => k <= FileOf(a)'.durable
      <3>1. a.synced
        BY <1>2
      <3>2. CASE a.file \in DOMAIN segs
        <4>1. FileOf(a) = segs[a.file] /\ FileOf(a)' = segs'[a.file]
          BY <1>2, <3>2 DEF FileOf, Numbered
        <4>2. k \in 1 .. Len(segs[a.file].lines) /\ k <= segs[a.file].durable
          BY <1>5, <2>1, <3>1, <3>2, <4>1
        <4> QED
          BY <1>5, <3>2, <4>1, <4>2
      <3>3. CASE a.file \notin DOMAIN segs /\ a.file = rotations + 1 /\ active # Absent
        <4>1. FileOf(a) = active /\ FileOf(a)' = active'
          BY <1>2, <1>4, <3>3 DEF FileOf, Numbered
        <4>2. k \in 1 .. Len(active.lines) /\ k <= active.durable
          BY <1>4, <2>1, <3>1, <3>3, <4>1
        <4> QED
          BY <1>4, <3>3, <4>1, <4>2
      <3>4. CASE /\ a.file \notin DOMAIN segs
                 /\ ~(a.file = rotations + 1 /\ active # Absent)
        BY <2>1, <3>4, Numbers DEF FileOf, Numbered
      <3> QED
        BY <3>2, <3>3, <3>4
    <2>2. rotations' \in Nat /\ rotations <= rotations'
      BY <1>2, <1>3
    <2> QED
      BY <1>2, <2>1, <2>2, AckedStays DEF AckedKept
  <1> QED
    BY <1>6, <1>7, <1>8, <1>9, <1>10 DEF LogInv

-------------------------------------------------------------------------------
(* The theorems.                                                           *)

(* Files are healthy, numbers follow and acknowledged events are kept.     *)
LEMMA LogInvariant == Spec => []LogInv
  <1>1. Init => LogInv
    <2> SUFFICES ASSUME Init PROVE LogInv
      OBVIOUS
    <2>1. /\ torn \in BOOLEAN /\ active = Absent /\ DOMAIN segs = {}
          /\ rotations = 0 /\ pc = "down" /\ opts \in Configs /\ opened = FALSE
          /\ session = 0 /\ seq = 0 /\ prevHash = 0 /\ writes = 0 /\ acked = {}
      BY DEF Init
    <2>2. 0 \in 0 .. MaxWrites /\ 0 \in 0 .. MaxStarts
      BY LogAssumption
    <2>3. TypeOK
      BY <2>1, <2>2 DEF TypeOK
    <2>4. DiskInv /\ Counted /\ Rotating /\ Linked /\ AckedKept
      BY <2>1 DEF DiskInv, Counted, Rotating, Linked, AckedKept, Writing
    <2> QED
      BY <2>3, <2>4 DEF LogInv
  <1>2. LogInv /\ [Next]_vars => LogInv'
    <2> SUFFICES ASSUME LogInv, [Next]_vars PROVE LogInv'
      OBVIOUS
    <2>1. CASE UNCHANGED vars
      <3>1. UNCHANGED <<torn, active, segs, rotations, pc, opts, opened, session,
                        seq, prevHash, writes, acked>>
        BY <2>1 DEF vars, disk, process
      <3>2. UNCHANGED <<TypeOK, DiskInv, Counted, Rotating, Linked>>
        BY <3>1 DEF TypeOK, DiskInv, Healthy, Counted, Rotating, Linked
      <3>3. UNCHANGED AckedKept
        BY <3>1 DEF AckedKept, IsLine, Obliged, FileOf, Numbered
      <3> QED
        BY <3>2, <3>3 DEF LogInv
    <2> QED
      BY <2>1, QuietStep, StartStep, RenameStep, ReopenStep, PruneStep,
         AppendedStep, AppendFailedStep, SyncStep, CloseStep, PowerLossStep
      DEF Next
  <1> QED
    BY <1>1, <1>2, PTL DEF Spec

(* TypeOK: whatever fails, the numbers of segments, lines and events stay  *)
(* within the number of Writes.                                            *)
THEOREM TypeCorrect == Spec => []TypeOK
  <1>1. LogInv => TypeOK
    BY DEF LogInv
  <1> QED
    BY <1>1, LogInvariant, PTL

(* Every file on the disk is sane.                                         *)
LEMMA DiskHealthy ==
  ASSUME LogInv, NEW f \in OnDisk
  PROVE  f \in Files /\ Sane(Entries(f))
  <1>1. Healthy(f)
    <2>1. (f = active /\ active # Absent) \/ \E r \in DOMAIN segs : f = segs[r]
      BY DEF OnDisk
    <2> QED
      BY <2>1 DEF LogInv, DiskInv
  <1> QED
    BY <1>1 DEF Healthy

(* NoGaps: in every file the ids of the events rise and the numbers of one *)
(* session have no gap, after any failures, crashes and power losses.      *)
THEOREM NoGapsCorrect == Spec => []NoGaps
  <1>1. ASSUME LogInv PROVE NoGaps
    BY <1>1, DiskHealthy DEF NoGaps, Sane, InOrder
  <1> QED
    BY <1>1, LogInvariant, PTL

(* NoFalseAlarm: audit verify never reports a broken link or a log that is *)
(* chained only in part, for nobody but the writer touched the files; what *)
(* it does report as tampering is an unhashed event, or one it does not    *)
(* read back as it was hashed.                                             *)
THEOREM NoFalseAlarmCorrect == Spec => []NoFalseAlarm
  <1>1. ASSUME LogInv, NEW f \in OnDisk
        PROVE  /\ Verify(f) # "PARTIAL"
               /\ \A k \in DOMAIN Entries(f) : Forked(Entries(f), k) =>
                    \E j \in 1 .. k - 1 : Broken(Entries(f), j)
               /\ Verify(f) = "FAILED" =>
                    \E k \in DOMAIN Entries(f) :
                      Unhashed(Entries(f), k) \/ Mismatched(Entries(f), k)
    <2> DEFINE s == Entries(f)
               corrupt == \E k \in DOMAIN s : StopsAt(s, k) /\ s[k] = Corrupt
               failed == \E k \in DOMAIN s : StopsAt(s, k) /\ s[k] # Corrupt
               chained == {k \in DOMAIN s : IsChained(s[k])}
               rest == IF chained = {} /\ s # <<>> THEN "UNCHAINED"
                       ELSE IF s # <<>> /\ 1 \notin chained THEN "PARTIAL" ELSE "OK"
    <2>1. s \in Seq(Entry) /\ Sane(s) /\ DOMAIN s = 1 .. Len(s) /\ Len(s) \in Nat
      BY <1>1, DiskHealthy, FileFacts
    <2>2. ASSUME NEW k \in DOMAIN s, Forked(s, k)
          PROVE  \E j \in 1 .. k - 1 : Broken(s, j)
      BY <2>1, <2>2 DEF Sane
    <2>4. ASSUME failed
          PROVE  \E k \in DOMAIN s : Unhashed(s, k) \/ Mismatched(s, k)
      <3>1. PICK k \in DOMAIN s : StopsAt(s, k) /\ s[k] # Corrupt
        BY <2>4
      <3>2. ~Forked(s, k)
        <4>1. SUFFICES ASSUME Forked(s, k) PROVE FALSE
          OBVIOUS
        <4>2. PICK j \in 1 .. k - 1 : Broken(s, j)
          BY <2>2, <4>1
        <4>3. Problem(s, j)
          BY <4>2 DEF Problem, Broken
        <4> QED
          BY <3>1, <4>2, <4>3 DEF StopsAt
      <3> QED
        BY <3>1, <3>2 DEF StopsAt, Problem
    <2>5. Verify(f) = CASE corrupt -> "CORRUPT" [] failed -> "FAILED" [] OTHER -> rest
      BY DEF Verify
    <2>6. rest \in {"UNCHAINED", "PARTIAL", "OK"}
      OBVIOUS
    <2>3. Verify(f) # "PARTIAL"
      <3>2. rest = "PARTIAL" => corrupt
        <4>1. SUFFICES ASSUME rest = "PARTIAL" PROVE corrupt
          OBVIOUS
        <4>2. PICK k \in DOMAIN s : IsChained(s[k])
          BY <4>1
        <4>3. 1 \in DOMAIN s /\ ~IsChained(s[1])
          BY <2>1, <4>1, <4>2
        <4>4. s[1] = Corrupt
          BY <2>1, <4>2, <4>3 DEF Sane
        <4>5. StopsAt(s, 1)
          BY <4>4 DEF StopsAt, Problem
        <4> QED
          BY <4>3, <4>4, <4>5
      <3>3. corrupt => ~failed
        <4>1. SUFFICES ASSUME NEW j \in DOMAIN s, NEW k \in DOMAIN s,
                              StopsAt(s, j), s[j] = Corrupt,
                              StopsAt(s, k), s[k] # Corrupt
                       PROVE  FALSE
          OBVIOUS
        <4>2. Problem(s, j) /\ Problem(s, k)
          BY <4>1 DEF StopsAt
        <4>3. ~(j < k) /\ ~(k < j)
          BY <2>1, <4>1, <4>2 DEF StopsAt
        <4> QED
          BY <2>1, <4>1, <4>3
      <3> HIDE DEF corrupt, failed, rest
      <3> QED
        BY <2>5, <3>2, <3>3
    <2>7. Verify(f) = "FAILED" => failed
      <3> HIDE DEF corrupt, failed, rest
      <3> QED
        BY <2>5, <2>6
    <2> HIDE DEF corrupt, failed, rest
    <2> QED
      BY <2>2, <2>3, <2>4, <2>7
  <1>2. LogInv => NoFalseAlarm
    BY <1>1 DEF NoFalseAlarm, Broken
  <1> QED
    BY <1>2, LogInvariant, PTL

(* AckedSurvives: a line whose Write returned nil is in its file until     *)
(* Keep newer segments exist, through rotations, restarts and, if it was   *)
(* synced, power losses.                                                   *)
THEOREM AckedSurvivesCorrect == Spec => []AckedSurvives
  <1>1. ASSUME LogInv PROVE AckedSurvives
    BY <1>1 DEF LogInv, AckedKept, AckedSurvives, IsLine, Obliged
  <1> QED
    BY <1>1, LogInvariant, PTL
-------------------------------------------------------------------------------
(* The log is append-only.                                                 *)

(* The lines of the active file are those it had, and perhaps more.        *)
Grows ==
  /\ UNCHANGED <<segs, rotations>>
  /\ active # Absent =>
       /\ active' # Absent
       /\ \A k \in DOMAIN active.lines :
            k \in DOMAIN active'.lines /\ active'.lines[k] = active.lines[k]

(* Then every file only grows.                                             *)
LEMMA GrowsAppends ==
  ASSUME LogInv, Grows, NEW n
  PROVE  OnlyAppends(n)
  <1>1. DOMAIN EmptyFile.lines = {} /\ UNCHANGED <<segs, rotations>>
    BY Numbers DEF Grows
  <1>2. CASE n \in DOMAIN segs
    BY <1>1, <1>2 DEF OnlyAppends, Numbered
  <1>3. CASE n \notin DOMAIN segs /\ n = rotations + 1 /\ active # Absent
    <2>1. Numbered(n) = active /\ Numbered(n)' = active'
      BY <1>1, <1>3 DEF Grows, Numbered
    <2> QED
      BY <1>3, <2>1 DEF Grows, OnlyAppends
  <1>4. CASE n \notin DOMAIN segs /\ ~(n = rotations + 1 /\ active # Absent)
    <2>1. Numbered(n) = EmptyFile
      BY <1>4 DEF Numbered
    <2> QED
      BY <1>1, <2>1 DEF OnlyAppends
  <1> QED
    BY <1>2, <1>3, <1>4

(* A line, or a part of one, is added behind those there are.              *)
LEMMA AppendGrows ==
  ASSUME LogInv, Appended \/ AppendFailed
  PROVE  Grows
  <1>1. /\ pc = "append" /\ UNCHANGED <<segs, rotations>>
        /\ opened => active # Absent
    BY DEF Appended, AppendFailed, LogInv, TypeOK
  <1>2. CASE active' = active
    BY <1>1, <1>2 DEF Grows
  <1>3. CASE opened /\ active' = WithLine(active, Composed)
    <2>1. Healthy(active) /\ active \in Files
      BY <1>1, <1>3, Numbers
    <2>2. PICK x : active'.lines = Append(active.lines, x)
                   /\ Healthy(WithLine(active, Composed))
      BY <1>1, <1>3, <2>1, ComposedFits, WithLineHealthy
    <2>3. active' # Absent
      BY <1>3, <2>2, LogAssumption DEF Healthy
    <2>4. active.lines \in Seq(Entry)
      BY <2>1, FileFacts
    <2> HIDE DEF Entry
    <2>5. \A k \in DOMAIN active.lines :
            k \in DOMAIN active'.lines /\ active'.lines[k] = active.lines[k]
      BY <2>2, <2>4
    <2> QED
      BY <1>1, <2>3, <2>5 DEF Grows
  <1>4. CASE torn /\ opened /\ active' \in WithTorn(active, Composed)
    <2>1. PICK g \in WithTorn(active, Composed) : active' = g
      BY <1>4
    <2>2. Healthy(g) /\ g.lines = active.lines
      BY <1>1, <1>4, <2>1, ComposedFits, WithTornHealthy
    <2>3. active' # Absent
      BY <2>1, <2>2, LogAssumption DEF Healthy
    <2> QED
      BY <1>1, <2>1, <2>2, <2>3 DEF Grows
  <1> QED
    BY <1>2, <1>3, <1>4 DEF Appended, AppendFailed

(* A flush changes no content, and only a missing file is created.         *)
LEMMA OpenGrows ==
  ASSUME LogInv, Start \/ Reopen \/ Sync \/ Close
  PROVE  Grows
  <1>1. UNCHANGED <<segs, rotations>>
    BY DEF Start, Reopen, Sync, Close
  <1>2. CASE Start
    BY <1>1, <1>2 DEF Start, Grows
  <1>3. CASE Reopen
    <2>1. active = Absent
      BY <1>3 DEF Reopen, LogInv, Rotating
    <2> QED
      BY <1>1, <2>1 DEF Grows
  <1>4. CASE Sync \/ Close
    <2>1. active # Absent /\ Healthy(active)
      BY <1>4, Numbers DEF Sync, Close, LogInv, TypeOK, Rotating
    <2>2. active' = active \/ active' = Flushed(active)
      BY <1>4 DEF Sync, Close
    <2>3. Flushed(active).lines = active.lines /\ Flushed(active) # Absent
      BY <2>1, FlushedHealthy, LogAssumption DEF Healthy
    <2> QED
      BY <1>1, <2>1, <2>2, <2>3 DEF Grows
  <1> QED
    BY <1>2, <1>3, <1>4

(* The rotated file is found under its new number, and no other.           *)
LEMMA RenameAppends ==
  ASSUME LogInv, Rename, NEW n \in 1 .. rotations + 1
  PROVE  OnlyAppends(n)
  <1>1. CASE UNCHANGED disk
    BY <1>1, GrowsAppends DEF disk, Grows
  <1>2. CASE /\ segs' = [r \in DOMAIN segs \union {rotations + 1} |->
                           IF r = rotations + 1 THEN active ELSE segs[r]]
             /\ rotations' = rotations + 1
    <2>1. /\ rotations \in Nat /\ active # Absent
          /\ \A r \in DOMAIN segs : r # rotations + 1
      BY Numbers DEF Rename, LogInv, Rotating
    <2>2. CASE n \in DOMAIN segs
      <3>1. Numbered(n)' = Numbered(n)
        BY <1>2, <2>1, <2>2 DEF Numbered
      <3> QED
        BY <3>1 DEF OnlyAppends
    <2>3. CASE n = rotations + 1
      <3>1. Numbered(n)' = Numbered(n)
        BY <1>2, <2>1, <2>3 DEF Numbered
      <3> QED
        BY <3>1 DEF OnlyAppends
    <2>4. CASE n \notin DOMAIN segs /\ n # rotations + 1
      <3>1. Numbered(n) = EmptyFile /\ DOMAIN EmptyFile.lines = {}
        BY <2>4, Numbers DEF Numbered
      <3> QED
        BY <3>1 DEF OnlyAppends
    <2> QED
      BY <2>2, <2>3, <2>4
  <1> QED
    BY <1>1, <1>2 DEF Rename

(* prune takes none of the Keep newest.                                    *)
LEMMA PruneAppends ==
  ASSUME LogInv, Prune, NEW n \in 1 .. rotations + 1,
         Keep = 0 \/ n > rotations' - Keep
  PROVE  OnlyAppends(n)
  <1>1. PICK gone \in SUBSET {r \in DOMAIN segs : Expendable(r)} :
          segs' = [r \in DOMAIN segs \ gone |-> segs[r]]
    BY DEF Prune
  <1>2. UNCHANGED <<active, rotations>> /\ rotations \in Nat /\ Keep \in Nat
    BY Numbers DEF Prune
  <1>3. n \notin gone
    BY <1>1, <1>2, ExpendableOld
  <1>4. Numbered(n)' = Numbered(n)
    BY <1>1, <1>2, <1>3 DEF Numbered
  <1> QED
    BY <1>4 DEF OnlyAppends

(* A power loss takes lines off the end of a file, and never synced ones.  *)
LEMMA PowerLossAppends ==
  ASSUME LogInv, PowerLoss, NEW n
  PROVE  OnlyAppends(n)
  <1>1. /\ pc' = "down" /\ rotations' = rotations
        /\ active = Absent => active' = Absent
        /\ active # Absent => active' \in Remains(active)
        /\ DOMAIN segs' = DOMAIN segs
        /\ \A r \in DOMAIN segs : segs'[r] \in Remains(segs[r])
    BY DEF PowerLoss, Down, Goto
  <1>2. ASSUME NEW f, Healthy(f), NEW g \in Remains(f),
               Numbered(n) = f, Numbered(n)' = g
        PROVE  OnlyAppends(n)
    <2>1. f \in Files /\ g \in Files /\ Healthy(g)
      BY <1>2, RemainsHealthy DEF Healthy
    <2>2. /\ DOMAIN f.lines = 1 .. Len(f.lines) /\ Len(f.lines) \in Nat
          /\ DOMAIN g.lines = 1 .. Len(g.lines) /\ Len(g.lines) \in Nat
          /\ f.durable \in Nat
      BY <2>1, FileFacts
    <2>3. /\ \A k \in 1 .. Len(g.lines) : g.lines[k] = f.lines[k]
          /\ f.durable <= Len(g.lines)
      BY <1>2, RemainsHealthy
    <2>4. \A k \in DOMAIN f.lines \intersect DOMAIN g.lines : g.lines[k] = f.lines[k]
      BY <2>2, <2>3
    <2>5. \A k \in DOMAIN f.lines : k <= f.durable => k \in DOMAIN g.lines
      BY <2>2, <2>3
    <2> QED
      BY <1>1, <1>2, <2>4, <2>5 DEF OnlyAppends
  <1>3. CASE n \in DOMAIN segs
    <2>1. Numbered(n) = segs[n] /\ Numbered(n)' = segs'[n]
      BY <1>1, <1>3 DEF Numbered
    <2> QED
      BY <1>1, <1>2, <1>3, <2>1 DEF LogInv, DiskInv
  <1>4. CASE n \notin DOMAIN segs /\ n = rotations + 1 /\ active # Absent
    <2>1. Healthy(active) /\ active' \in Remains(active)
      BY <1>1, <1>4, Numbers
    <2>2. active' # Absent
      BY <2>1, RemainsHealthy, LogAssumption DEF Healthy
    <2>3. Numbered(n) = active /\ Numbered(n)' = active'
      BY <1>1, <1>4, <2>2 DEF Numbered
    <2> QED
      BY <1>2, <2>1, <2>3
  <1>5. CASE n \notin DOMAIN segs /\ ~(n = rotations + 1 /\ active # Absent)
    <2>1. Numbered(n) = EmptyFile /\ DOMAIN EmptyFile.lines = {}
      BY <1>5, Numbers DEF Numbered
    <2> QED
      BY <2>1 DEF OnlyAppends
  <1> QED
    BY <1>3, <1>4, <1>5

(* AppendOnly: no step of a Write, a rotation, a start or an end rewrites, *)
(* moves or renames over a line of a kept file.  Lines may only go with    *)
(* the process, to a power loss, and synced ones not even then.            *)
THEOREM AppendOnlyCorrect == Spec => AppendOnly
  <1>1. ASSUME LogInv, [Next]_vars, NEW n \in 1 .. rotations + 1,
               Keep = 0 \/ n > rotations' - Keep
        PROVE  OnlyAppends(n)
    <2>1. CASE UNCHANGED disk
      BY <1>1, <2>1, GrowsAppends DEF disk, Grows
    <2>2. CASE Start \/ Reopen \/ Sync \/ Close
      BY <1>1, <2>2, OpenGrows, GrowsAppends
    <2>3. CASE Appended \/ AppendFailed
      BY <1>1, <2>3, AppendGrows, GrowsAppends
    <2>4. CASE Rename
      BY <1>1, <2>4, RenameAppends
    <2>5. CASE Prune
      BY <1>1, <2>5, PruneAppends
    <2>6. CASE PowerLoss
      BY <1>1, <2>6, PowerLossAppends
    <2>7. BeginWrite \/ NotDue \/ CloseSegment \/ RotatorClosed \/ Exit
            => UNCHANGED disk
      BY DEF BeginWrite, NotDue, CloseSegment, RotatorClosed, Exit
    <2>8. UNCHANGED vars => UNCHANGED disk
      BY DEF vars, disk
    <2> QED
      BY <1>1, <2>1, <2>2, <2>3, <2>4, <2>5, <2>6, <2>7, <2>8 DEF Next
  <1>2. LogInv /\ [Next]_vars =>
          [\A n \in 1 .. rotations + 1 :
             Keep = 0 \/ n > rotations' - Keep => OnlyAppends(n)]_vars
    BY <1>1
  <1> QED
    BY <1>2, LogInvariant, PTL DEF Spec, AppendOnly
===============================================================================
