------------------------- MODULE PolicyFilesProofs -------------------------
(***************************************************************************)
(* Lemmas about policies and the walks over the files they are made of,    *)
(* for every tree of files.                                                *)
(***************************************************************************)
EXTENDS PolicyFiles, FiniteSetTheorems, SequenceTheorems, TLAPS

-------------------------------------------------------------------------------
(* Least and greatest numbers: what inductions over data rest on.          *)

(* A set of naturals that is not empty has a least one.                    *)
LEMMA LeastNat ==
  ASSUME NEW S \in SUBSET Nat, S # {}
  PROVE  \E m \in S : \A n \in S : m <= n
  <1>1. PICK a \in S : TRUE
    OBVIOUS
  <1> DEFINE U == 0 .. a
             G == {0 .. n : n \in {k \in S : k <= a}}
  <1>2. IsFiniteSet(U)
    BY FS_Interval
  <1>3. G \subseteq SUBSET U /\ G # {}
    BY <1>1
  <1>4. G \subseteq FiniteSubsetsOf(U)
    BY <1>2, <1>3, FS_FiniteSubsetsOfFinite
  <1>5. PICK X \in G : \A Y \in G : <<Y, X>> \notin StrictSubsetOrdering(U)
    BY <1>3, <1>4, FS_StrictSubsetOrderingWellFounded, WFMin
  <1>6. PICK m \in S : m <= a /\ X = 0 .. m
    BY <1>5
  <1>7. ASSUME NEW n \in S, n < m PROVE FALSE
    <2>1. 0 .. n \in G
      BY <1>6, <1>7
    <2>2. m \in 0 .. m /\ m \notin 0 .. n
      BY <1>7
    <2>3. 0 .. n \subseteq 0 .. m /\ 0 .. n # 0 .. m
      BY <1>7, <2>2
    <2>4. <<0 .. n, X>> \in StrictSubsetOrdering(U)
      BY <1>3, <1>6, <2>1, <2>3 DEF StrictSubsetOrdering
    <2> QED
      BY <1>5, <2>1, <2>4
  <1> QED
    BY <1>6, <1>7

(* What SelectInSeq and SelectLastInSeq find is there, and is the first or *)
(* the last.                                                               *)
LEMMA MinIndex ==
  ASSUME NEW n \in Nat, NEW I \in SUBSET (1 .. n), I # {}
  PROVE  Min(I) \in I /\ \A j \in I : Min(I) <= j
  <1>1. \E m \in I : \A j \in I : m <= j
    BY LeastNat
  <1> QED
    BY <1>1 DEF Min

(* A set of indices that is not empty has a greatest one.                  *)
LEMMA MaxIndex ==
  ASSUME NEW n \in Nat, NEW I \in SUBSET (1 .. n), I # {}
  PROVE  Max(I) \in I /\ \A j \in I : j <= Max(I)
  <1> DEFINE D == {n - i : i \in I}
  <1>1. PICK d \in D : \A e \in D : d <= e
    <2>1. D \in SUBSET Nat /\ D # {}
      <3>1. \A i \in I : n - i \in Nat
        OBVIOUS
      <3>2. PICK i \in I : TRUE
        OBVIOUS
      <3>3. n - i \in D
        BY <3>2
      <3> QED
        BY <3>1, <3>3
    <2> HIDE DEF D
    <2> QED
      BY <2>1, LeastNat
  <1>2. PICK m \in I : d = n - m
    OBVIOUS
  <1>3. \A j \in I : j <= m
    <2>1. \A j \in I : n - j \in D
      OBVIOUS
    <2>2. ASSUME NEW j \in I PROVE j <= m
      <3>1. d <= n - j
        BY <1>1, <2>1
      <3>2. n - m <= n - j /\ m \in Nat /\ j \in Nat
        BY <1>2, <3>1
      <3> QED
        BY <3>2
    <2> QED
      BY <2>2
  <1> QED
    BY <1>3 DEF Max

-------------------------------------------------------------------------------
(* Defaults.                                                               *)

(* What applyDefaults sets, and that it leaves the other fields alone.     *)
LEMMA DefaultFields ==
  ASSUME NEW p, IsPolicy(p),
         NEW d, d = ApplyDefaults(p)
  PROVE  /\ IsPolicy(d)
         /\ d.decision = IF p.decision = "" THEN "deny" ELSE p.decision
         /\ d.format = IF p.format = "" THEN "jsonl" ELSE p.format
         /\ d.mode = IF p.taint /\ p.mode = "" THEN "escalate" ELSE p.mode
         /\ d.minLength = IF p.taint /\ p.minLength <= 0 THEN 12 ELSE p.minLength
         /\ d.version = p.version /\ d.tools = p.tools /\ d.groups = p.groups
         /\ d.patterns = p.patterns /\ d.redact = p.redact
         /\ d.include = p.include /\ d.taint = p.taint
  <1> DEFINE Decision == IF p.decision = "" THEN "deny" ELSE p.decision
             Format == IF p.format = "" THEN "jsonl" ELSE p.format
             Mode == IF p.taint /\ p.mode = "" THEN "escalate" ELSE p.mode
             Length == IF p.taint /\ p.minLength <= 0 THEN 12 ELSE p.minLength
  <1>1. p = [field \in DOMAIN ZeroPolicy |-> p[field]]
    BY DEF IsPolicy
  <1>2. d = [[[[p EXCEPT !.decision = Decision] EXCEPT !.format = Format]
               EXCEPT !.mode = Mode] EXCEPT !.minLength = Length]
    BY DEF ApplyDefaults
  <1>3. Length \in Int
    <2>1. p.minLength \in Int
      BY DEF IsPolicy
    <2> QED
      BY <2>1
  <1>4. {"decision", "format", "mode", "minLength"} \subseteq DOMAIN ZeroPolicy
    BY DEF ZeroPolicy
  <1> HIDE DEF Decision, Format, Mode, Length
  <1>5. d = [field \in DOMAIN ZeroPolicy |->
               IF field = "decision" THEN Decision
               ELSE IF field = "format" THEN Format
               ELSE IF field = "mode" THEN Mode
               ELSE IF field = "minLength" THEN Length
               ELSE p[field]]
    BY <1>1, <1>2, <1>4
  <1>6. /\ d = [field \in DOMAIN ZeroPolicy |-> d[field]]
        /\ d.decision = Decision /\ d.format = Format /\ d.mode = Mode
        /\ d.minLength = Length
        /\ \A field \in DOMAIN ZeroPolicy
                         \ {"decision", "format", "mode", "minLength"} :
             d[field] = p[field]
    BY <1>4, <1>5
  <1>7. {"version", "tools", "groups", "patterns", "redact", "include", "taint"}
          \subseteq DOMAIN ZeroPolicy \ {"decision", "format", "mode", "minLength"}
    BY DEF ZeroPolicy
  <1>8. IsPolicy(d)
    <2>1. /\ d.tools = p.tools /\ d.groups = p.groups /\ d.patterns = p.patterns
          /\ d.redact = p.redact /\ d.include = p.include /\ d.taint = p.taint
      BY <1>6, <1>7
    <2> QED
      BY <1>3, <1>6, <2>1 DEF IsPolicy
  <1>9. /\ d.version = p.version /\ d.tools = p.tools /\ d.groups = p.groups
        /\ d.patterns = p.patterns /\ d.redact = p.redact
        /\ d.include = p.include /\ d.taint = p.taint
    BY <1>6, <1>7
  <1> QED
    BY <1>6, <1>8, <1>9 DEF Decision, Format, Mode, Length

(* applyDefaults gives no names to tools, groups or arguments.             *)
LEMMA DefaultNames ==
  ASSUME NEW p, IsPolicy(p)
  PROVE  Names(ApplyDefaults(p)) = Names(p)
  <1>1. PICK d : d = ApplyDefaults(p)
    OBVIOUS
  <1>2. d.tools = p.tools /\ d.groups = p.groups
    BY <1>1, DefaultFields
  <1>3. Names(d) = Names(p)
    BY <1>2 DEF Names
  <1> QED
    BY <1>1, <1>3

(* applyDefaults twice is applyDefaults once.                              *)
LEMMA DefaultsIdempotent ==
  ASSUME NEW p, IsPolicy(p)
  PROVE  ApplyDefaults(ApplyDefaults(p)) = ApplyDefaults(p)
  <1>1. PICK d : d = ApplyDefaults(p)
    OBVIOUS
  <1>2. PICK e : e = ApplyDefaults(d)
    OBVIOUS
  <1>3. /\ IsPolicy(d) /\ d.decision # "" /\ d.format # ""
        /\ ~(d.taint /\ d.mode = "") /\ d.taint = p.taint
    <2>2. d.taint = p.taint
      BY <1>1, DefaultFields
    <2>3. p.taint \in BOOLEAN
      BY DEF IsPolicy
    <2>4. IsPolicy(d) /\ d.decision # "" /\ d.format # ""
      <3>1. /\ IsPolicy(d)
            /\ d.decision = IF p.decision = "" THEN "deny" ELSE p.decision
            /\ d.format = IF p.format = "" THEN "jsonl" ELSE p.format
        BY <1>1, DefaultFields
      <3> QED
        BY <3>1
    <2>5. d.mode = IF p.taint /\ p.mode = "" THEN "escalate" ELSE p.mode
      BY <1>1, DefaultFields
    <2> QED
      BY <2>2, <2>3, <2>4, <2>5
  <1>4. ~(d.taint /\ d.minLength <= 0)
    <2>1. CASE p.taint /\ p.minLength <= 0
      <3>1. d.minLength = 12
        BY <1>1, <2>1, DefaultFields
      <3> QED
        BY <3>1
    <2>2. CASE ~(p.taint /\ p.minLength <= 0)
      <3>1. d.minLength = IF p.taint /\ p.minLength <= 0 THEN 12 ELSE p.minLength
        BY <1>1, DefaultFields
      <3>2. d.taint = p.taint
        BY <1>3
      <3> QED
        BY <2>2, <3>1, <3>2
    <2> QED
      BY <2>1, <2>2
  <1>5. e = d
    BY <1>2, <1>3, <1>4 DEF ApplyDefaults, IsPolicy, ZeroPolicy
  <1> QED
    BY <1>1, <1>2, <1>5

-------------------------------------------------------------------------------
(* Policies that parse.                                                    *)

(* p is the result of a parse.                                             *)
Parsed(p) == IsPolicy(p) /\ ParsePolicy(p) = Loaded(p)

(* p could be parsed, if its defaults were set.                            *)
Parsable(p) ==
  /\ IsPolicy(p) /\ ValidRules(p) /\ ValidTaint(p)
  /\ p.decision \in Decisions \union {""} /\ p.format \in {"", "jsonl"}

(* A parsed policy has its defaults and parses again to itself.            *)
LEMMA ParsedParsable ==
  ASSUME NEW p, Parsed(p)
  PROVE  /\ Parsable(p) /\ ApplyDefaults(p) = p
         /\ p.decision \in Decisions /\ p.format = "jsonl"
         /\ p.taint => p.mode # "" /\ p.minLength > 0
  <1>1. PICK d : d = ApplyDefaults(p)
    OBVIOUS
  <1>2. /\ d.decision \in Decisions /\ ValidRules(d) /\ d.format = "jsonl"
        /\ ValidTaint(d) /\ d = p
    <2>1. Failed("parse") # Loaded(p) /\ (Loaded(d) = Loaded(p) => d = p)
      BY DEF Failed, Loaded
    <2> QED
      BY <1>1, <2>1 DEF Parsed, ParsePolicy
  <1>3. /\ d.mode = IF p.taint /\ p.mode = "" THEN "escalate" ELSE p.mode
        /\ d.minLength = IF p.taint /\ p.minLength <= 0 THEN 12 ELSE p.minLength
    <2>1. IsPolicy(p)
      BY DEF Parsed
    <2> QED
      BY <1>1, <2>1, DefaultFields
  <1>4. p.taint => p.mode # "" /\ p.minLength > 0
    <2>1. PICK n \in Int : n = p.minLength
      BY DEF Parsed, IsPolicy
    <2>2. PICK t \in BOOLEAN : t = p.taint
      BY DEF Parsed, IsPolicy
    <2>3. n = IF t /\ n <= 0 THEN 12 ELSE n
      BY <1>2, <1>3, <2>1, <2>2
    <2>4. t => n > 0
      BY <2>3
    <2>5. t => p.mode # ""
      BY <1>2, <1>3, <2>2
    <2> QED
      BY <2>1, <2>2, <2>4, <2>5
  <1> QED
    BY <1>1, <1>2, <1>4 DEF Parsed, Parsable

(* What ParsePolicy returns without an error is a parsed policy.           *)
LEMMA ParseGives ==
  ASSUME NEW p, IsPolicy(p), ParsePolicy(p).err = "none"
  PROVE  /\ Parsed(ParsePolicy(p).policy)
         /\ ParsePolicy(p) = Loaded(ApplyDefaults(p))
  <1>1. PICK d : d = ApplyDefaults(p)
    OBVIOUS
  <1>2. /\ ParsePolicy(p) = Loaded(d)
        /\ d.decision \in Decisions /\ ValidRules(d) /\ d.format = "jsonl"
        /\ ValidTaint(d)
    <2>1. Failed("parse").err # "none"
      BY DEF Failed
    <2> QED
      BY <1>1, <2>1 DEF ParsePolicy
  <1>3. IsPolicy(d) /\ ApplyDefaults(d) = d
    BY <1>1, DefaultFields, DefaultsIdempotent
  <1>4. Parsed(d)
    BY <1>2, <1>3 DEF Parsed, ParsePolicy
  <1> QED
    BY <1>1, <1>2, <1>4 DEF Loaded

(* A policy that parses is parsed once it has its defaults.                *)
LEMMA DefaultsParse ==
  ASSUME NEW p, Parsable(p)
  PROVE  Parsed(ApplyDefaults(p))
  <1>1. PICK d : d = ApplyDefaults(p)
    OBVIOUS
  <1>2. IsPolicy(p) /\ p.taint \in BOOLEAN /\ p.minLength \in Int
    BY DEF Parsable, IsPolicy
  <1>3. IsPolicy(d) /\ ApplyDefaults(d) = d /\ d.tools = p.tools
    BY <1>1, <1>2, DefaultFields, DefaultsIdempotent
  <1>4. d.decision \in Decisions /\ d.format = "jsonl"
    <2>1. /\ d.decision = IF p.decision = "" THEN "deny" ELSE p.decision
          /\ d.format = IF p.format = "" THEN "jsonl" ELSE p.format
      BY <1>1, <1>2, DefaultFields
    <2> QED
      BY <2>1 DEF Parsable, Decisions
  <1>5. ValidRules(d)
    BY <1>3 DEF Parsable, ValidRules
  <1>6. ValidTaint(d)
    <2>1. d.mode = IF p.taint /\ p.mode = "" THEN "escalate" ELSE p.mode
      BY <1>1, <1>2, DefaultFields
    <2>2. d.minLength = IF p.taint /\ p.minLength <= 0 THEN 12 ELSE p.minLength
      BY <1>1, <1>2, DefaultFields
    <2>3. d.mode \in {"", "escalate", "deny"}
      BY <2>1 DEF Parsable, ValidTaint
    <2>4. d.minLength >= 0
      <3>1. p.minLength >= 0
        BY DEF Parsable, ValidTaint
      <3>2. CASE p.taint /\ p.minLength <= 0
        BY <2>2, <3>2
      <3>3. CASE ~(p.taint /\ p.minLength <= 0)
        BY <2>2, <3>1, <3>3
      <3> QED
        BY <3>2, <3>3
    <2> QED
      BY <2>3, <2>4 DEF ValidTaint
  <1> QED
    BY <1>1, <1>3, <1>4, <1>5, <1>6 DEF Parsed, ParsePolicy

(* The zero policy parses.                                                 *)
LEMMA ZeroParsable == Parsable(ZeroPolicy)
  <1>1. DOMAIN <<>> = {}
    OBVIOUS
  <1>2. ZeroPolicy.tools = <<>> /\ ZeroPolicy.groups = <<>>
        /\ ZeroPolicy.patterns = <<>>
    BY DEF ZeroPolicy
  <1>3. <<>> = [k \in DOMAIN <<>> |-> <<>>[k]]
    BY <1>1
  <1>4. <<>> \in Seq([compiles : BOOLEAN, matches : SUBSET STRING])
    OBVIOUS
  <1>5. IsPolicy(ZeroPolicy)
    <2>1. ZeroPolicy = [field \in DOMAIN ZeroPolicy |-> ZeroPolicy[field]]
      BY DEF ZeroPolicy
    <2>2. /\ ZeroPolicy.minLength = 0 /\ ZeroPolicy.redact = FALSE
          /\ ZeroPolicy.include = FALSE /\ ZeroPolicy.taint = FALSE
      BY DEF ZeroPolicy
    <2>3. \A field \in {"redact", "include", "taint"} : ZeroPolicy[field] \in BOOLEAN
      BY <2>2
    <2>4. /\ ZeroPolicy.tools = [k \in DOMAIN ZeroPolicy.tools |-> ZeroPolicy.tools[k]]
          /\ ZeroPolicy.groups
               = [k \in DOMAIN ZeroPolicy.groups |-> ZeroPolicy.groups[k]]
          /\ ZeroPolicy.patterns
               \in Seq([compiles : BOOLEAN, matches : SUBSET STRING])
      BY <1>2, <1>3, <1>4
    <2>5. ZeroPolicy.minLength \in Int
      BY <2>2
    <2> QED
      BY <1>1, <1>2, <2>1, <2>3, <2>4, <2>5 DEF IsPolicy
  <1>6. ValidRules(ZeroPolicy)
    BY <1>1, <1>2 DEF ValidRules
  <1>7. ValidTaint(ZeroPolicy)
    BY DEF ValidTaint, ZeroPolicy
  <1> QED
    BY <1>5, <1>6, <1>7 DEF Parsable, ZeroPolicy

(* Where both maps have a key, the second counts.                          *)
LEMMA OverlaidFields ==
  ASSUME NEW f, NEW g
  PROVE  /\ DOMAIN Overlaid(f, g) = DOMAIN f \union DOMAIN g
         /\ \A k \in DOMAIN f \union DOMAIN g :
              Overlaid(f, g)[k] = IF k \in DOMAIN g THEN g[k] ELSE f[k]
         /\ Overlaid(f, g)
              = [k \in DOMAIN Overlaid(f, g) |-> Overlaid(f, g)[k]]
  BY DEF Overlaid

(* What mergePolicy makes of each field.                                   *)
Later(x, y) == IF y # "" THEN y ELSE x

Merged(p, q, m) ==
  /\ IsPolicy(m)
  /\ m.version = Later(p.version, q.version)
  /\ m.decision = Later(p.decision, q.decision)
  /\ m.format = Later(p.format, q.format)
  /\ m.mode = Later(p.mode, q.mode)
  /\ m.minLength = IF q.minLength > 0 THEN q.minLength ELSE p.minLength
  /\ m.tools = Overlaid(p.tools, q.tools)
  /\ m.groups = Overlaid(p.groups, q.groups)
  /\ m.patterns = p.patterns \o q.patterns
  /\ m.redact = (p.redact \/ q.redact)
  /\ m.include = (p.include \/ q.include)
  /\ m.taint = (p.taint \/ q.taint)

(* The fields of a merge, one by one.                                      *)
LEMMA MergeFields ==
  ASSUME NEW p, NEW q, IsPolicy(p), IsPolicy(q)
  PROVE  Merged(p, q, MergePolicy(p, q))
  <1>m. PICK m : m = MergePolicy(p, q)
    OBVIOUS
  <1> DEFINE V == Later(p.version, q.version)
             D == Later(p.decision, q.decision)
             F == Later(p.format, q.format)
             M == Later(p.mode, q.mode)
             L == IF q.minLength > 0 THEN q.minLength ELSE p.minLength
             R == p.redact \/ q.redact
             I == p.include \/ q.include
             T == p.taint \/ q.taint
             O == Overlaid(p.tools, q.tools)
             G == Overlaid(p.groups, q.groups)
             P == p.patterns \o q.patterns
  <1>1. m = [version |-> V, decision |-> D, format |-> F, mode |-> M,
             minLength |-> L, tools |-> O, groups |-> G, patterns |-> P,
             redact |-> R, include |-> I, taint |-> T]
    BY <1>m DEF MergePolicy, Later
  <1>2. L \in Int
    <2>1. p.minLength \in Int /\ q.minLength \in Int
      BY DEF IsPolicy
    <2> QED
      BY <2>1
  <1>3. P \in Seq([compiles : BOOLEAN, matches : SUBSET STRING])
    BY DEF IsPolicy
  <1>4. O = [k \in DOMAIN O |-> O[k]] /\ G = [k \in DOMAIN G |-> G[k]]
    BY OverlaidFields
  <1>5. R \in BOOLEAN /\ I \in BOOLEAN /\ T \in BOOLEAN
    OBVIOUS
  <1> HIDE DEF V, D, F, M, L, R, I, T, O, G, P
  <1>6. /\ m.version = V /\ m.decision = D /\ m.format = F /\ m.mode = M
        /\ m.minLength = L /\ m.tools = O /\ m.groups = G /\ m.patterns = P
        /\ m.redact = R /\ m.include = I /\ m.taint = T
    BY <1>1
  <1>7. m = [field \in DOMAIN ZeroPolicy |-> m[field]]
    BY <1>1 DEF ZeroPolicy
  <1>8. \A field \in {"redact", "include", "taint"} : m[field] \in BOOLEAN
    BY <1>5, <1>6
  <1>9. \A k \in DOMAIN O : O[k].memory.bytes \in Int
    BY DEF O, Overlaid, IsPolicy
  <1>10. G \in [DOMAIN G -> Seq(STRING)]
    BY DEF G, Overlaid, IsPolicy
  <1>11. IsPolicy(m)
    BY <1>2, <1>3, <1>4, <1>6, <1>7, <1>8, <1>9, <1>10 DEF IsPolicy
  <1> QED
    BY <1>m, <1>6, <1>11 DEF Merged, V, D, F, M, L, R, I, T, O, G, P

(* A merge of policies that parse is one that parses.                      *)
LEMMA MergeParsable ==
  ASSUME NEW p, NEW q, Parsable(p), Parsable(q)
  PROVE  Parsable(MergePolicy(p, q))
  <1>1. PICK m : m = MergePolicy(p, q)
    OBVIOUS
  <1>2. IsPolicy(p) /\ IsPolicy(q)
    BY DEF Parsable
  <1>3. /\ IsPolicy(m) /\ m.tools = Overlaid(p.tools, q.tools)
        /\ m.decision = Later(p.decision, q.decision)
        /\ m.format = Later(p.format, q.format)
        /\ m.mode = Later(p.mode, q.mode)
        /\ m.minLength = IF q.minLength > 0 THEN q.minLength ELSE p.minLength
    BY <1>1, <1>2, MergeFields DEF Merged
  <1>4. ValidRules(m)
    <2>1. ValidRules(p) /\ ValidRules(q)
      BY DEF Parsable
    <2> SUFFICES ASSUME NEW k \in DOMAIN m.tools
                 PROVE  /\ m.tools[k].decision \in Decisions
                        /\ ValidMemory(m.tools[k].memory)
      BY DEF ValidRules
    <2>2. k \in DOMAIN p.tools \union DOMAIN q.tools
      BY <1>3 DEF Overlaid
    <2>3. m.tools[k] = IF k \in DOMAIN q.tools THEN q.tools[k] ELSE p.tools[k]
      BY <1>3, <2>2 DEF Overlaid
    <2> QED
      BY <2>1, <2>2, <2>3 DEF ValidRules
  <1>5. /\ m.decision \in Decisions \union {""} /\ m.format \in {"", "jsonl"}
        /\ m.mode \in {"", "escalate", "deny"}
    BY <1>3 DEF Parsable, ValidTaint, Later
  <1>6. m.minLength >= 0
    <2>1. p.minLength \in Int /\ q.minLength \in Int
      BY <1>2 DEF IsPolicy
    <2>2. p.minLength >= 0 /\ q.minLength >= 0
      BY DEF Parsable, ValidTaint
    <2> QED
      BY <1>3, <2>1, <2>2
  <1> QED
    BY <1>1, <1>3, <1>4, <1>5, <1>6 DEF Parsable, ValidTaint

(* A merge uses no name that neither of its parts uses.                    *)
LEMMA MergeNames ==
  ASSUME NEW p, NEW q, IsPolicy(p), IsPolicy(q)
  PROVE  Names(MergePolicy(p, q)) \subseteq Names(p) \union Names(q)
  <1>1. PICK m : m = MergePolicy(p, q)
    OBVIOUS
  <1>2. /\ m.tools = Overlaid(p.tools, q.tools)
        /\ m.groups = Overlaid(p.groups, q.groups)
    BY <1>1, MergeFields DEF Merged
  <1>3. DOMAIN m.tools \union DOMAIN m.groups
          \subseteq Names(p) \union Names(q)
    BY <1>2 DEF Overlaid, Names
  <1>4. ASSUME NEW k \in DOMAIN m.tools
        PROVE  DOMAIN m.tools[k].args \subseteq Names(p) \union Names(q)
    <2>1. \/ k \in DOMAIN q.tools /\ m.tools[k] = q.tools[k]
          \/ k \in DOMAIN p.tools /\ m.tools[k] = p.tools[k]
      BY <1>2 DEF Overlaid
    <2> QED
      BY <2>1 DEF Names
  <1> QED
    BY <1>1, <1>3, <1>4 DEF Names

-------------------------------------------------------------------------------
(* The walks over imports.  One lemma serves them all: kind says which.    *)

(* The files that the file at the end of path is made of.                  *)
Ordered(fs, path, children) ==
  IF OpenError(fs, path) # "none" THEN <<>>
  ELSE FlattenSeq(children) \o <<Last(path)>>

Node(kind, fs, path, children) ==
  IF kind = "load" THEN Resolved(fs, path, children)
  ELSE IF kind = "strict" THEN Errors(fs, path, children)
  ELSE Ordered(fs, path, children)

IsWalk(walk, kind, fs) ==
  walk = [path \in Paths(fs) |->
            Node(kind, fs, path, Children(fs, path, walk))]

(* A path of files is a sequence within the limit, and can be extended     *)
(* while the walk may descend.                                             *)
LEMMA PathFacts ==
  ASSUME NEW fs, NEW path \in Paths(fs)
  PROVE  /\ path \in Seq(DOMAIN fs.content)
         /\ Len(path) \in 1 .. MaxImportDepth + 2
         /\ Last(path) \in DOMAIN fs.content
         /\ Len(path) <= MaxImportDepth + 1 =>
              \A f \in DOMAIN fs.content :
                Append(path, f) \in Paths(fs) /\ Len(Append(path, f)) = Len(path) + 1
  <1>1. PICK n \in 1 .. MaxImportDepth + 2 : path \in [1 .. n -> DOMAIN fs.content]
    BY DEF Paths
  <1>2. path \in Seq(DOMAIN fs.content) /\ Len(path) = n
    BY <1>1 DEF MaxImportDepth
  <1>3. Last(path) \in DOMAIN fs.content
    BY <1>1, <1>2 DEF Last, MaxImportDepth
  <1>4. ASSUME n <= MaxImportDepth + 1, NEW f \in DOMAIN fs.content
        PROVE  Append(path, f) \in Paths(fs) /\ Len(Append(path, f)) = n + 1
    <2>1. Append(path, f) \in Seq(DOMAIN fs.content) /\ Len(Append(path, f)) = n + 1
      BY <1>2
    <2>2. Append(path, f) \in [1 .. n + 1 -> DOMAIN fs.content]
      <3>1. n \in Nat
        BY DEF MaxImportDepth
      <3> QED
        BY <2>1, <3>1, LenProperties
    <2>3. n + 1 \in 1 .. MaxImportDepth + 2
      BY <1>4 DEF MaxImportDepth
    <2> QED
      BY <2>1, <2>2, <2>3 DEF Paths
  <1> QED
    BY <1>1, <1>2, <1>3, <1>4

(* A file beyond the depth limit is not opened.                            *)
LEMMA DeepestNode ==
  ASSUME NEW kind, NEW fs, NEW path, Len(path) > MaxImportDepth + 1,
         NEW c, NEW d
  PROVE  Node(kind, fs, path, c) = Node(kind, fs, path, d)
  BY DEF Node, Resolved, Errors, Ordered, OpenError

(* The children of a path depend only on the walk one file deeper.         *)
LEMMA SameChildren ==
  ASSUME NEW fs, IsTree(fs), NEW path \in Paths(fs),
         Len(path) <= MaxImportDepth + 1, NEW g, NEW h,
         \A f \in DOMAIN fs.content : g[Append(path, f)] = h[Append(path, f)]
  PROVE  Children(fs, path, g) = Children(fs, path, h)
  <1>1. PICK imports : imports = fs.content[Last(path)].imports
    OBVIOUS
  <1>2. imports \in Seq([form : {"relative", "empty", "absolute"},
                         to : DOMAIN fs.content])
    BY <1>1, PathFacts DEF IsTree
  <1>3. \A i \in 1 .. Len(imports) : imports[i].to \in DOMAIN fs.content
    <2> SUFFICES ASSUME NEW i \in 1 .. Len(imports)
                 PROVE  imports[i].to \in DOMAIN fs.content
      OBVIOUS
    <2>1. imports[i] \in [form : {"relative", "empty", "absolute"},
                          to : DOMAIN fs.content]
      BY <1>2, ElementOfSeq
    <2> QED
      BY <2>1
  <1> QED
    BY <1>1, <1>3 DEF Children

(* The recursion of a walk is well founded: depth bounds it.               *)
LEMMA WalkExists ==
  ASSUME NEW kind, NEW fs, IsTree(fs)
  PROVE  \E walk : IsWalk(walk, kind, fs)
  <1> DEFINE Value(path, g) == Node(kind, fs, path, Children(fs, path, g))
             Below(g, k) == \A path \in Paths(fs) :
                              Len(path) > k => g[path] = Value(path, g)
             Depths == {k \in Nat : \E g : Below(g, k)}
  <1> HIDE DEF Value
  <1>1. MaxImportDepth + 2 \in Depths
    <2>1. ASSUME NEW path \in Paths(fs)
          PROVE  ~(Len(path) > MaxImportDepth + 2)
      <3>1. Len(path) \in 1 .. MaxImportDepth + 2
        BY PathFacts
      <3> QED
        BY <3>1 DEF MaxImportDepth
    <2> QED
      BY <2>1 DEF MaxImportDepth
  <1>2. PICK k \in Depths : \A j \in Depths : k <= j
    <2>1. Depths \in SUBSET Nat /\ Depths # {}
      BY <1>1
    <2> HIDE DEF Depths
    <2> QED
      BY <2>1, LeastNat
  <1>3. PICK g : Below(g, k)
    BY <1>2
  <1>4. ASSUME k > 0 PROVE FALSE
    <2> DEFINE H == [path \in Paths(fs) |->
                       IF Len(path) > k THEN g[path] ELSE Value(path, g)]
    <2>1. \A path \in Paths(fs) : H[path] = Value(path, g)
      BY <1>3
    <2>2. ASSUME NEW path \in Paths(fs), Len(path) > k - 1
          PROVE  Value(path, H) = Value(path, g)
      <3>1. CASE Len(path) > MaxImportDepth + 1
        BY <3>1, DeepestNode DEF Value
      <3>2. CASE ~(Len(path) > MaxImportDepth + 1)
        <4>1. Len(path) \in Nat /\ Len(path) <= MaxImportDepth + 1
          BY <3>2, PathFacts DEF MaxImportDepth
        <4>2. \A f \in DOMAIN fs.content :
                /\ Append(path, f) \in Paths(fs)
                /\ Len(Append(path, f)) > k
          BY <1>2, <2>2, <4>1, PathFacts
        <4>3. \A f \in DOMAIN fs.content : H[Append(path, f)] = g[Append(path, f)]
          BY <4>2
        <4> HIDE DEF H
        <4>4. Children(fs, path, H) = Children(fs, path, g)
          BY <4>1, <4>3, SameChildren
        <4> QED
          BY <4>4 DEF Value
      <3> QED
        BY <3>1, <3>2
    <2> HIDE DEF H
    <2>3. Below(H, k - 1)
      BY <2>1, <2>2
    <2>4. k - 1 \in Depths
      BY <1>2, <1>4, <2>3
    <2> QED
      BY <1>2, <2>4
  <1>5. \A path \in Paths(fs) : g[path] = Value(path, g)
    <2>1. k = 0
      BY <1>2, <1>4
    <2> QED
      BY <1>3, <2>1, PathFacts
  <1> DEFINE W == [path \in Paths(fs) |-> Value(path, g)]
  <1>6. \A path \in Paths(fs) : W[path] = g[path]
    BY <1>5
  <1>7. ASSUME NEW path \in Paths(fs)
        PROVE  Value(path, W) = Value(path, g)
    <2>1. CASE Len(path) > MaxImportDepth + 1
      BY <2>1, DeepestNode DEF Value
    <2>2. CASE ~(Len(path) > MaxImportDepth + 1)
      <3>1. Len(path) \in Nat /\ Len(path) <= MaxImportDepth + 1
        BY <2>2, PathFacts DEF MaxImportDepth
      <3>2. \A f \in DOMAIN fs.content : W[Append(path, f)] = g[Append(path, f)]
        BY <1>6, <3>1, PathFacts
      <3> HIDE DEF W
      <3>3. Children(fs, path, W) = Children(fs, path, g)
        BY <3>1, <3>2, SameChildren
      <3> QED
        BY <3>3 DEF Value
    <2> QED
      BY <2>1, <2>2
  <1>8. W = [path \in Paths(fs) |-> Value(path, W)]
    BY <1>7
  <1> QED
    BY <1>8 DEF IsWalk, Value

(* The walk of LoadFile exists and gives what LoadFile returns.            *)
LEMMA LoadWalk ==
  ASSUME NEW fs, IsTree(fs)
  PROVE  \E load : IsWalk(load, "load", fs) /\ LoadFile(fs) = load[<<fs.root>>]
  <1> DEFINE load == CHOOSE g : g = [path \in Paths(fs) |->
                       Resolved(fs, path, Children(fs, path, g))]
  <1>1. \E g : g = [path \in Paths(fs) |->
                      Resolved(fs, path, Children(fs, path, g))]
    BY WalkExists DEF IsWalk, Node
  <1>2. IsWalk(load, "load", fs)
    BY <1>1 DEF IsWalk, Node
  <1>3. LoadFile(fs) = load[<<fs.root>>]
    BY DEF LoadFile
  <1> QED
    BY <1>2, <1>3

(* The walk of ValidateFileStrict exists and gives what it returns.        *)
LEMMA StrictWalk ==
  ASSUME NEW fs, IsTree(fs)
  PROVE  \E strict : /\ IsWalk(strict, "strict", fs)
                     /\ ValidateFileStrict(fs) = strict[<<fs.root>>]
  <1> DEFINE strict == CHOOSE g : g = [path \in Paths(fs) |->
                         Errors(fs, path, Children(fs, path, g))]
  <1>1. \E g : g = [path \in Paths(fs) |->
                      Errors(fs, path, Children(fs, path, g))]
    <2>1. PICK g : IsWalk(g, "strict", fs)
      BY WalkExists
    <2>2. g = [path \in Paths(fs) |-> Errors(fs, path, Children(fs, path, g))]
      BY <2>1 DEF IsWalk, Node
    <2> QED
      BY <2>2
  <1>2. IsWalk(strict, "strict", fs)
    BY <1>1 DEF IsWalk, Node
  <1>3. ValidateFileStrict(fs) = strict[<<fs.root>>]
    BY DEF ValidateFileStrict
  <1> QED
    BY <1>2, <1>3

(* The walk that lists the files in the order they are laid exists.        *)
LEMMA OrderWalk ==
  ASSUME NEW fs, IsTree(fs), NEW order,
         order = CHOOSE g : g = [path \in Paths(fs) |->
                   Ordered(fs, path, Children(fs, path, g))]
  PROVE  IsWalk(order, "order", fs)
  <1>1. \E g : g = [path \in Paths(fs) |->
                      Ordered(fs, path, Children(fs, path, g))]
    <2>1. PICK g : IsWalk(g, "order", fs)
      BY WalkExists
    <2>2. g = [path \in Paths(fs) |-> Ordered(fs, path, Children(fs, path, g))]
      BY <2>1 DEF IsWalk, Node
    <2> QED
      BY <2>2
  <1> QED
    BY <1>1 DEF IsWalk, Node

(* Imports lead to files of the tree.                                      *)
LEMMA ImportFacts ==
  ASSUME NEW fs, IsTree(fs), NEW f \in DOMAIN fs.content
  PROVE  /\ Len(fs.content[f].imports) \in Nat
         /\ \A i \in 1 .. Len(fs.content[f].imports) :
              fs.content[f].imports[i].to \in DOMAIN fs.content
  <1>1. fs.content[f].imports \in Seq([form : {"relative", "empty", "absolute"},
                                        to : DOMAIN fs.content])
    BY DEF IsTree
  <1>2. PICK imports : imports = fs.content[f].imports
    OBVIOUS
  <1>3. \A i \in 1 .. Len(imports) :
          imports[i] \in [form : {"relative", "empty", "absolute"},
                          to : DOMAIN fs.content]
    BY <1>1, <1>2, ElementOfSeq
  <1> QED
    BY <1>1, <1>2, <1>3, LenProperties

(* Induction over a walk: when every path that is wrong has an import that *)
(* is wrong, none is.                                                      *)
LEMMA WalkInduction ==
  ASSUME NEW fs, IsTree(fs), NEW Wrong \in SUBSET Paths(fs),
         \A path \in Wrong :
           /\ Len(path) <= MaxImportDepth + 1
           /\ \E i \in 1 .. Len(fs.content[Last(path)].imports) :
                Append(path, fs.content[Last(path)].imports[i].to) \in Wrong
  PROVE  Wrong = {}
  <1> DEFINE Left(path) == MaxImportDepth + 2 - Len(path)
             Lefts == {Left(path) : path \in Wrong}
  <1>1. ASSUME NEW path \in Paths(fs) PROVE Left(path) \in Nat
    <2>1. PICK n \in 1 .. MaxImportDepth + 2 : n = Len(path)
      BY PathFacts
    <2>2. MaxImportDepth + 2 - n \in Nat
      BY DEF MaxImportDepth
    <2> QED
      BY <2>1, <2>2
  <1>2. SUFFICES ASSUME Wrong # {} PROVE FALSE
    OBVIOUS
  <1>3. Lefts \in SUBSET Nat /\ Lefts # {}
    BY <1>1, <1>2
  <1>4. PICK k \in Lefts : \A j \in Lefts : k <= j
    <2> HIDE DEF Lefts
    <2> QED
      BY <1>3, LeastNat
  <1>5. PICK path \in Wrong : k = Left(path)
    BY <1>4
  <1>6. PICK i \in 1 .. Len(fs.content[Last(path)].imports) :
          Append(path, fs.content[Last(path)].imports[i].to) \in Wrong
    BY <1>5
  <1>7. PICK q : q = Append(path, fs.content[Last(path)].imports[i].to)
    OBVIOUS
  <1>8. Len(q) = Len(path) + 1 /\ Len(path) \in Nat
    <2>1. Last(path) \in DOMAIN fs.content
      BY PathFacts
    <2>2. fs.content[Last(path)].imports[i].to \in DOMAIN fs.content
      BY <2>1, ImportFacts
    <2>3. Len(path) <= MaxImportDepth + 1
      BY <1>5
    <2> QED
      BY <1>7, <2>2, <2>3, PathFacts DEF MaxImportDepth
  <1>9. k <= Left(q)
    BY <1>4, <1>6, <1>7
  <1>10. MaxImportDepth \in Nat
    BY DEF MaxImportDepth
  <1> QED
    BY <1>5, <1>8, <1>9, <1>10

(* The layers of one file's imports.                                       *)
Layer(fs, f, children, below, i) ==
  IF i = 0 THEN Loaded(ZeroPolicy)
  ELSE Layered(below[i - 1], ImportError(fs, f, fs.content[f].imports[i]),
               children[i])

IsStack(stack, n, fs, f, children) ==
  stack = [i \in 0 .. n |-> Layer(fs, f, children, stack, i)]

(* The policies inherited import by import exist as a sequence.            *)
LEMMA StackExists ==
  ASSUME NEW n \in Nat, NEW fs, NEW f, NEW children
  PROVE  \E stack : IsStack(stack, n, fs, f, children)
  <1> DEFINE Unbuilt == {k \in Nat : ~\E g : IsStack(g, k, fs, f, children)}
  <1>1. SUFFICES ASSUME n \in Unbuilt PROVE FALSE
    OBVIOUS
  <1>2. PICK k \in Unbuilt : \A j \in Unbuilt : k <= j
    <2>1. Unbuilt \in SUBSET Nat /\ Unbuilt # {}
      BY <1>1
    <2> HIDE DEF Unbuilt
    <2> QED
      BY <2>1, LeastNat
  <1>3. CASE k = 0
    <2> DEFINE G == [i \in 0 .. 0 |-> Loaded(ZeroPolicy)]
    <2>1. IsStack(G, 0, fs, f, children)
      BY DEF IsStack, Layer
    <2> QED
      BY <1>2, <1>3, <2>1
  <1>4. CASE k # 0
    <2>1. k - 1 \in Nat /\ k - 1 \notin Unbuilt
      BY <1>2, <1>4
    <2>2. PICK g : IsStack(g, k - 1, fs, f, children)
      BY <2>1
    <2> DEFINE H == [i \in 0 .. k |-> IF i = k THEN Layer(fs, f, children, g, k)
                                      ELSE g[i]]
    <2>3. ASSUME NEW i \in 0 .. k
          PROVE  H[i] = Layer(fs, f, children, H, i)
      <3>1. i = 0 \/ H[i - 1] = g[i - 1]
        BY <1>2, <1>4
      <3>2. Layer(fs, f, children, H, i) = Layer(fs, f, children, g, i)
        BY <3>1 DEF Layer
      <3>3. CASE i = k
        BY <3>2, <3>3
      <3>4. CASE i # k
        BY <1>2, <1>4, <2>2, <3>2, <3>4 DEF IsStack
      <3> QED
        BY <3>3, <3>4
    <2>4. IsStack(H, k, fs, f, children)
      <3>1. H = [i \in 0 .. k |-> H[i]]
        OBVIOUS
      <3> HIDE DEF H
      <3> QED
        BY <2>3, <3>1 DEF IsStack
    <2> QED
      BY <1>2, <2>4
  <1> QED
    BY <1>3, <1>4

(* Inherited is the last of the policies inherited import by import.       *)
LEMMA InheritedStack ==
  ASSUME NEW fs, NEW f, NEW children,
         Len(fs.content[f].imports) \in Nat
  PROVE  \E stack :
           /\ IsStack(stack, Len(fs.content[f].imports), fs, f, children)
           /\ Inherited(fs, f, children) = stack[Len(fs.content[f].imports)]
  <1> DEFINE n == Len(fs.content[f].imports)
             stack == CHOOSE g : g = [i \in 0 .. n |->
                        IF i = 0 THEN Loaded(ZeroPolicy)
                        ELSE Layered(g[i - 1],
                               ImportError(fs, f, fs.content[f].imports[i]),
                               children[i])]
  <1>1. \E g : g = [i \in 0 .. n |->
                      IF i = 0 THEN Loaded(ZeroPolicy)
                      ELSE Layered(g[i - 1],
                             ImportError(fs, f, fs.content[f].imports[i]),
                             children[i])]
    <2>1. PICK g : IsStack(g, n, fs, f, children)
      BY StackExists
    <2> QED
      BY <2>1 DEF IsStack, Layer
  <1>2. IsStack(stack, n, fs, f, children)
    BY <1>1 DEF IsStack, Layer
  <1>3. Inherited(fs, f, children) = stack[n]
    BY DEF Inherited
  <1> QED
    BY <1>2, <1>3

-------------------------------------------------------------------------------
(* What loading returns.                                                   *)

(* r is an error, or a policy of names N that could be parsed.             *)
Sound(r, N) == r.err = "none" => Parsable(r.policy) /\ Names(r.policy) \subseteq N

(* One sound import on top of a sound policy is sound.                     *)
LEMMA LayeredSound ==
  ASSUME NEW done, NEW wrong, NEW child, NEW N, Sound(done, N), Sound(child, N)
  PROVE  Sound(Layered(done, wrong, child), N)
  <1>1. CASE done.err # "none" \/ wrong # "none" \/ child.err # "none"
    BY <1>1 DEF Layered, Failed, Sound
  <1>2. CASE done.err = "none" /\ wrong = "none" /\ child.err = "none"
    <2>1. PICK m : m = MergePolicy(done.policy, child.policy)
      OBVIOUS
    <2>2. Layered(done, wrong, child) = Loaded(m)
      BY <1>2, <2>1 DEF Layered
    <2>3. Parsable(m)
      BY <1>2, <2>1, MergeParsable DEF Sound
    <2>4. Names(m) \subseteq N
      <3>1. Names(m) \subseteq Names(done.policy) \union Names(child.policy)
        BY <1>2, <2>1, MergeNames DEF Sound, Parsable
      <3> QED
        BY <1>2, <3>1 DEF Sound
    <2> QED
      BY <2>2, <2>3, <2>4 DEF Sound, Loaded
  <1> QED
    BY <1>1, <1>2

(* What a file inherits from sound imports is sound.                       *)
LEMMA InheritedSound ==
  ASSUME NEW fs, NEW f, NEW children, NEW N,
         Len(fs.content[f].imports) \in Nat,
         \A i \in 1 .. Len(fs.content[f].imports) : Sound(children[i], N)
  PROVE  Sound(Inherited(fs, f, children), N)
  <1>1. PICK n \in Nat : n = Len(fs.content[f].imports)
    OBVIOUS
  <1>2. PICK stack : /\ IsStack(stack, n, fs, f, children)
                     /\ Inherited(fs, f, children) = stack[n]
    BY <1>1, InheritedStack
  <1> DEFINE Wrong == {i \in 0 .. n : ~Sound(stack[i], N)}
  <1>3. SUFFICES ASSUME Wrong # {} PROVE FALSE
    BY <1>2
  <1>4. PICK i \in Wrong : \A j \in Wrong : i <= j
    <2>1. Wrong \in SUBSET Nat
      OBVIOUS
    <2> HIDE DEF Wrong
    <2> QED
      BY <1>3, <2>1, LeastNat
  <1>5. stack[i] = Layer(fs, f, children, stack, i)
    BY <1>2, <1>4 DEF IsStack
  <1>6. CASE i = 0
    <2>1. stack[i] = Loaded(ZeroPolicy)
      BY <1>5, <1>6 DEF Layer
    <2>2. Names(ZeroPolicy) = {}
      BY DEF Names, ZeroPolicy
    <2> QED
      BY <1>4, <2>1, <2>2, ZeroParsable DEF Sound, Loaded
  <1>7. CASE i # 0
    <2>1. i \in 1 .. n /\ i - 1 \in 0 .. n /\ i - 1 \notin Wrong
      BY <1>4, <1>7
    <2>2. Sound(stack[i - 1], N) /\ Sound(children[i], N)
      BY <1>1, <2>1
    <2>3. Sound(stack[i], N)
      BY <1>5, <1>7, <2>2, LayeredSound DEF Layer
    <2> QED
      BY <1>4, <2>3
  <1> QED
    BY <1>6, <1>7

(* What a file gives is sound if what its imports give is, and is parsed.  *)
LEMMA ResolvedSound ==
  ASSUME NEW fs, IsTree(fs), NEW path \in Paths(fs), NEW children, NEW N,
         \A f \in DOMAIN fs.content : Names(fs.content[f].policy) \subseteq N,
         Len(path) <= MaxImportDepth + 1 =>
           \A i \in 1 .. Len(fs.content[Last(path)].imports) :
             Sound(children[i], N)
  PROVE  LET r == Resolved(fs, path, children)
         IN  r.err = "none" => Parsed(r.policy) /\ Names(r.policy) \subseteq N
  <1> DEFINE f == Last(path)
  <1>1. PICK own : own = ParsePolicy(fs.content[f].policy)
    OBVIOUS
  <1>2. PICK above : above = Inherited(fs, f, children)
    OBVIOUS
  <1>3. PICK r : r = Resolved(fs, path, children)
    OBVIOUS
  <1>4. f \in DOMAIN fs.content /\ IsPolicy(fs.content[f].policy)
        /\ Len(fs.content[f].imports) \in Nat
    BY PathFacts DEF IsTree
  <1>5. SUFFICES ASSUME r.err = "none"
                 PROVE  Parsed(r.policy) /\ Names(r.policy) \subseteq N
    BY <1>3
  <1>6. /\ OpenError(fs, path) = "none" /\ own.err = "none"
        /\ \/ r = own
           \/ /\ above.err = "none"
              /\ r = Loaded(ApplyDefaults(MergePolicy(above.policy, own.policy)))
    BY <1>1, <1>2, <1>3, <1>5 DEF Resolved, Failed
  <1>7. ~(Len(path) > MaxImportDepth + 1)
    BY <1>6 DEF OpenError
  <1>8. Sound(above, N)
    <2>1. Len(path) <= MaxImportDepth + 1
      BY <1>7, PathFacts DEF MaxImportDepth
    <2> QED
      BY <1>2, <1>4, <2>1, InheritedSound
  <1>9. Parsed(own.policy) /\ Names(own.policy) \subseteq N
    <2>1. own = Loaded(ApplyDefaults(fs.content[f].policy)) /\ Parsed(own.policy)
      BY <1>1, <1>4, <1>6, ParseGives
    <2>2. PICK d : d = ApplyDefaults(fs.content[f].policy)
      OBVIOUS
    <2>3. Names(d) = Names(fs.content[f].policy)
      BY <1>4, <2>2, DefaultNames
    <2>4. Names(d) \subseteq N
      BY <1>4, <2>3
    <2> QED
      BY <2>1, <2>2, <2>4 DEF Loaded
  <1>10. CASE r = own
    BY <1>9, <1>10
  <1>11. CASE r # own
    <2>1. PICK m : m = MergePolicy(above.policy, own.policy)
      OBVIOUS
    <2>2. above.err = "none" /\ r = Loaded(ApplyDefaults(m))
      BY <1>6, <1>11, <2>1
    <2>3. Parsable(above.policy) /\ Names(above.policy) \subseteq N
      BY <1>8, <2>2 DEF Sound
    <2>4. Parsable(own.policy)
      BY <1>9, ParsedParsable
    <2>5. Parsable(m) /\ Names(m) \subseteq N
      <3>1. Names(m) \subseteq Names(above.policy) \union Names(own.policy)
        BY <2>1, <2>3, <2>4, MergeNames DEF Parsable
      <3> QED
        BY <1>9, <2>1, <2>3, <2>4, <3>1, MergeParsable
    <2>6. PICK d : d = ApplyDefaults(m)
      OBVIOUS
    <2>7. Parsed(d) /\ Names(d) \subseteq N
      <3>1. d.tools = m.tools /\ d.groups = m.groups
        BY <2>5, <2>6, DefaultFields DEF Parsable
      <3> QED
        BY <2>5, <2>6, <3>1, DefaultsParse DEF Names
    <2> QED
      BY <2>2, <2>6, <2>7 DEF Loaded
  <1> QED
    BY <1>10, <1>11

(* The root alone is a path.                                               *)
LEMMA RootPath ==
  ASSUME NEW fs, IsTree(fs)
  PROVE  <<fs.root>> \in Paths(fs)
  <1>1. <<fs.root>> \in [1 .. 1 -> DOMAIN fs.content]
    BY DEF IsTree
  <1> QED
    BY <1>1 DEF Paths, MaxImportDepth

(* Every node of the walk that loads is a parsed policy of the tree's      *)
(* names.                                                                  *)
LEMMA LoadedNodes ==
  ASSUME NEW fs, IsTree(fs), NEW N,
         \A f \in DOMAIN fs.content : Names(fs.content[f].policy) \subseteq N,
         NEW load, IsWalk(load, "load", fs),
         NEW path \in Paths(fs), load[path].err = "none"
  PROVE  Parsed(load[path].policy) /\ Names(load[path].policy) \subseteq N
  <1> DEFINE Good(r) == r.err = "none" =>
                          Parsed(r.policy) /\ Names(r.policy) \subseteq N
             Wrong == {q \in Paths(fs) : ~Good(load[q])}
  <1>1. ASSUME NEW q \in Wrong
        PROVE  /\ Len(q) <= MaxImportDepth + 1
               /\ \E i \in 1 .. Len(fs.content[Last(q)].imports) :
                    Append(q, fs.content[Last(q)].imports[i].to) \in Wrong
    <2>1. PICK imports : imports = fs.content[Last(q)].imports
      OBVIOUS
    <2>2. PICK children : children = Children(fs, q, load)
      OBVIOUS
    <2>3. load[q] = Resolved(fs, q, children)
      BY <1>1, <2>2 DEF IsWalk, Node
    <2>4. SUFFICES ASSUME Len(q) <= MaxImportDepth + 1 =>
                            \A i \in 1 .. Len(imports) :
                              Append(q, imports[i].to) \notin Wrong
                   PROVE  FALSE
      BY <2>1
    <2>5. ASSUME Len(q) <= MaxImportDepth + 1, NEW i \in 1 .. Len(imports)
          PROVE  Sound(children[i], N)
      <3>1. Append(q, imports[i].to) \in Paths(fs)
        BY <2>1, <2>5, PathFacts, ImportFacts
      <3>2. Good(load[Append(q, imports[i].to)])
        BY <2>4, <2>5, <3>1
      <3>3. children[i] = load[Append(q, imports[i].to)]
        BY <2>1, <2>2, <2>5 DEF Children
      <3> QED
        BY <3>2, <3>3, ParsedParsable DEF Sound
    <2> HIDE DEF Good
    <2>6. Good(load[q])
      BY <2>1, <2>3, <2>5, ResolvedSound DEF Good
    <2> QED
      BY <2>6
  <1>2. Wrong \in SUBSET Paths(fs)
    OBVIOUS
  <1>3. Wrong = {}
    <2> HIDE DEF Wrong
    <2> QED
      BY <1>1, <1>2, WalkInduction
  <1> QED
    BY <1>3

(* A policy that LoadFile returns is the result of a parse, whatever files *)
(* it was merged from: parsing it again, as the snapshot of it that every  *)
(* decision is bound to does, changes nothing and refuses nothing.  And    *)
(* the names it uses are names that some file uses.                        *)
THEOREM LoadedParsed ==
  ASSUME NEW fs, IsTree(fs), NEW N,
         \A f \in DOMAIN fs.content : Names(fs.content[f].policy) \subseteq N,
         LoadFile(fs).err = "none"
  PROVE  Parsed(LoadFile(fs).policy) /\ Names(LoadFile(fs).policy) \subseteq N
  <1>1. PICK load : IsWalk(load, "load", fs) /\ LoadFile(fs) = load[<<fs.root>>]
    BY LoadWalk
  <1> QED
    BY <1>1, RootPath, LoadedNodes

-------------------------------------------------------------------------------
(* Sequences put one after the other.                                      *)

(* A function on 1 .. n is a sequence of length n.                         *)
LEMMA FcnLen ==
  ASSUME NEW n \in Nat, NEW S, NEW s \in [1 .. n -> S]
  PROVE  s \in Seq(S) /\ Len(s) = n
  <1>1. s \in Seq(S)
    OBVIOUS
  <1>2. PICK m \in Nat : m = Len(s)
    BY <1>1, LenProperties
  <1>3. 1 .. m = 1 .. n
    BY <1>1, <1>2, LenProperties
  <1>4. m = n
    BY <1>3
  <1> QED
    BY <1>1, <1>2, <1>4

(* A sequence of one element.                                              *)
LEMMA SingleElement ==
  ASSUME NEW S, NEW x \in S
  PROVE  <<x>> \in Seq(S) /\ ToSet(<<x>>) = {x}
  <1>1. PICK s : s = <<x>>
    OBVIOUS
  <1>2. s \in Seq(S) /\ Len(s) = 1 /\ s[1] = x
    BY <1>1
  <1>3. DOMAIN s = 1 .. 1
    BY <1>2, LenProperties
  <1>4. 1 .. 1 = {1}
    OBVIOUS
  <1>5. ToSet(s) = {x}
    BY <1>2, <1>3, <1>4 DEF ToSet
  <1> QED
    BY <1>1, <1>2, <1>5

(* flat[i] is the first i of seqs, one after the other.                    *)
Flattens(flat, seqs) ==
  /\ flat[0] = <<>>
  /\ \A i \in 1 .. Len(seqs) : flat[i] = flat[i - 1] \o seqs[i]

(* The elements of a concatenation are those of its parts.                 *)
LEMMA ToSetConcat ==
  ASSUME NEW S, NEW s \in Seq(S), NEW t \in Seq(S)
  PROVE  s \o t \in Seq(S) /\ ToSet(s \o t) = ToSet(s) \union ToSet(t)
  <1>1. PICK m \in Nat, n \in Nat : m = Len(s) /\ n = Len(t)
    BY LenProperties
  <1>2. PICK u : u = s \o t
    OBVIOUS
  <1>3. /\ u \in Seq(S) /\ Len(u) = m + n
        /\ \A i \in 1 .. m : u[i] = s[i]
        /\ \A i \in 1 .. n : u[m + i] = t[i]
    BY <1>1, <1>2
  <1>4. DOMAIN s = 1 .. m /\ DOMAIN t = 1 .. n /\ DOMAIN u = 1 .. m + n
    BY <1>1, <1>3, LenProperties
  <1>5. ASSUME NEW i \in 1 .. m + n PROVE u[i] \in ToSet(s) \union ToSet(t)
    <2>1. CASE i <= m
      <3>1. i \in 1 .. m
        BY <2>1
      <3> QED
        BY <1>3, <1>4, <3>1 DEF ToSet
    <2>2. CASE ~(i <= m)
      <3>1. i - m \in 1 .. n /\ m + (i - m) = i
        BY <2>2
      <3>2. u[i] = t[i - m]
        BY <1>3, <3>1
      <3> QED
        BY <1>4, <3>1, <3>2 DEF ToSet
    <2> QED
      BY <2>1, <2>2
  <1>6. ASSUME NEW i \in 1 .. m PROVE s[i] \in ToSet(u)
    <2>1. i \in 1 .. m + n
      OBVIOUS
    <2> QED
      BY <1>3, <1>4, <2>1 DEF ToSet
  <1>7. ASSUME NEW i \in 1 .. n PROVE t[i] \in ToSet(u)
    <2>1. m + i \in 1 .. m + n
      OBVIOUS
    <2> QED
      BY <1>3, <1>4, <2>1 DEF ToSet
  <1>8. \A x \in ToSet(u) : x \in ToSet(s) \union ToSet(t)
    BY <1>4, <1>5 DEF ToSet
  <1>9. \A x \in ToSet(s) \union ToSet(t) : x \in ToSet(u)
    BY <1>4, <1>6, <1>7 DEF ToSet
  <1> QED
    BY <1>2, <1>3, <1>8, <1>9

(* The recursive function inside FlattenSeq exists.                        *)
LEMMA FlattenExists ==
  ASSUME NEW n \in Nat, NEW seqs
  PROVE  \E g : g = [i \in 1 .. n |-> IF i = 1 THEN seqs[i]
                                      ELSE g[i - 1] \o seqs[i]]
  <1> DEFINE Step(g, i) == IF i = 1 THEN seqs[i] ELSE g[i - 1] \o seqs[i]
             Unbuilt == {k \in Nat : ~\E g : g = [i \in 1 .. k |-> Step(g, i)]}
  <1>1. SUFFICES ASSUME n \in Unbuilt PROVE FALSE
    OBVIOUS
  <1>2. PICK k \in Unbuilt : \A j \in Unbuilt : k <= j
    <2>1. Unbuilt \in SUBSET Nat /\ Unbuilt # {}
      BY <1>1
    <2> HIDE DEF Unbuilt
    <2> QED
      BY <2>1, LeastNat
  <1>3. CASE k = 0
    <2> DEFINE G == [i \in 1 .. 0 |-> <<>>]
    <2>1. G = [i \in 1 .. 0 |-> Step(G, i)]
      OBVIOUS
    <2> QED
      BY <1>2, <1>3, <2>1
  <1>4. CASE k # 0
    <2>0. k \in Nat
      BY <1>2
    <2>1. k - 1 \in Nat /\ k - 1 \notin Unbuilt
      <3>1. ~(k <= k - 1) /\ k - 1 \in Nat
        BY <1>4, <2>0
      <3> HIDE DEF Unbuilt
      <3> QED
        BY <1>2, <3>1
    <2>2. PICK g : g = [i \in 1 .. k - 1 |-> Step(g, i)]
      BY <2>1
    <2> DEFINE H == [i \in 1 .. k |-> IF i = k THEN Step(g, k) ELSE g[i]]
    <2>3. ASSUME NEW i \in 1 .. k PROVE H[i] = Step(H, i)
      <3>0. k \in Nat /\ i \in 1 .. k
        BY <1>2
      <3>1. i = 1 \/ H[i - 1] = g[i - 1]
        <4>1. i # 1 => i - 1 \in 1 .. k /\ i - 1 # k
          BY <3>0
        <4> QED
          BY <4>1
      <3>2. Step(H, i) = Step(g, i)
        <4> HIDE DEF H
        <4> QED
          BY <3>1
      <3>3. CASE i = k
        BY <3>2, <3>3
      <3>4. CASE i # k
        <4>1. i \in 1 .. k - 1
          BY <1>2, <3>4
        <4>2. H[i] = g[i]
          BY <3>4
        <4> HIDE DEF H, Step
        <4>3. g[i] = Step(g, i)
          BY <2>2, <4>1
        <4> QED
          BY <3>2, <4>2, <4>3
      <3> QED
        BY <3>3, <3>4
    <2>4. H = [i \in 1 .. k |-> Step(H, i)]
      <3>1. H = [i \in 1 .. k |-> H[i]]
        OBVIOUS
      <3> HIDE DEF H, Step
      <3> QED
        BY <2>3, <3>1
    <2> QED
      BY <1>2, <2>4
  <1> QED
    BY <1>3, <1>4

(* FlattenSeq concatenates part by part.                                   *)
LEMMA FlattenFacts ==
  ASSUME NEW S, NEW seqs \in Seq(Seq(S))
  PROVE  \E flat : Flattens(flat, seqs) /\ FlattenSeq(seqs) = flat[Len(seqs)]
  <1>1. PICK n \in Nat : n = Len(seqs)
    BY LenProperties
  <1>2. CASE n = 0
    <2>1. seqs = <<>> /\ FlattenSeq(seqs) = seqs
      BY <1>1, <1>2, EmptySeq DEF FlattenSeq
    <2> DEFINE F == [i \in {0} |-> <<>>]
    <2>2. Flattens(F, seqs) /\ F[Len(seqs)] = <<>>
      BY <1>1, <1>2 DEF Flattens
    <2> QED
      BY <2>1, <2>2
  <1>3. CASE n # 0
    <2> DEFINE g == CHOOSE h : h = [i \in 1 .. n |->
                      IF i = 1 THEN seqs[i] ELSE h[i - 1] \o seqs[i]]
               F == [i \in 0 .. n |-> IF i = 0 THEN <<>> ELSE g[i]]
    <2>1. g = [i \in 1 .. n |-> IF i = 1 THEN seqs[i] ELSE g[i - 1] \o seqs[i]]
      BY FlattenExists
    <2>2. FlattenSeq(seqs) = g[n]
      BY <1>1, <1>3 DEF FlattenSeq
    <2> HIDE DEF g
    <2>3. ASSUME NEW i \in 1 .. n PROVE F[i] = F[i - 1] \o seqs[i]
      <3>1. g[i] = IF i = 1 THEN seqs[i] ELSE g[i - 1] \o seqs[i]
        BY <2>1
      <3>2. CASE i = 1
        <4>1. seqs[1] \in Seq(S)
          BY <1>1, <2>3, <3>2, ElementOfSeq
        <4>2. <<>> \o seqs[1] = seqs[1]
          BY <4>1
        <4>3. F[1] = seqs[1] /\ F[1 - 1] = <<>>
          BY <1>3, <3>1, <3>2
        <4> HIDE DEF F
        <4> QED
          BY <3>2, <4>2, <4>3
      <3>3. CASE i # 1
        <4>1. F[i] = g[i] /\ F[i - 1] = g[i - 1]
          BY <3>3
        <4> HIDE DEF F
        <4> QED
          BY <3>1, <3>3, <4>1
      <3> QED
        BY <3>2, <3>3
    <2>4. F[0] = <<>> /\ F[n] = g[n]
      BY <1>3
    <2> HIDE DEF F
    <2> QED
      BY <1>1, <2>2, <2>3, <2>4 DEF Flattens
  <1> QED
    BY <1>2, <1>3

(* The elements of what is put one after the other.                        *)
LEMMA FlattenElements ==
  ASSUME NEW S, NEW seqs \in Seq(Seq(S))
  PROVE  /\ FlattenSeq(seqs) \in Seq(S)
         /\ ToSet(FlattenSeq(seqs))
              = UNION {ToSet(seqs[i]) : i \in 1 .. Len(seqs)}
  <1>1. PICK n \in Nat : n = Len(seqs)
    BY LenProperties
  <1>2. PICK flat : Flattens(flat, seqs) /\ FlattenSeq(seqs) = flat[n]
    BY <1>1, FlattenFacts
  <1> DEFINE Upto(k) == UNION {ToSet(seqs[i]) : i \in 1 .. k}
             Good(k) == flat[k] \in Seq(S) /\ ToSet(flat[k]) = Upto(k)
             Wrong == {k \in 0 .. n : ~Good(k)}
  <1> HIDE DEF Good
  <1>3. ASSUME Wrong # {} PROVE FALSE
    <2>1. PICK k \in Wrong : \A j \in Wrong : k <= j
      <3>1. Wrong \in SUBSET Nat
        OBVIOUS
      <3> HIDE DEF Wrong
      <3> QED
        BY <1>3, <3>1, LeastNat
    <2>2. CASE k = 0
      <3>1. flat[0] = <<>> /\ ToSet(<<>>) = {} /\ Upto(0) = {}
        BY <1>2 DEF Flattens, ToSet
      <3>2. Good(0)
        BY <3>1 DEF Good
      <3> QED
        BY <2>1, <2>2, <3>2
    <2>3. CASE k # 0
      <3>1. k - 1 \in 0 .. n /\ k \in 1 .. n /\ k - 1 \notin Wrong
        BY <2>1, <2>3
      <3>2. PICK a : a = flat[k - 1] /\ a \in Seq(S) /\ ToSet(a) = Upto(k - 1)
        <4>1. Good(k - 1)
          BY <3>1
        <4> QED
          BY <4>1 DEF Good
      <3>3. PICK b : b = seqs[k] /\ b \in Seq(S)
        BY <1>1, <3>1, ElementOfSeq
      <3>4. flat[k] = a \o b
        BY <1>1, <1>2, <3>1, <3>2, <3>3 DEF Flattens
      <3>5. a \o b \in Seq(S) /\ ToSet(a \o b) = ToSet(a) \union ToSet(b)
        BY <3>2, <3>3, ToSetConcat
      <3>6. Upto(k) = Upto(k - 1) \union ToSet(b)
        <4>1. 1 .. k = (1 .. k - 1) \union {k}
          BY <3>1
        <4> QED
          BY <3>3, <4>1
      <3>7. Good(k)
        BY <3>2, <3>4, <3>5, <3>6 DEF Good
      <3> QED
        BY <2>1, <3>7
    <2> QED
      BY <2>2, <2>3
  <1>4. Good(n)
    <2>1. n \in 0 .. n
      OBVIOUS
    <2> QED
      BY <1>3, <2>1
  <1> QED
    BY <1>1, <1>2, <1>4 DEF Good

-------------------------------------------------------------------------------
(* What validate says of what check loads.                                 *)

(* The imports are layered without an error exactly when none has one.     *)
LEMMA InheritedErr ==
  ASSUME NEW fs, NEW f, NEW children,
         Len(fs.content[f].imports) \in Nat
  PROVE  Inherited(fs, f, children).err = "none"
           <=> \A i \in 1 .. Len(fs.content[f].imports) :
                 /\ ImportError(fs, f, fs.content[f].imports[i]) = "none"
                 /\ children[i].err = "none"
  <1>1. PICK n \in Nat : n = Len(fs.content[f].imports)
    OBVIOUS
  <1>2. PICK stack : /\ IsStack(stack, n, fs, f, children)
                     /\ Inherited(fs, f, children) = stack[n]
    BY <1>1, InheritedStack
  <1> DEFINE Fine(i) == /\ ImportError(fs, f, fs.content[f].imports[i]) = "none"
                        /\ children[i].err = "none"
             Good(k) == stack[k].err = "none" <=> \A i \in 1 .. k : Fine(i)
             Wrong == {k \in 0 .. n : ~Good(k)}
  <1>3. ASSUME NEW k \in 1 .. n
        PROVE  stack[k].err = "none"
                 <=> stack[k - 1].err = "none" /\ Fine(k)
    <2>1. stack[k] = Layered(stack[k - 1],
                       ImportError(fs, f, fs.content[f].imports[k]), children[k])
      BY <1>2, <1>3 DEF IsStack, Layer
    <2> QED
      BY <2>1 DEF Layered, Failed, Loaded
  <1>4. stack[0].err = "none"
    <2>1. stack[0] = Loaded(ZeroPolicy)
      BY <1>2 DEF IsStack, Layer
    <2> QED
      BY <2>1 DEF Loaded
  <1> HIDE DEF Fine
  <1>5. ASSUME Wrong # {} PROVE FALSE
    <2>1. PICK k \in Wrong : \A j \in Wrong : k <= j
      <3>1. Wrong \in SUBSET Nat
        OBVIOUS
      <3> HIDE DEF Wrong
      <3> QED
        BY <1>5, <3>1, LeastNat
    <2>2. CASE k = 0
      BY <1>4, <2>1, <2>2
    <2>3. CASE k # 0
      <3>1. k - 1 \in 0 .. n /\ k \in 1 .. n /\ k - 1 \notin Wrong
        BY <2>1, <2>3
      <3>2. Good(k - 1)
        BY <3>1
      <3>3. 1 .. k = (1 .. k - 1) \union {k}
        BY <3>1
      <3>4. Good(k)
        BY <1>3, <3>1, <3>2, <3>3
      <3> QED
        BY <2>1, <3>4
    <2> QED
      BY <2>2, <2>3
  <1>6. Good(n)
    <2>1. n \in 0 .. n
      OBVIOUS
    <2> QED
      BY <1>5, <2>1
  <1> QED
    BY <1>1, <1>2, <1>6 DEF Fine

(* The walk for the order of the files only meets files of the tree.       *)
LEMMA OrderFiles ==
  ASSUME NEW fs, IsTree(fs), NEW order, IsWalk(order, "order", fs),
         NEW path \in Paths(fs)
  PROVE  order[path] \in Seq(DOMAIN fs.content)
  <1> DEFINE Wrong == {q \in Paths(fs) : order[q] \notin Seq(DOMAIN fs.content)}
  <1>1. ASSUME NEW q \in Wrong
        PROVE  /\ Len(q) <= MaxImportDepth + 1
               /\ \E i \in 1 .. Len(fs.content[Last(q)].imports) :
                    Append(q, fs.content[Last(q)].imports[i].to) \in Wrong
    <2>1. PICK children : children = Children(fs, q, order)
      OBVIOUS
    <2>2. order[q] = Ordered(fs, q, children)
      BY <1>1, <2>1 DEF IsWalk, Node
    <2>3. OpenError(fs, q) = "none" /\ order[q] = FlattenSeq(children) \o <<Last(q)>>
      <3>1. <<>> \in Seq(DOMAIN fs.content)
        OBVIOUS
      <3>2. order[q] # <<>>
        BY <1>1, <3>1
      <3> QED
        BY <2>2, <3>2 DEF Ordered
    <2>4. Len(q) <= MaxImportDepth + 1
      <3>1. ~(Len(q) > MaxImportDepth + 1)
        BY <2>3 DEF OpenError
      <3> QED
        BY <3>1, PathFacts DEF MaxImportDepth
    <2>5. PICK imports : imports = fs.content[Last(q)].imports
      OBVIOUS
    <2>6. /\ Last(q) \in DOMAIN fs.content /\ Len(imports) \in Nat
          /\ \A i \in 1 .. Len(imports) : imports[i].to \in DOMAIN fs.content
      BY <2>5, PathFacts, ImportFacts
    <2>7. children = [i \in 1 .. Len(imports) |-> order[Append(q, imports[i].to)]]
      BY <2>1, <2>5 DEF Children
    <2>8. SUFFICES ASSUME \A i \in 1 .. Len(imports) :
                            Append(q, imports[i].to) \notin Wrong
                   PROVE  FALSE
      BY <2>4, <2>5
    <2>9. \A i \in 1 .. Len(imports) :
            order[Append(q, imports[i].to)] \in Seq(DOMAIN fs.content)
      <3>1. \A i \in 1 .. Len(imports) : Append(q, imports[i].to) \in Paths(fs)
        BY <2>4, <2>6, PathFacts
      <3> QED
        BY <2>8, <3>1
    <2>10. children \in Seq(Seq(DOMAIN fs.content))
      <3>1. PICK n \in Nat : n = Len(imports)
        BY <2>6
      <3>2. children \in [1 .. n -> Seq(DOMAIN fs.content)]
        BY <2>7, <2>9, <3>1
      <3> QED
        BY <3>2
    <2>11. FlattenSeq(children) \in Seq(DOMAIN fs.content)
      BY <2>10, FlattenElements
    <2>12. <<Last(q)>> \in Seq(DOMAIN fs.content)
      BY <2>6, SingleElement
    <2>13. order[q] \in Seq(DOMAIN fs.content)
      BY <2>3, <2>11, <2>12
    <2> QED
      BY <1>1, <2>13
  <1>2. Wrong \in SUBSET Paths(fs)
    OBVIOUS
  <1>3. Wrong = {}
    <2> HIDE DEF Wrong
    <2> QED
      BY <1>1, <1>2, WalkInduction
  <1> QED
    BY <1>3

(* The files that the file at the end of path is made of, if it can be     *)
(* opened: those of its imports, and itself.                               *)
LEMMA OrderElements ==
  ASSUME NEW fs, IsTree(fs), NEW order, IsWalk(order, "order", fs),
         NEW path \in Paths(fs), OpenError(fs, path) = "none",
         Len(path) <= MaxImportDepth + 1
  PROVE  LET imports == fs.content[Last(path)].imports
         IN  \A x : x \in ToSet(order[path])
                      <=> \/ x = Last(path)
                          \/ \E i \in 1 .. Len(imports) :
                               x \in ToSet(order[Append(path, imports[i].to)])
  <1>1. PICK imports : imports = fs.content[Last(path)].imports
    OBVIOUS
  <1>2. PICK children : children = Children(fs, path, order)
    OBVIOUS
  <1>3. order[path] = FlattenSeq(children) \o <<Last(path)>>
    BY <1>2 DEF IsWalk, Node, Ordered
  <1>4. PICK n \in Nat : n = Len(imports)
    BY <1>1, PathFacts, ImportFacts
  <1>5. children = [i \in 1 .. n |-> order[Append(path, imports[i].to)]]
    BY <1>1, <1>2, <1>4 DEF Children
  <1>6. \A i \in 1 .. n :
          order[Append(path, imports[i].to)] \in Seq(DOMAIN fs.content)
    <2>1. \A i \in 1 .. n : Append(path, imports[i].to) \in Paths(fs)
      BY <1>1, <1>4, PathFacts, ImportFacts
    <2> QED
      BY <2>1, OrderFiles
  <1>7. children \in Seq(Seq(DOMAIN fs.content)) /\ Len(children) = n
    <2>1. children \in [1 .. n -> Seq(DOMAIN fs.content)]
      BY <1>5, <1>6
    <2> QED
      BY <2>1, FcnLen
  <1>8. /\ FlattenSeq(children) \in Seq(DOMAIN fs.content)
        /\ ToSet(FlattenSeq(children))
             = UNION {ToSet(children[i]) : i \in 1 .. n}
    BY <1>7, FlattenElements
  <1>9. <<Last(path)>> \in Seq(DOMAIN fs.content) /\ ToSet(<<Last(path)>>) = {Last(path)}
    BY PathFacts, SingleElement
  <1>10. ToSet(order[path]) = ToSet(FlattenSeq(children)) \union {Last(path)}
    BY <1>3, <1>8, <1>9, ToSetConcat
  <1>11. \A x : x \in ToSet(FlattenSeq(children))
                 <=> \E i \in 1 .. n : x \in ToSet(children[i])
    BY <1>8
  <1>12. \A i \in 1 .. n : children[i] = order[Append(path, imports[i].to)]
    BY <1>5
  <1>13. \A x : x \in ToSet(order[path])
                 <=> \/ x = Last(path)
                     \/ \E i \in 1 .. n :
                          x \in ToSet(order[Append(path, imports[i].to)])
    BY <1>9, <1>10, <1>11, <1>12
  <1> QED
    BY <1>1, <1>4, <1>13

(* The walk of `validate' and the walk of LoadFile refuse the same trees,  *)
(* but for what ValidateStrict alone asks of a file.                       *)
THEOREM WalksAgree ==
  ASSUME NEW fs, IsTree(fs), NEW order, IsWalk(order, "order", fs)
  PROVE  ValidateFileStrict(fs) = {}
           <=> /\ LoadFile(fs).err = "none"
               /\ \A f \in ToSet(order[<<fs.root>>]) :
                    StrictErrors(fs.content[f].policy) = {}
  <1>1. PICK load : IsWalk(load, "load", fs) /\ LoadFile(fs) = load[<<fs.root>>]
    BY LoadWalk
  <1>2. PICK strict : /\ IsWalk(strict, "strict", fs)
                      /\ ValidateFileStrict(fs) = strict[<<fs.root>>]
    BY StrictWalk
  <1> DEFINE Clean(q) == \A f \in ToSet(order[q]) :
                           StrictErrors(fs.content[f].policy) = {}
             Agree(q) == strict[q] = {} <=> load[q].err = "none" /\ Clean(q)
             Wrong == {q \in Paths(fs) : ~Agree(q)}
  <1>3. ASSUME NEW q \in Wrong
        PROVE  /\ Len(q) <= MaxImportDepth + 1
               /\ \E i \in 1 .. Len(fs.content[Last(q)].imports) :
                    Append(q, fs.content[Last(q)].imports[i].to) \in Wrong
    <2>0. q \in Paths(fs) /\ ~Agree(q)
      OBVIOUS
    <2>1. PICK f : f = Last(q)
      OBVIOUS
    <2>2. PICK imports : imports = fs.content[f].imports
      OBVIOUS
    <2>3. /\ f \in DOMAIN fs.content /\ Len(imports) \in Nat
          /\ \A i \in 1 .. Len(imports) : imports[i].to \in DOMAIN fs.content
      BY <2>0, <2>1, <2>2, PathFacts, ImportFacts
    <2>4. PICK sub : sub = Children(fs, q, load)
      OBVIOUS
    <2>5. PICK errs : errs = Children(fs, q, strict)
      OBVIOUS
    <2>6. load[q] = Resolved(fs, q, sub) /\ strict[q] = Errors(fs, q, errs)
      BY <1>1, <1>2, <2>0, <2>4, <2>5 DEF IsWalk, Node
    <2>7. ASSUME OpenError(fs, q) # "none" PROVE FALSE
      <3>1. strict[q] # {} /\ load[q].err # "none"
        BY <2>6, <2>7 DEF Errors, Resolved, Failed
      <3> QED
        BY <2>0, <3>1
    <2>8. Len(q) <= MaxImportDepth + 1
      <3>1. ~(Len(q) > MaxImportDepth + 1)
        BY <2>7 DEF OpenError
      <3> QED
        BY <2>0, <3>1, PathFacts DEF MaxImportDepth
    <2>9. \A x : x \in ToSet(order[q])
                  <=> \/ x = f
                      \/ \E i \in 1 .. Len(imports) :
                           x \in ToSet(order[Append(q, imports[i].to)])
      <3>1. \A x : x \in ToSet(order[q])
                    <=> \/ x = Last(q)
                        \/ \E i \in 1 .. Len(fs.content[Last(q)].imports) :
                             x \in ToSet(order[Append(q,
                                      fs.content[Last(q)].imports[i].to)])
        BY <2>0, <2>7, <2>8, OrderElements
      <3> QED
        BY <2>1, <2>2, <3>1
    <2>10. ASSUME StrictErrors(fs.content[f].policy) # {} PROVE FALSE
      <3>1. strict[q] # {}
        BY <2>1, <2>6, <2>7, <2>10 DEF Errors
      <3>2. ~Clean(q)
        <4>1. f \in ToSet(order[q])
          BY <2>9
        <4> QED
          BY <2>10, <4>1
      <3> QED
        BY <2>0, <3>1, <3>2
    <2>11. PICK own : own = ParsePolicy(fs.content[f].policy)
      OBVIOUS
    <2>12. ASSUME own.err # "none" PROVE FALSE
      <3>1. strict[q] # {}
        BY <2>1, <2>6, <2>7, <2>10, <2>11, <2>12 DEF Errors
      <3>2. load[q].err # "none"
        BY <2>1, <2>6, <2>7, <2>11, <2>12 DEF Resolved
      <3> QED
        BY <2>0, <3>1, <3>2
    <2> DEFINE Fine(i) == ImportError(fs, f, imports[i]) = "none"
               Below(i) == Append(q, imports[i].to)
    <2>13. strict[q] = {}
             <=> \A i \in 1 .. Len(imports) : Fine(i) /\ errs[i] = {}
      <3>1. strict[q]
              = UNION {IF ~Fine(i) THEN {ImportError(fs, f, imports[i])}
                       ELSE errs[i] : i \in 1 .. Len(imports)}
        <4> DEFINE file == fs.content[Last(q)]
                   Fault(i) == ImportError(fs, Last(q), file.imports[i])
        <4>1. /\ OpenError(fs, q) = "none"
              /\ StrictErrors(file.policy) = {}
              /\ ParsePolicy(file.policy).err = "none"
          BY <2>1, <2>7, <2>10, <2>11, <2>12
        <4>2. Errors(fs, q, errs)
                = UNION {IF Fault(i) # "none" THEN {Fault(i)} ELSE errs[i] :
                         i \in 1 .. Len(file.imports)}
          BY <4>1, Zenon DEF Errors
        <4>3. /\ Len(file.imports) = Len(imports)
              /\ \A i \in 1 .. Len(imports) :
                   Fault(i) = ImportError(fs, f, imports[i])
          BY <2>1, <2>2
        <4> HIDE DEF file, Fault
        <4>4. strict[q] = UNION {IF Fault(i) # "none" THEN {Fault(i)}
                                 ELSE errs[i] : i \in 1 .. Len(imports)}
          BY <2>6, <4>2, <4>3, Zenon
        <4> QED
          BY <4>3, <4>4
      <3>2. \A x : x \in strict[q]
                    <=> \E i \in 1 .. Len(imports) :
                          x \in IF ~Fine(i) THEN {ImportError(fs, f, imports[i])}
                                ELSE errs[i]
        BY <3>1
      <3> HIDE DEF Fine
      <3>3. ASSUME strict[q] = {}, NEW i \in 1 .. Len(imports)
            PROVE  Fine(i) /\ errs[i] = {}
        BY <3>2, <3>3
      <3>4. ASSUME \A i \in 1 .. Len(imports) : Fine(i) /\ errs[i] = {}
            PROVE  strict[q] = {}
        BY <3>2, <3>4
      <3> QED
        BY <3>3, <3>4
    <2>14. load[q].err = "none"
             <=> \A i \in 1 .. Len(imports) : Fine(i) /\ sub[i].err = "none"
      <3>1. PICK above : above = Inherited(fs, f, sub)
        OBVIOUS
      <3>2. above.err = "none"
              <=> \A i \in 1 .. Len(imports) : Fine(i) /\ sub[i].err = "none"
        BY <2>2, <2>3, <3>1, InheritedErr
      <3>3. CASE imports = <<>>
        <4>1. load[q] = own
          BY <2>1, <2>2, <2>6, <2>7, <2>11, <3>3 DEF Resolved
        <4>2. 1 .. Len(imports) = {}
          BY <3>3
        <4> QED
          BY <2>12, <4>1, <4>2
      <3>4. CASE imports # <<>>
        <4>1. load[q] = IF above.err # "none" THEN above
                        ELSE Loaded(ApplyDefaults(MergePolicy(above.policy,
                                                              own.policy)))
          BY <2>1, <2>2, <2>6, <2>7, <2>11, <2>12, <3>1, <3>4 DEF Resolved
        <4>2. load[q].err = "none" <=> above.err = "none"
          BY <4>1 DEF Loaded
        <4> QED
          BY <3>2, <4>2
      <3> QED
        BY <3>3, <3>4
    <2>15. \A i \in 1 .. Len(imports) :
             sub[i] = load[Below(i)] /\ errs[i] = strict[Below(i)]
      BY <2>1, <2>2, <2>4, <2>5 DEF Children
    <2>16. Clean(q) <=> \A i \in 1 .. Len(imports) : Clean(Below(i))
      <3>1. \A x : x \in ToSet(order[q])
                    <=> \/ x = f
                        \/ \E i \in 1 .. Len(imports) :
                             x \in ToSet(order[Below(i)])
        BY <2>9
      <3> HIDE DEF Below
      <3> QED
        BY <2>10, <3>1
    <2>17. \A i \in 1 .. Len(imports) : Below(i) \in Paths(fs)
      BY <2>0, <2>3, <2>8, PathFacts
    <2> HIDE DEF Clean, Fine, Below
    <2>18. SUFFICES ASSUME \A i \in 1 .. Len(imports) : Below(i) \notin Wrong
                    PROVE  FALSE
      BY <2>1, <2>2, <2>8 DEF Below
    <2>19. \A i \in 1 .. Len(imports) : Agree(Below(i))
      BY <2>17, <2>18
    <2> QED
      BY <2>0, <2>13, <2>14, <2>15, <2>16, <2>19
  <1>4. Wrong \in SUBSET Paths(fs)
    OBVIOUS
  <1>5. Wrong = {}
    <2> HIDE DEF Wrong
    <2> QED
      BY <1>3, <1>4, WalkInduction
  <1>7. Agree(<<fs.root>>)
    BY <1>5, RootPath
  <1> QED
    BY <1>1, <1>2, <1>7

-------------------------------------------------------------------------------
(* Which of several files counts.                                          *)

(* u is s, of length m, followed by t, of length n.                        *)
SplitAt(m, n, l, s, t, u) ==
  /\ m \in Nat /\ n \in Nat /\ l = m + n
  /\ \A i \in 1 .. m : i \in 1 .. l /\ u[i] = s[i]
  /\ \A i \in 1 .. n : m + i \in 1 .. l /\ u[m + i] = t[i]
  /\ \A i \in 1 .. l : i \in 1 .. m \/ \E k \in 1 .. n : i = m + k

(* Where the elements of a concatenation come from.                        *)
LEMMA ConcatAt ==
  ASSUME NEW S, NEW s \in Seq(S), NEW t \in Seq(S), NEW u, u = s \o t
  PROVE  u \in Seq(S) /\ SplitAt(Len(s), Len(t), Len(u), s, t, u)
  <1>1. PICK m \in Nat, n \in Nat : m = Len(s) /\ n = Len(t)
    BY LenProperties
  <1>2. /\ u \in Seq(S) /\ Len(u) = m + n
        /\ \A i \in 1 .. m : u[i] = s[i]
        /\ \A i \in 1 .. n : u[m + i] = t[i]
    BY <1>1
  <1>3. ASSUME NEW i \in 1 .. m + n
        PROVE  i \in 1 .. m \/ \E k \in 1 .. n : i = m + k
    <2>1. CASE i <= m
      BY <2>1
    <2>2. CASE ~(i <= m)
      <3>1. i - m \in 1 .. n /\ i = m + (i - m)
        BY <2>2
      <3> QED
        BY <3>1
    <2> QED
      BY <2>1, <2>2
  <1>4. /\ \A i \in 1 .. m : i \in 1 .. m + n
        /\ \A i \in 1 .. n : m + i \in 1 .. m + n
    OBVIOUS
  <1> QED
    BY <1>1, <1>2, <1>3, <1>4 DEF SplitAt

(* v is the last of the values s that is set.                              *)
LastSet(v, unset, s) ==
  \/ v = unset /\ \A i \in 1 .. Len(s) : s[i] = unset
  \/ \E i \in 1 .. Len(s) : /\ s[i] # unset /\ v = s[i]
                            /\ \A j \in 1 .. Len(s) : j > i => s[j] = unset

(* The keys of f are those of the maps s, each with its value in the last  *)
(* that has it.                                                            *)
KeysLast(f, s) ==
  /\ \A k : k \in DOMAIN f <=> \E i \in 1 .. Len(s) : k \in DOMAIN s[i]
  /\ \A k \in DOMAIN f :
       \E i \in 1 .. Len(s) :
         /\ k \in DOMAIN s[i] /\ f[k] = s[i][k]
         /\ \A j \in 1 .. Len(s) : j > i => k \notin DOMAIN s[j]

(* v is the lists s, one after the other.                                  *)
Joined(v, s) == \E flat : Flattens(flat, s) /\ v = flat[Len(s)]

(* The last set value of two lists is that of the second, if it sets one.  *)
LEMMA LastSetConcat ==
  ASSUME NEW S, NEW s \in Seq(S), NEW t \in Seq(S), NEW v, NEW w, NEW unset,
         LastSet(v, unset, s), LastSet(w, unset, t)
  PROVE  LastSet(IF w # unset THEN w ELSE v, unset, s \o t)
  <1>1. PICK u : u = s \o t
    OBVIOUS
  <1>2. PICK m, n, l : /\ m = Len(s) /\ n = Len(t) /\ l = Len(u)
                      /\ SplitAt(m, n, l, s, t, u)
    BY <1>1, ConcatAt
  <1>3. /\ m \in Nat /\ n \in Nat /\ l = m + n
        /\ \A i \in 1 .. m : i \in 1 .. l /\ u[i] = s[i]
        /\ \A i \in 1 .. n : m + i \in 1 .. l /\ u[m + i] = t[i]
        /\ \A i \in 1 .. l : i \in 1 .. m \/ \E k \in 1 .. n : i = m + k
    BY <1>2 DEF SplitAt
  <1>4. SUFFICES LastSet(IF w # unset THEN w ELSE v, unset, u)
    BY <1>1
  <1>5. ASSUME NEW i \in 1 .. n, t[i] # unset, w = t[i],
               \A j \in 1 .. n : j > i => t[j] = unset
        PROVE  LastSet(w, unset, u)
    <2>1. ASSUME NEW j \in 1 .. l, j > m + i PROVE u[j] = unset
      <3>1. j \notin 1 .. m
        BY <1>3, <2>1
      <3>2. PICK k \in 1 .. n : j = m + k
        BY <1>3, <3>1
      <3>3. k > i
        BY <1>3, <2>1, <3>2
      <3> QED
        BY <1>3, <1>5, <3>2, <3>3
    <2>2. m + i \in 1 .. l /\ u[m + i] = t[i]
      BY <1>3
    <2> QED
      BY <1>2, <1>5, <2>1, <2>2 DEF LastSet
  <1>6. ASSUME \A i \in 1 .. n : t[i] = unset
        PROVE  LastSet(v, unset, u)
    <2>1. CASE v = unset /\ \A i \in 1 .. m : s[i] = unset
      <3>1. \A i \in 1 .. l : u[i] = unset
        BY <1>3, <1>6, <2>1
      <3> QED
        BY <1>2, <2>1, <3>1 DEF LastSet
    <2>2. ASSUME NEW i \in 1 .. m, s[i] # unset, v = s[i],
                 \A j \in 1 .. m : j > i => s[j] = unset
          PROVE  LastSet(v, unset, u)
      <3>1. \A j \in 1 .. l : j > i => u[j] = unset
        BY <1>3, <1>6, <2>2
      <3>2. i \in 1 .. l /\ u[i] = s[i]
        BY <1>3
      <3> QED
        BY <1>2, <2>2, <3>1, <3>2 DEF LastSet
    <2> QED
      BY <1>2, <2>1, <2>2 DEF LastSet
  <1>7. CASE w = unset
    <2>1. \A i \in 1 .. n : t[i] = unset
      BY <1>2, <1>7 DEF LastSet
    <2> QED
      BY <1>6, <1>7, <2>1
  <1>8. CASE w # unset
    <2>1. PICK i \in 1 .. n : /\ t[i] # unset /\ w = t[i]
                              /\ \A j \in 1 .. n : j > i => t[j] = unset
      BY <1>2, <1>8 DEF LastSet
    <2> QED
      BY <1>5, <1>8, <2>1
  <1> QED
    BY <1>7, <1>8

(* Overlaid maps give each key the last value two lists set.               *)
LEMMA KeysLastConcat ==
  ASSUME NEW S, NEW s \in Seq(S), NEW t \in Seq(S), NEW f, NEW g,
         KeysLast(f, s), KeysLast(g, t)
  PROVE  KeysLast(Overlaid(f, g), s \o t)
  <1>1. PICK u : u = s \o t
    OBVIOUS
  <1>2. PICK m, n, l : /\ m = Len(s) /\ n = Len(t) /\ l = Len(u)
                      /\ SplitAt(m, n, l, s, t, u)
    BY <1>1, ConcatAt
  <1>3. /\ m \in Nat /\ n \in Nat /\ l = m + n
        /\ \A i \in 1 .. m : i \in 1 .. l /\ u[i] = s[i]
        /\ \A i \in 1 .. n : m + i \in 1 .. l /\ u[m + i] = t[i]
        /\ \A i \in 1 .. l : i \in 1 .. m \/ \E k \in 1 .. n : i = m + k
    BY <1>2 DEF SplitAt
  <1>4. PICK h : h = Overlaid(f, g)
    OBVIOUS
  <1>5. /\ DOMAIN h = DOMAIN f \union DOMAIN g
        /\ \A k \in DOMAIN g : h[k] = g[k]
        /\ \A k \in DOMAIN f : k \notin DOMAIN g => h[k] = f[k]
    BY <1>4 DEF Overlaid
  <1>6. /\ \A k : k \in DOMAIN f <=> \E i \in 1 .. m : k \in DOMAIN s[i]
        /\ \A k : k \in DOMAIN g <=> \E i \in 1 .. n : k \in DOMAIN t[i]
    BY <1>2 DEF KeysLast
  <1>7. ASSUME NEW k
        PROVE  k \in DOMAIN h <=> \E i \in 1 .. l : k \in DOMAIN u[i]
    <2>1. ASSUME NEW i \in 1 .. m, k \in DOMAIN s[i]
          PROVE  \E j \in 1 .. l : k \in DOMAIN u[j]
      <3>1. i \in 1 .. l /\ k \in DOMAIN u[i]
        BY <1>3, <2>1
      <3> QED
        BY <3>1
    <2>2. ASSUME NEW i \in 1 .. n, k \in DOMAIN t[i]
          PROVE  \E j \in 1 .. l : k \in DOMAIN u[j]
      <3>1. m + i \in 1 .. l /\ k \in DOMAIN u[m + i]
        BY <1>3, <2>2
      <3> QED
        BY <3>1
    <2>3. ASSUME NEW j \in 1 .. l, k \in DOMAIN u[j]
          PROVE  k \in DOMAIN f \/ k \in DOMAIN g
      <3>1. CASE j \in 1 .. m
        BY <1>3, <1>6, <2>3, <3>1
      <3>2. CASE j \notin 1 .. m
        <4>1. PICK q \in 1 .. n : j = m + q
          BY <1>3, <3>2
        <4> QED
          BY <1>3, <1>6, <2>3, <4>1
      <3> QED
        BY <3>1, <3>2
    <2>4. k \in DOMAIN h <=> k \in DOMAIN f \/ k \in DOMAIN g
      BY <1>5
    <2>5. /\ k \in DOMAIN f <=> \E i \in 1 .. m : k \in DOMAIN s[i]
          /\ k \in DOMAIN g <=> \E i \in 1 .. n : k \in DOMAIN t[i]
      BY <1>6
    <2> QED
      BY <2>1, <2>2, <2>3, <2>4, <2>5
  <1>8. ASSUME NEW k \in DOMAIN g
        PROVE  \E i \in 1 .. l :
                 /\ k \in DOMAIN u[i] /\ h[k] = u[i][k]
                 /\ \A j \in 1 .. l : j > i => k \notin DOMAIN u[j]
    <2>1. PICK i \in 1 .. n : /\ k \in DOMAIN t[i] /\ g[k] = t[i][k]
                              /\ \A j \in 1 .. n : j > i => k \notin DOMAIN t[j]
      BY <1>2 DEF KeysLast
    <2>2. ASSUME NEW j \in 1 .. l, j > m + i PROVE k \notin DOMAIN u[j]
      <3>1. j \notin 1 .. m
        BY <1>3, <2>2
      <3>2. PICK q \in 1 .. n : j = m + q
        BY <1>3, <3>1
      <3>3. q > i
        BY <1>3, <2>2, <3>2
      <3> QED
        BY <1>3, <2>1, <3>2, <3>3
    <2> QED
      BY <1>3, <1>5, <2>1, <2>2
  <1>9. ASSUME NEW k \in DOMAIN f, k \notin DOMAIN g
        PROVE  \E i \in 1 .. l :
                 /\ k \in DOMAIN u[i] /\ h[k] = u[i][k]
                 /\ \A j \in 1 .. l : j > i => k \notin DOMAIN u[j]
    <2>1. PICK i \in 1 .. m : /\ k \in DOMAIN s[i] /\ f[k] = s[i][k]
                              /\ \A j \in 1 .. m : j > i => k \notin DOMAIN s[j]
      BY <1>2 DEF KeysLast
    <2>2. ASSUME NEW j \in 1 .. l, j > i PROVE k \notin DOMAIN u[j]
      <3>1. CASE j \in 1 .. m
        BY <1>3, <2>1, <2>2, <3>1
      <3>2. CASE j \notin 1 .. m
        <4>1. PICK q \in 1 .. n : j = m + q
          BY <1>3, <3>2
        <4> QED
          BY <1>3, <1>6, <1>9, <4>1
      <3> QED
        BY <3>1, <3>2
    <2> QED
      BY <1>3, <1>5, <1>9, <2>1, <2>2
  <1>10. KeysLast(h, u)
    <2>1. \A k \in DOMAIN h :
            \E i \in 1 .. l :
              /\ k \in DOMAIN u[i] /\ h[k] = u[i][k]
              /\ \A j \in 1 .. l : j > i => k \notin DOMAIN u[j]
      BY <1>5, <1>8, <1>9
    <2> QED
      BY <1>2, <1>7, <2>1 DEF KeysLast
  <1> QED
    BY <1>1, <1>4, <1>10

(* A flattened list of sequences is a sequence at every stage.             *)
LEMMA JoinedSeq ==
  ASSUME NEW T, NEW s \in Seq(Seq(T)), NEW flat, Flattens(flat, s)
  PROVE  \A k \in 0 .. Len(s) : flat[k] \in Seq(T)
  <1>1. PICK n \in Nat : n = Len(s)
    BY LenProperties
  <1> DEFINE Wrong == {k \in 0 .. n : flat[k] \notin Seq(T)}
  <1>2. ASSUME Wrong # {} PROVE FALSE
    <2>1. PICK k \in Wrong : \A j \in Wrong : k <= j
      <3>1. Wrong \in SUBSET Nat
        OBVIOUS
      <3> HIDE DEF Wrong
      <3> QED
        BY <1>2, <3>1, LeastNat
    <2>2. CASE k = 0
      <3>1. flat[0] = <<>> /\ <<>> \in Seq(T)
        BY DEF Flattens
      <3> QED
        BY <2>1, <2>2, <3>1
    <2>3. CASE k # 0
      <3>1. k - 1 \in 0 .. n /\ k \in 1 .. n /\ k - 1 \notin Wrong
        BY <2>1, <2>3
      <3>2. flat[k - 1] \in Seq(T) /\ s[k] \in Seq(T)
        BY <1>1, <3>1, ElementOfSeq
      <3>3. flat[k] = flat[k - 1] \o s[k]
        BY <1>1, <3>1 DEF Flattens
      <3>4. PICK x \in Seq(T), y \in Seq(T) : x = flat[k - 1] /\ y = s[k]
        BY <3>2
      <3>5. x \o y \in Seq(T)
        BY ConcatProperties
      <3> QED
        BY <2>1, <3>3, <3>4, <3>5
    <2> QED
      BY <2>2, <2>3
  <1> QED
    BY <1>1, <1>2

(* Flattening a concatenation is concatenating what was flattened.         *)
LEMMA JoinedConcat ==
  ASSUME NEW T, NEW s \in Seq(Seq(T)), NEW t \in Seq(Seq(T)), NEW v, NEW w,
         Joined(v, s), Joined(w, t)
  PROVE  Joined(v \o w, s \o t)
  <1>1. PICK u : u = s \o t
    OBVIOUS
  <1>2. PICK m, n, l : /\ m = Len(s) /\ n = Len(t) /\ l = Len(u)
                      /\ SplitAt(m, n, l, s, t, u)
    BY <1>1, ConcatAt
  <1>3. /\ m \in Nat /\ n \in Nat /\ l = m + n
        /\ \A i \in 1 .. m : i \in 1 .. l /\ u[i] = s[i]
        /\ \A i \in 1 .. n : m + i \in 1 .. l /\ u[m + i] = t[i]
        /\ \A i \in 1 .. l : i \in 1 .. m \/ \E k \in 1 .. n : i = m + k
    BY <1>2 DEF SplitAt
  <1>4. PICK a : Flattens(a, s) /\ v = a[m]
    BY <1>2 DEF Joined
  <1>5. PICK b : Flattens(b, t) /\ w = b[n]
    BY <1>2 DEF Joined
  <1>6. v \in Seq(T)
    BY <1>2, <1>3, <1>4, JoinedSeq
  <1>7. \A k \in 0 .. n : b[k] \in Seq(T)
    BY <1>2, <1>5, JoinedSeq
  <1> DEFINE F == [i \in 0 .. l |-> IF i <= m THEN a[i] ELSE v \o b[i - m]]
  <1>8. /\ F[0] = <<>>
        /\ \A i \in 0 .. m : F[i] = a[i]
        /\ \A i \in 1 .. n : F[m + i] = v \o b[i]
    <2>1. ASSUME NEW i \in 0 .. m PROVE F[i] = a[i]
      <3>1. i \in 0 .. l /\ i <= m
        BY <1>3
      <3> QED
        BY <3>1
    <2>2. ASSUME NEW i \in 1 .. n PROVE F[m + i] = v \o b[i]
      <3>1. m + i \in 0 .. l /\ ~(m + i <= m) /\ (m + i) - m = i
        BY <1>3
      <3> QED
        BY <3>1
    <2>3. F[0] = <<>>
      <3>1. 0 \in 0 .. m /\ a[0] = <<>>
        BY <1>3, <1>4 DEF Flattens
      <3> QED
        BY <2>1, <3>1
    <2> QED
      BY <2>1, <2>2, <2>3
  <1> HIDE DEF F
  <1>9. F[m] = v /\ b[0] = <<>>
    <2>1. m \in 0 .. m
      BY <1>3
    <2> QED
      BY <1>4, <1>5, <1>8, <2>1 DEF Flattens
  <1>10. \A i \in 0 .. n : F[m + i] = v \o b[i]
    <2>1. v \o <<>> = v /\ m + 0 = m
      BY <1>3, <1>6
    <2>2. \A i \in 0 .. n : i = 0 \/ i \in 1 .. n
      BY <1>3
    <2> QED
      BY <1>8, <1>9, <2>1, <2>2
  <1>11. ASSUME NEW i \in 1 .. m PROVE F[i] = F[i - 1] \o u[i]
    <2>1. i \in 0 .. m /\ i - 1 \in 0 .. m
      BY <1>3
    <2>2. a[i] = a[i - 1] \o s[i]
      BY <1>2, <1>4 DEF Flattens
    <2> QED
      BY <1>3, <1>8, <2>1, <2>2
  <1>12. ASSUME NEW k \in 1 .. n PROVE F[m + k] = F[(m + k) - 1] \o u[m + k]
    <2>1. k \in 0 .. n /\ k - 1 \in 0 .. n /\ (m + k) - 1 = m + (k - 1)
      BY <1>3
    <2>2. PICK x \in Seq(T) : x = b[k - 1]
      BY <1>7, <2>1
    <2>3. PICK y \in Seq(T) : y = t[k]
      BY <1>2, ElementOfSeq
    <2>4. b[k] = x \o y
      BY <1>2, <1>5, <2>2, <2>3 DEF Flattens
    <2>5. v \o (x \o y) = (v \o x) \o y
      <3>1. PICK z \in Seq(T) : z = v
        BY <1>6
      <3>2. (z \o x) \o y = z \o (x \o y)
        BY SMT
      <3> QED
        BY <3>1, <3>2
    <2>6. F[m + k] = v \o (x \o y)
      BY <1>10, <2>1, <2>4
    <2>7. F[(m + k) - 1] = v \o x
      BY <1>10, <2>1, <2>2
    <2>8. u[m + k] = y
      BY <1>3, <2>3
    <2> QED
      BY <2>5, <2>6, <2>7, <2>8
  <1>13. \A i \in 1 .. l : F[i] = F[i - 1] \o u[i]
    BY <1>3, <1>11, <1>12
  <1>14. F[l] = v \o w
    <2>1. n \in 0 .. n
      BY <1>3
    <2> QED
      BY <1>3, <1>5, <1>10, <2>1
  <1> QED
    BY <1>1, <1>2, <1>8, <1>13, <1>14 DEF Joined, Flattens

(* Joined says of a value that it is the flattened list.                   *)
LEMMA JoinedIsFlat ==
  ASSUME NEW T, NEW s \in Seq(Seq(T)), NEW v, Joined(v, s)
  PROVE  v = FlattenSeq(s)
  <1>1. PICK n \in Nat : n = Len(s)
    BY LenProperties
  <1>2. PICK a : Flattens(a, s) /\ v = a[n]
    BY <1>1 DEF Joined
  <1>3. PICK b : Flattens(b, s) /\ FlattenSeq(s) = b[n]
    BY <1>1, FlattenFacts
  <1> DEFINE Wrong == {k \in 0 .. n : a[k] # b[k]}
  <1>4. ASSUME Wrong # {} PROVE FALSE
    <2>1. PICK k \in Wrong : \A j \in Wrong : k <= j
      <3>1. Wrong \in SUBSET Nat
        OBVIOUS
      <3> HIDE DEF Wrong
      <3> QED
        BY <1>4, <3>1, LeastNat
    <2>2. CASE k = 0
      BY <1>2, <1>3, <2>1, <2>2 DEF Flattens
    <2>3. CASE k # 0
      <3>1. k - 1 \in 0 .. n /\ k \in 1 .. n /\ k - 1 \notin Wrong
        BY <2>1, <2>3
      <3>2. a[k - 1] = b[k - 1]
        BY <3>1
      <3> QED
        BY <1>1, <1>2, <1>3, <2>1, <3>1, <3>2 DEF Flattens
    <2> QED
      BY <2>2, <2>3
  <1>5. n \in 0 .. n
    BY <1>1
  <1> QED
    BY <1>2, <1>3, <1>4, <1>5

-------------------------------------------------------------------------------
(* What the layers say, field by field.                                    *)

Mapped(s, h) == [i \in 1 .. Len(s) |-> h[s[i]]]

IsMapped(m, s, h, B) ==
  m \in Seq(B) /\ Len(m) = Len(s) /\ \A i \in 1 .. Len(s) : m[i] = h[s[i]]

(* A mapped sequence is as long as the sequence, element by element.       *)
LEMMA MapLen ==
  ASSUME NEW A, NEW B, NEW h \in [A -> B], NEW s \in Seq(A)
  PROVE  IsMapped(Mapped(s, h), s, h, B)
  <1>1. PICK n \in Nat : n = Len(s)
    BY LenProperties
  <1>2. PICK m : m = Mapped(s, h)
    OBVIOUS
  <1>3. m = [i \in 1 .. n |-> h[s[i]]]
    BY <1>1, <1>2 DEF Mapped
  <1>4. m \in [1 .. n -> B]
    <2>1. \A i \in 1 .. n : s[i] \in A
      BY <1>1, ElementOfSeq
    <2> QED
      BY <1>3, <2>1
  <1>5. m \in Seq(B) /\ Len(m) = n
    BY <1>4, FcnLen
  <1> QED
    BY <1>1, <1>2, <1>3, <1>5 DEF IsMapped

(* Mapping a concatenation is concatenating what was mapped.               *)
LEMMA MapConcat ==
  ASSUME NEW A, NEW h, h = [a \in A |-> h[a]],
         NEW s, s \in Seq(A), NEW t, t \in Seq(A)
  PROVE  Mapped(s \o t, h) = Mapped(s, h) \o Mapped(t, h)
  <1>0. PICK B : h \in [A -> B]
    <2>1. h \in [A -> {h[a] : a \in A}]
      OBVIOUS
    <2> QED
      BY <2>1
  <1>1. PICK u : u = s \o t
    OBVIOUS
  <1>2. PICK m, n, l : /\ m = Len(s) /\ n = Len(t) /\ l = Len(u)
                      /\ SplitAt(m, n, l, s, t, u) /\ u \in Seq(A)
    BY <1>1, ConcatAt
  <1>3. PICK x, y, z : /\ x = Mapped(s, h) /\ y = Mapped(t, h)
                       /\ z = Mapped(u, h)
    OBVIOUS
  <1>4. /\ x \in Seq(B) /\ Len(x) = m /\ \A i \in 1 .. m : x[i] = h[s[i]]
        /\ y \in Seq(B) /\ Len(y) = n /\ \A i \in 1 .. n : y[i] = h[t[i]]
        /\ z \in Seq(B) /\ Len(z) = l /\ \A i \in 1 .. l : z[i] = h[u[i]]
    <2>1. /\ IsMapped(x, s, h, B) /\ IsMapped(y, t, h, B)
          /\ IsMapped(z, u, h, B)
      BY <1>0, <1>2, <1>3, MapLen
    <2> QED
      BY <1>2, <2>1 DEF IsMapped
  <1>5. PICK w : w = x \o y
    OBVIOUS
  <1>6. /\ w \in Seq(B) /\ Len(w) = m + n
        /\ \A i \in 1 .. m : w[i] = x[i]
        /\ \A i \in 1 .. n : w[m + i] = y[i]
    <2>1. w \in Seq(B) /\ SplitAt(Len(x), Len(y), Len(w), x, y, w)
      BY <1>4, <1>5, ConcatAt
    <2> QED
      BY <1>4, <2>1 DEF SplitAt
  <1>7. ASSUME NEW i \in 1 .. l PROVE z[i] = w[i]
    <2>1. CASE i \in 1 .. m
      <3>1. u[i] = s[i]
        BY <1>2, <2>1 DEF SplitAt
      <3>2. w[i] = h[s[i]]
        BY <1>4, <1>6, <2>1
      <3>3. z[i] = h[u[i]]
        BY <1>4
      <3> QED
        BY <3>1, <3>2, <3>3
    <2>2. CASE i \notin 1 .. m
      <3>1. PICK k \in 1 .. n : i = m + k
        BY <1>2, <2>2 DEF SplitAt
      <3>2. u[m + k] = t[k] /\ w[m + k] = y[k]
        BY <1>2, <1>6 DEF SplitAt
      <3>3. z[i] = h[u[i]]
        BY <1>4
      <3>4. y[k] = h[t[k]]
        BY <1>4
      <3> QED
        BY <3>1, <3>2, <3>3, <3>4
    <2> QED
      BY <2>1, <2>2
  <1>8. z = w
    <2>1. Len(z) = Len(w) /\ \A i \in 1 .. Len(z) : z[i] = w[i]
      BY <1>2, <1>4, <1>6, <1>7 DEF SplitAt
    <2> QED
      BY <1>4, <1>6, <2>1, SeqEqual
  <1> QED
    BY <1>1, <1>3, <1>5, <1>8

(* What the policies L say in one field.                                   *)
Column(L, field) == [i \in 1 .. Len(L) |-> L[i][field]]

Columns(u, L, M, field, V) ==
  /\ Column(L, field) \in Seq(V) /\ Column(M, field) \in Seq(V)
  /\ Column(u, field) = Column(L, field) \o Column(M, field)

(* A column of two lists of policies is the columns of both.               *)
LEMMA ColumnFacts ==
  ASSUME NEW P, NEW L, L \in Seq(P), NEW M, M \in Seq(P), NEW field, NEW V,
         \A l \in P : l[field] \in V
  PROVE  Columns(L \o M, L, M, field, V)
  <1>1. PICK h : h = [l \in P |-> l[field]]
    OBVIOUS
  <1>2. h \in [P -> V] /\ \A l \in P : h[l] = l[field]
    BY <1>1
  <1>3. ASSUME NEW N, N \in Seq(P)
        PROVE  Column(N, field) = Mapped(N, h) /\ Mapped(N, h) \in Seq(V)
    <2>1. PICK n \in Nat : n = Len(N)
      BY <1>3, LenProperties
    <2>2. \A i \in 1 .. n : N[i] \in P
      BY <1>3, <2>1, ElementOfSeq
    <2>3. [i \in 1 .. n |-> N[i][field]] = [i \in 1 .. n |-> h[N[i]]]
      BY <1>2, <2>2
    <2>4. IsMapped(Mapped(N, h), N, h, V)
      BY <1>2, <1>3, MapLen
    <2> QED
      BY <2>1, <2>3, <2>4 DEF Column, Mapped, IsMapped
  <1>4. PICK u : u = L \o M /\ u \in Seq(P)
    BY ConcatProperties
  <1>5. Mapped(u, h) = Mapped(L, h) \o Mapped(M, h)
    <2>1. h = [l \in P |-> h[l]]
      BY <1>1
    <2> QED
      BY <1>4, <2>1, MapConcat
  <1>6. Column(u, field) = Mapped(u, h)
    BY <1>3, <1>4
  <1>7. /\ Column(L, field) = Mapped(L, h) /\ Mapped(L, h) \in Seq(V)
        /\ Column(M, field) = Mapped(M, h) /\ Mapped(M, h) \in Seq(V)
    BY <1>3
  <1>8. /\ Column(u, field) = Column(L, field) \o Column(M, field)
        /\ Column(L, field) \in Seq(V) /\ Column(M, field) \in Seq(V)
    BY <1>5, <1>6, <1>7
  <1> QED
    BY <1>4, <1>8 DEF Columns

(* p is what the policies L make, the later counting more.                 *)
Wins(p, L) ==
  /\ LastSet(p.version, "", Column(L, "version"))
  /\ LastSet(p.decision, "", Column(L, "decision"))
  /\ LastSet(p.format, "", Column(L, "format"))
  /\ LastSet(p.mode, "", Column(L, "mode"))
  /\ LastSet(p.minLength, 0, Column(L, "minLength"))
  /\ KeysLast(p.tools, Column(L, "tools"))
  /\ KeysLast(p.groups, Column(L, "groups"))
  /\ Joined(p.patterns, Column(L, "patterns"))
  /\ p.redact = \E i \in 1 .. Len(L) : L[i].redact
  /\ p.include = \E i \in 1 .. Len(L) : L[i].include
  /\ p.taint = \E i \in 1 .. Len(L) : L[i].taint

Pattern == [compiles : BOOLEAN, matches : SUBSET STRING]

(* Some layer of L sets the flag.                                          *)
HasFlag(L, flag) == \E i \in 1 .. Len(L) : L[i][flag]

(* A flag is set in a concatenation if it is in one of its parts.          *)
LEMMA FlagConcat ==
  ASSUME NEW P, NEW L \in Seq(P), NEW M \in Seq(P), NEW flag
  PROVE  HasFlag(L, flag) \/ HasFlag(M, flag) <=> HasFlag(L \o M, flag)
  <1>1. PICK u : u = L \o M
    OBVIOUS
  <1>2. PICK m, n, l : /\ m = Len(L) /\ n = Len(M) /\ l = Len(u)
                      /\ SplitAt(m, n, l, L, M, u)
    BY <1>1, ConcatAt
  <1>3. ASSUME NEW i \in 1 .. m, L[i][flag]
        PROVE  \E j \in 1 .. l : u[j][flag]
    <2>1. i \in 1 .. l /\ u[i] = L[i]
      BY <1>2 DEF SplitAt
    <2> QED
      BY <1>3, <2>1
  <1>4. ASSUME NEW i \in 1 .. n, M[i][flag]
        PROVE  \E j \in 1 .. l : u[j][flag]
    <2>1. m + i \in 1 .. l /\ u[m + i] = M[i]
      BY <1>2 DEF SplitAt
    <2> QED
      BY <1>4, <2>1
  <1>5. ASSUME NEW j \in 1 .. l, u[j][flag]
        PROVE  (\E i \in 1 .. m : L[i][flag]) \/ \E i \in 1 .. n : M[i][flag]
    <2>1. CASE j \in 1 .. m
      BY <1>2, <1>5, <2>1 DEF SplitAt
    <2>2. CASE j \notin 1 .. m
      <3>1. PICK k \in 1 .. n : j = m + k
        BY <1>2, <2>2 DEF SplitAt
      <3>2. M[k] = u[j]
        BY <1>2, <3>1 DEF SplitAt
      <3> QED
        BY <1>5, <3>2
    <2> QED
      BY <2>1, <2>2
  <1>6. ((\E i \in 1 .. m : L[i][flag]) \/ \E i \in 1 .. n : M[i][flag])
          <=> \E j \in 1 .. l : u[j][flag]
    BY <1>3, <1>4, <1>5
  <1> QED
    BY <1>1, <1>2, <1>6 DEF HasFlag

(* Merging what two lists of layers make gives what their concatenation    *)
(* makes (mergePolicy).                                                    *)
LEMMA WinsMerge ==
  ASSUME NEW P, \A l \in P : IsPolicy(l),
         NEW L, L \in Seq(P), NEW M, M \in Seq(P),
         NEW p, NEW q, Parsable(p), Parsable(q), Wins(p, L), Wins(q, M)
  PROVE  Wins(MergePolicy(p, q), L \o M)
  <1>1. PICK m : m = MergePolicy(p, q)
    OBVIOUS
  <1>2. IsPolicy(p) /\ IsPolicy(q) /\ p.minLength >= 0 /\ q.minLength >= 0
    BY DEF Parsable, ValidTaint
  <1>3. Merged(p, q, m)
    BY <1>1, <1>2, MergeFields
  <1>4. PICK u : u = L \o M
    OBVIOUS
  <1>5. ASSUME NEW field
        PROVE  /\ \E S : /\ Column(L, field) \in Seq(S)
                         /\ Column(M, field) \in Seq(S)
               /\ Column(u, field) = Column(L, field) \o Column(M, field)
    <2>1. PICK V : V = {l[field] : l \in P}
      OBVIOUS
    <2>2. \A l \in P : l[field] \in V
      BY <2>1
    <2>3. Columns(L \o M, L, M, field, V)
      BY <2>2, ColumnFacts
    <2> QED
      BY <1>4, <2>3 DEF Columns
  <1>6. ASSUME NEW field, NEW x, NEW y, NEW unset,
               LastSet(x, unset, Column(L, field)),
               LastSet(y, unset, Column(M, field))
        PROVE  LastSet(IF y # unset THEN y ELSE x, unset, Column(u, field))
    <2>1. PICK S, s, t : /\ s = Column(L, field) /\ t = Column(M, field)
                         /\ s \in Seq(S) /\ t \in Seq(S)
                         /\ Column(u, field) = s \o t
      BY <1>5
    <2>2. LastSet(x, unset, s) /\ LastSet(y, unset, t)
      BY <1>6, <2>1
    <2>3. LastSet(IF y # unset THEN y ELSE x, unset, s \o t)
      BY <2>1, <2>2, LastSetConcat
    <2> QED
      BY <2>1, <2>3
  <1>7. /\ LastSet(m.version, "", Column(u, "version"))
        /\ LastSet(m.decision, "", Column(u, "decision"))
        /\ LastSet(m.format, "", Column(u, "format"))
        /\ LastSet(m.mode, "", Column(u, "mode"))
    <2>1. LastSet(m.version, "", Column(u, "version"))
      <3>1. /\ LastSet(p.version, "", Column(L, "version"))
            /\ LastSet(q.version, "", Column(M, "version"))
        BY DEF Wins
      <3>2. m.version = IF q.version # "" THEN q.version ELSE p.version
        BY <1>3 DEF Merged, Later
      <3>3. LastSet(IF q.version # "" THEN q.version ELSE p.version,
                    "", Column(u, "version"))
        BY <1>6, <3>1
      <3> QED
        BY <3>2, <3>3
    <2>2. LastSet(m.decision, "", Column(u, "decision"))
      <3>1. /\ LastSet(p.decision, "", Column(L, "decision"))
            /\ LastSet(q.decision, "", Column(M, "decision"))
        BY DEF Wins
      <3>2. m.decision = IF q.decision # "" THEN q.decision ELSE p.decision
        BY <1>3 DEF Merged, Later
      <3>3. LastSet(IF q.decision # "" THEN q.decision ELSE p.decision,
                    "", Column(u, "decision"))
        BY <1>6, <3>1
      <3> QED
        BY <3>2, <3>3
    <2>3. LastSet(m.format, "", Column(u, "format"))
      <3>1. /\ LastSet(p.format, "", Column(L, "format"))
            /\ LastSet(q.format, "", Column(M, "format"))
        BY DEF Wins
      <3>2. m.format = IF q.format # "" THEN q.format ELSE p.format
        BY <1>3 DEF Merged, Later
      <3>3. LastSet(IF q.format # "" THEN q.format ELSE p.format,
                    "", Column(u, "format"))
        BY <1>6, <3>1
      <3> QED
        BY <3>2, <3>3
    <2>4. LastSet(m.mode, "", Column(u, "mode"))
      <3>1. /\ LastSet(p.mode, "", Column(L, "mode"))
            /\ LastSet(q.mode, "", Column(M, "mode"))
        BY DEF Wins
      <3>2. m.mode = IF q.mode # "" THEN q.mode ELSE p.mode
        BY <1>3 DEF Merged, Later
      <3>3. LastSet(IF q.mode # "" THEN q.mode ELSE p.mode,
                    "", Column(u, "mode"))
        BY <1>6, <3>1
      <3> QED
        BY <3>2, <3>3
    <2> QED
      BY <2>1, <2>2, <2>3, <2>4
  <1>8. LastSet(m.minLength, 0, Column(u, "minLength"))
    <2>1. /\ LastSet(p.minLength, 0, Column(L, "minLength"))
          /\ LastSet(q.minLength, 0, Column(M, "minLength"))
      BY DEF Wins
    <2>2. m.minLength = IF q.minLength # 0 THEN q.minLength ELSE p.minLength
      <3>1. m.minLength = IF q.minLength > 0 THEN q.minLength ELSE p.minLength
        BY <1>3 DEF Merged
      <3>2. q.minLength \in Int
        BY <1>2 DEF IsPolicy
      <3>3. q.minLength > 0 <=> q.minLength # 0
        BY <1>2, <3>2
      <3> QED
        BY <3>1, <3>3
    <2> QED
      BY <1>6, <2>1, <2>2
  <1>9. ASSUME NEW field, NEW f, NEW g,
               KeysLast(f, Column(L, field)), KeysLast(g, Column(M, field))
        PROVE  KeysLast(Overlaid(f, g), Column(u, field))
    <2>1. PICK S, s, t : /\ s = Column(L, field) /\ t = Column(M, field)
                         /\ s \in Seq(S) /\ t \in Seq(S)
                         /\ Column(u, field) = s \o t
      BY <1>5
    <2>2. KeysLast(f, s) /\ KeysLast(g, t)
      BY <1>9, <2>1
    <2>3. KeysLast(Overlaid(f, g), s \o t)
      BY <2>1, <2>2, KeysLastConcat
    <2> QED
      BY <2>1, <2>3
  <1>10. /\ KeysLast(m.tools, Column(u, "tools"))
         /\ KeysLast(m.groups, Column(u, "groups"))
    <2>1. /\ m.tools = Overlaid(p.tools, q.tools)
          /\ m.groups = Overlaid(p.groups, q.groups)
      BY <1>3 DEF Merged
    <2>2. /\ KeysLast(p.tools, Column(L, "tools"))
          /\ KeysLast(q.tools, Column(M, "tools"))
          /\ KeysLast(p.groups, Column(L, "groups"))
          /\ KeysLast(q.groups, Column(M, "groups"))
      BY DEF Wins
    <2> QED
      BY <1>9, <2>1, <2>2
  <1>11. Joined(m.patterns, Column(u, "patterns"))
    <2>1. \A l \in P : l.patterns \in Seq(Pattern)
      BY DEF IsPolicy, Pattern
    <2>0. Columns(L \o M, L, M, "patterns", Seq(Pattern))
      <3>1. \A l \in P : l["patterns"] \in Seq(Pattern)
        BY <2>1
      <3> QED
        BY <3>1, ColumnFacts
    <2>2. PICK s \in Seq(Seq(Pattern)), t \in Seq(Seq(Pattern)) :
            /\ s = Column(L, "patterns") /\ t = Column(M, "patterns")
            /\ Column(u, "patterns") = s \o t
      BY <1>4, <2>0 DEF Columns
    <2>3. Joined(p.patterns, s) /\ Joined(q.patterns, t)
      BY <2>2 DEF Wins
    <2>4. Joined(p.patterns \o q.patterns, s \o t)
      BY <2>3, JoinedConcat
    <2>5. m.patterns = p.patterns \o q.patterns
      BY <1>3 DEF Merged
    <2> QED
      BY <2>2, <2>4, <2>5
  <1>12. m.redact = \E i \in 1 .. Len(u) : u[i].redact
    <2>1. PICK a, b : a = p.redact /\ b = q.redact
      OBVIOUS
    <2>2. /\ a = \E i \in 1 .. Len(L) : L[i].redact
          /\ b = \E i \in 1 .. Len(M) : M[i].redact
      BY <2>1 DEF Wins
    <2>3. (a \/ b) = \E i \in 1 .. Len(u) : u[i].redact
      <3>1. HasFlag(L, "redact") \/ HasFlag(M, "redact") <=> HasFlag(L \o M, "redact")
        BY FlagConcat
      <3> QED
        BY <1>4, <2>2, <3>1 DEF HasFlag
    <2>4. m.redact = (a \/ b)
      BY <1>3, <2>1 DEF Merged
    <2> QED
      BY <2>3, <2>4
  <1>13. m.include = \E i \in 1 .. Len(u) : u[i].include
    <2>1. PICK a, b : a = p.include /\ b = q.include
      OBVIOUS
    <2>2. /\ a = \E i \in 1 .. Len(L) : L[i].include
          /\ b = \E i \in 1 .. Len(M) : M[i].include
      BY <2>1 DEF Wins
    <2>3. (a \/ b) = \E i \in 1 .. Len(u) : u[i].include
      <3>1. HasFlag(L, "include") \/ HasFlag(M, "include") <=> HasFlag(L \o M, "include")
        BY FlagConcat
      <3> QED
        BY <1>4, <2>2, <3>1 DEF HasFlag
    <2>4. m.include = (a \/ b)
      BY <1>3, <2>1 DEF Merged
    <2> QED
      BY <2>3, <2>4
  <1>14. m.taint = \E i \in 1 .. Len(u) : u[i].taint
    <2>1. PICK a, b : a = p.taint /\ b = q.taint
      OBVIOUS
    <2>2. /\ a = \E i \in 1 .. Len(L) : L[i].taint
          /\ b = \E i \in 1 .. Len(M) : M[i].taint
      BY <2>1 DEF Wins
    <2>3. (a \/ b) = \E i \in 1 .. Len(u) : u[i].taint
      <3>1. HasFlag(L, "taint") \/ HasFlag(M, "taint") <=> HasFlag(L \o M, "taint")
        BY FlagConcat
      <3> QED
        BY <1>4, <2>2, <3>1 DEF HasFlag
    <2>4. m.taint = (a \/ b)
      BY <1>3, <2>1 DEF Merged
    <2> QED
      BY <2>3, <2>4
  <1>15. Wins(m, u)
    BY <1>7, <1>8, <1>10, <1>11, <1>12, <1>13, <1>14 DEF Wins
  <1> QED
    BY <1>1, <1>4, <1>15

(* The zero policy is what no layers make.                                 *)
LEMMA WinsNone == Wins(ZeroPolicy, <<>>)
  <1>1. \A field : Column(<<>>, field) = <<>>
    BY DEF Column
  <1>2. Len(<<>>) = 0 /\ DOMAIN <<>> = {}
    OBVIOUS
  <1>3. \A v : LastSet(v, v, <<>>)
    BY <1>2 DEF LastSet
  <1>4. KeysLast(<<>>, <<>>)
    BY <1>2 DEF KeysLast
  <1>5. Joined(<<>>, <<>>)
    <2>1. PICK flat : flat = [i \in {0} |-> <<>>]
      OBVIOUS
    <2>2. flat[0] = <<>>
      BY <2>1
    <2>3. Flattens(flat, <<>>)
      BY <1>2, <2>2 DEF Flattens
    <2> QED
      BY <1>2, <2>2, <2>3 DEF Joined
  <1>6. /\ ZeroPolicy.version = "" /\ ZeroPolicy.decision = ""
        /\ ZeroPolicy.format = "" /\ ZeroPolicy.mode = ""
        /\ ZeroPolicy.minLength = 0 /\ ZeroPolicy.tools = <<>>
        /\ ZeroPolicy.groups = <<>> /\ ZeroPolicy.patterns = <<>>
        /\ ZeroPolicy.redact = FALSE /\ ZeroPolicy.include = FALSE
        /\ ZeroPolicy.taint = FALSE
    BY DEF ZeroPolicy
  <1>7. \A i : i \notin 1 .. Len(<<>>)
    BY <1>2
  <1> QED
    BY <1>1, <1>3, <1>4, <1>5, <1>6, <1>7 DEF Wins

(* A policy is what it makes as the only layer.                            *)
LEMMA WinsOne ==
  ASSUME NEW p, IsPolicy(p)
  PROVE  Wins(p, <<p>>)
  <1>1. PICK L : L = <<p>>
    OBVIOUS
  <1>2. Len(L) = 1 /\ L[1] = p /\ 1 .. 1 = {1}
    BY <1>1
  <1>3. ASSUME NEW field
        PROVE  /\ Len(Column(L, field)) = 1 /\ Column(L, field)[1] = p[field]
               /\ Column(L, field) \in Seq({p[field]})
    <2>1. PICK c : c = Column(L, field)
      OBVIOUS
    <2>2. c = [i \in 1 .. 1 |-> L[i][field]]
      BY <1>2, <2>1 DEF Column
    <2>3. c \in [1 .. 1 -> {p[field]}] /\ c[1] = p[field]
      BY <1>2, <2>2
    <2>4. 1 \in Nat
      OBVIOUS
    <2>5. Len(c) = 1 /\ c \in Seq({p[field]})
      BY <2>3, <2>4, FcnLen
    <2> QED
      BY <2>1, <2>3, <2>5
  <1>4. ASSUME NEW field, NEW unset
        PROVE  LastSet(p[field], unset, Column(L, field))
    <2>1. PICK c : c = Column(L, field) /\ Len(c) = 1 /\ c[1] = p[field]
      BY <1>3
    <2>2. LastSet(p[field], unset, c)
      <3>1. CASE p[field] = unset
        BY <1>2, <2>1, <3>1 DEF LastSet
      <3>2. CASE p[field] # unset
        BY <1>2, <2>1, <3>2 DEF LastSet
      <3> QED
        BY <3>1, <3>2
    <2> QED
      BY <2>1, <2>2
  <1>5. ASSUME NEW field
        PROVE  KeysLast(p[field], Column(L, field))
    <2>1. PICK c : c = Column(L, field) /\ Len(c) = 1 /\ c[1] = p[field]
      BY <1>3
    <2>2. \A i \in 1 .. Len(c) : i = 1
      BY <1>2, <2>1
    <2>3. 1 \in 1 .. Len(c) /\ ~(1 > 1)
      BY <2>1
    <2>4. KeysLast(p[field], c)
      BY <2>1, <2>2, <2>3 DEF KeysLast
    <2> QED
      BY <2>1, <2>4
  <1>6. Joined(p.patterns, Column(L, "patterns"))
    <2>1. PICK c : c = Column(L, "patterns") /\ Len(c) = 1 /\ c[1] = p.patterns
      <3>1. /\ Len(Column(L, "patterns")) = 1
            /\ Column(L, "patterns")[1] = p["patterns"]
        BY <1>3
      <3> QED
        BY <3>1
    <2>2. PICK flat : flat = [i \in {0, 1} |-> IF i = 0 THEN <<>> ELSE c[1]]
      OBVIOUS
    <2>3. flat[0] = <<>> /\ flat[1] = c[1]
      BY <2>2
    <2>4. <<>> \o c[1] = c[1]
      <3>1. c[1] \in Seq(Pattern)
        BY <2>1 DEF IsPolicy, Pattern
      <3> QED
        BY <3>1
    <2>5. \A i \in 1 .. Len(c) : i = 1
      BY <1>2, <2>1
    <2>6. Flattens(flat, c)
      <3>1. flat[1] = flat[1 - 1] \o c[1]
        <4>1. 1 - 1 = 0
          OBVIOUS
        <4> QED
          BY <2>3, <2>4, <4>1
      <3> QED
        BY <2>3, <2>5, <3>1 DEF Flattens
    <2> QED
      BY <2>1, <2>3, <2>6 DEF Joined
  <1>7. p.redact = \E i \in 1 .. Len(L) : L[i].redact
    <2>1. PICK t \in BOOLEAN : t = p.redact
      BY DEF IsPolicy
    <2>2. t = \E i \in {1} : L[i].redact
      BY <1>2, <2>1
    <2> QED
      BY <1>2, <2>1, <2>2
  <1>8. p.include = \E i \in 1 .. Len(L) : L[i].include
    <2>1. PICK t \in BOOLEAN : t = p.include
      BY DEF IsPolicy
    <2>2. t = \E i \in {1} : L[i].include
      BY <1>2, <2>1
    <2> QED
      BY <1>2, <2>1, <2>2
  <1>9. p.taint = \E i \in 1 .. Len(L) : L[i].taint
    <2>1. PICK t \in BOOLEAN : t = p.taint
      BY DEF IsPolicy
    <2>2. t = \E i \in {1} : L[i].taint
      BY <1>2, <2>1
    <2> QED
      BY <1>2, <2>1, <2>2
  <1>10. /\ LastSet(p.version, "", Column(L, "version"))
         /\ LastSet(p.decision, "", Column(L, "decision"))
         /\ LastSet(p.format, "", Column(L, "format"))
         /\ LastSet(p.mode, "", Column(L, "mode"))
         /\ LastSet(p.minLength, 0, Column(L, "minLength"))
    <2>1. LastSet(p["version"], "", Column(L, "version"))
      BY <1>4
    <2>2. LastSet(p["decision"], "", Column(L, "decision"))
      BY <1>4
    <2>3. LastSet(p["format"], "", Column(L, "format"))
      BY <1>4
    <2>4. LastSet(p["mode"], "", Column(L, "mode"))
      BY <1>4
    <2>5. LastSet(p["minLength"], 0, Column(L, "minLength"))
      BY <1>4
    <2> QED
      BY <2>1, <2>2, <2>3, <2>4, <2>5
  <1>11. /\ KeysLast(p.tools, Column(L, "tools"))
         /\ KeysLast(p.groups, Column(L, "groups"))
    <2>1. KeysLast(p["tools"], Column(L, "tools"))
      BY <1>5
    <2>2. KeysLast(p["groups"], Column(L, "groups"))
      BY <1>5
    <2> QED
      BY <2>1, <2>2
  <1>12. Wins(p, L)
    BY <1>6, <1>7, <1>8, <1>9, <1>10, <1>11 DEF Wins
  <1> QED
    BY <1>1, <1>12

(* The policies of the files F, with their defaults.                       *)
Given(fs, F) ==
  Mapped(F, [f \in DOMAIN fs.content |-> ApplyDefaults(fs.content[f].policy)])

Given1(fs) == {ApplyDefaults(fs.content[f].policy) : f \in DOMAIN fs.content}

(* The layers of a list of files, each with its defaults.                  *)
LEMMA GivenFacts ==
  ASSUME NEW fs, IsTree(fs), NEW F, F \in Seq(DOMAIN fs.content)
  PROVE  /\ Given(fs, F) \in Seq(Given1(fs)) /\ Len(Given(fs, F)) = Len(F)
         /\ \A i \in 1 .. Len(F) :
              Given(fs, F)[i] = ApplyDefaults(fs.content[F[i]].policy)
         /\ \A l \in Given1(fs) : IsPolicy(l)
  <1>1. PICK D : D = DOMAIN fs.content
    OBVIOUS
  <1>2. PICK h : h = [f \in D |-> ApplyDefaults(fs.content[f].policy)]
    OBVIOUS
  <1>3. h \in [D -> Given1(fs)]
    BY <1>1, <1>2 DEF Given1
  <1>4. IsMapped(Mapped(F, h), F, h, Given1(fs))
    BY <1>1, <1>3, MapLen
  <1>5. PICK G : G = Given(fs, F)
    OBVIOUS
  <1>6. G = Mapped(F, h)
    BY <1>1, <1>2, <1>5 DEF Given
  <1>7. ASSUME NEW i \in 1 .. Len(F)
        PROVE  G[i] = ApplyDefaults(fs.content[F[i]].policy)
    <2>1. F[i] \in D
      BY <1>1, ElementOfSeq
    <2>2. G[i] = h[F[i]]
      BY <1>4, <1>6 DEF IsMapped
    <2> QED
      BY <1>2, <2>1, <2>2
  <1>8. ASSUME NEW l \in Given1(fs) PROVE IsPolicy(l)
    <2>1. PICK f \in DOMAIN fs.content : l = ApplyDefaults(fs.content[f].policy)
      BY DEF Given1
    <2> QED
      BY <2>1, DefaultFields DEF IsTree
  <1> QED
    BY <1>4, <1>5, <1>6, <1>7, <1>8 DEF IsMapped

(* The layers of two lists of files, one after the other.                  *)
LEMMA GivenConcat ==
  ASSUME NEW fs, NEW F, F \in Seq(DOMAIN fs.content),
         NEW G, G \in Seq(DOMAIN fs.content)
  PROVE  Given(fs, F \o G) = Given(fs, F) \o Given(fs, G)
  <1>1. PICK D : D = DOMAIN fs.content
    OBVIOUS
  <1>2. PICK h : h = [f \in D |-> ApplyDefaults(fs.content[f].policy)]
    OBVIOUS
  <1>3. h = [f \in D |-> h[f]]
    BY <1>2
  <1>4. Mapped(F \o G, h) = Mapped(F, h) \o Mapped(G, h)
    BY <1>1, <1>3, MapConcat
  <1> QED
    BY <1>1, <1>2, <1>4 DEF Given

(* What taint needs is set.                                                *)
Settled(p) == p.taint => p.mode # "" /\ p.minLength > 0

Complete(p) == p.decision # "" /\ p.format # "" /\ Settled(p)

(* A complete policy has all its defaults.                                 *)
LEMMA DefaultsAbsent ==
  ASSUME NEW p, IsPolicy(p), Complete(p)
  PROVE  ApplyDefaults(p) = p
  <1>1. PICK n \in Int : n = p.minLength
    BY DEF IsPolicy
  <1>2. ~(p.taint /\ p.mode = "") /\ ~(p.taint /\ p.minLength <= 0)
    <2>1. PICK t \in BOOLEAN : t = p.taint
      BY DEF IsPolicy
    <2>2. t => n > 0
      BY <1>1, <2>1 DEF Complete, Settled
    <2>3. t => ~(n <= 0)
      <3>1. n > 0 => ~(n <= 0)
        OBVIOUS
      <3> QED
        BY <2>2, <3>1, Zenon
    <2> QED
      BY <1>1, <2>1, <2>3 DEF Complete, Settled
  <1> QED
    BY <1>2 DEF ApplyDefaults, IsPolicy, ZeroPolicy, Complete

(* Merging two settled policies gives a settled one.                       *)
LEMMA SettledMerge ==
  ASSUME NEW p, NEW q, Parsable(p), Parsable(q), Settled(p), Settled(q)
  PROVE  Settled(MergePolicy(p, q))
  <1>1. PICK m : m = MergePolicy(p, q)
    OBVIOUS
  <1>2. IsPolicy(p) /\ IsPolicy(q)
    BY DEF Parsable
  <1>3. /\ m.taint = (p.taint \/ q.taint)
        /\ m.mode = IF q.mode # "" THEN q.mode ELSE p.mode
        /\ m.minLength = IF q.minLength > 0 THEN q.minLength ELSE p.minLength
    BY <1>1, <1>2, MergeFields DEF Merged, Later
  <1>4. PICK a \in Int, b \in Int : a = p.minLength /\ b = q.minLength
    BY <1>2 DEF IsPolicy
  <1>5. PICK s \in BOOLEAN, t \in BOOLEAN : s = p.taint /\ t = q.taint
    BY <1>2 DEF IsPolicy
  <1>6. (s => a > 0) /\ (t => b > 0)
    BY <1>4, <1>5 DEF Settled
  <1>7. s \/ t => (IF b > 0 THEN b ELSE a) > 0
    BY <1>6
  <1>8. s \/ t => m.mode # ""
    BY <1>3, <1>5 DEF Settled
  <1>9. m.taint => s \/ t
    BY <1>3, <1>5
  <1>10. m.minLength = IF b > 0 THEN b ELSE a
    BY <1>3, <1>4
  <1> QED
    BY <1>1, <1>7, <1>8, <1>9, <1>10 DEF Settled

-------------------------------------------------------------------------------
(* The policy a walk builds, and the files it is built from.               *)

(* r is an error, or what the policies of the files F make.                *)
Built(fs, r, F) ==
  r.err = "none" => /\ Parsable(r.policy) /\ Settled(r.policy)
                    /\ Wins(r.policy, Given(fs, F))

(* Merging what two lists of files build gives what both build in turn.    *)
LEMMA BuiltMerge ==
  ASSUME NEW fs, IsTree(fs),
         NEW F, F \in Seq(DOMAIN fs.content),
         NEW G, G \in Seq(DOMAIN fs.content),
         NEW r, r.err = "none", Built(fs, r, F),
         NEW q, q.err = "none", Built(fs, q, G)
  PROVE  Built(fs, Loaded(MergePolicy(r.policy, q.policy)), F \o G)
  <1>1. PICK m : m = MergePolicy(r.policy, q.policy)
    OBVIOUS
  <1>2. PICK a, b : a = r.policy /\ b = q.policy
    OBVIOUS
  <1>3. /\ Parsable(a) /\ Settled(a) /\ Wins(a, Given(fs, F))
        /\ Parsable(b) /\ Settled(b) /\ Wins(b, Given(fs, G))
    BY <1>2 DEF Built
  <1>4. Parsable(m) /\ Settled(m)
    BY <1>1, <1>2, <1>3, MergeParsable, SettledMerge
  <1>5. PICK P, L, M : /\ P = Given1(fs) /\ L = Given(fs, F) /\ M = Given(fs, G)
                       /\ L \in Seq(P) /\ M \in Seq(P)
                       /\ \A l \in P : IsPolicy(l)
    BY GivenFacts
  <1>6. Wins(m, L \o M)
    BY <1>1, <1>2, <1>3, <1>5, WinsMerge
  <1>7. Given(fs, F \o G) = L \o M
    BY <1>5, GivenConcat
  <1> QED
    BY <1>1, <1>4, <1>6, <1>7 DEF Built, Loaded

(* One more import is built from the files before and its own.             *)
LEMMA LayeredBuilt ==
  ASSUME NEW fs, IsTree(fs), NEW wrong,
         NEW F, F \in Seq(DOMAIN fs.content),
         NEW G, G \in Seq(DOMAIN fs.content),
         NEW r, Built(fs, r, F), NEW q, Built(fs, q, G)
  PROVE  Built(fs, Layered(r, wrong, q), F \o G)
  <1>1. CASE r.err # "none" \/ wrong # "none" \/ q.err # "none"
    <2>1. Layered(r, wrong, q).err # "none"
      BY <1>1 DEF Layered, Failed
    <2> QED
      BY <2>1 DEF Built
  <1>2. CASE r.err = "none" /\ wrong = "none" /\ q.err = "none"
    <2>1. Layered(r, wrong, q) = Loaded(MergePolicy(r.policy, q.policy))
      BY <1>2 DEF Layered
    <2>2. Built(fs, Loaded(MergePolicy(r.policy, q.policy)), F \o G)
      BY <1>2, BuiltMerge
    <2> QED
      BY <2>1, <2>2
  <1> QED
    BY <1>1, <1>2

(* What a file inherits is built from its imports' files in turn.          *)
LEMMA InheritedBuilt ==
  ASSUME NEW fs, IsTree(fs), NEW f, NEW children, NEW orders,
         Len(fs.content[f].imports) \in Nat,
         orders \in Seq(Seq(DOMAIN fs.content)),
         Len(orders) = Len(fs.content[f].imports),
         \A i \in 1 .. Len(fs.content[f].imports) :
           Built(fs, children[i], orders[i])
  PROVE  Built(fs, Inherited(fs, f, children), FlattenSeq(orders))
  <1>1. PICK n \in Nat : n = Len(fs.content[f].imports) /\ n = Len(orders)
    OBVIOUS
  <1>2. PICK stack : /\ IsStack(stack, n, fs, f, children)
                     /\ Inherited(fs, f, children) = stack[n]
    BY <1>1, InheritedStack
  <1>3. PICK flat : /\ Flattens(flat, orders)
                    /\ FlattenSeq(orders) = flat[n]
    BY <1>1, FlattenFacts
  <1>4. \A k \in 0 .. n : flat[k] \in Seq(DOMAIN fs.content)
    BY <1>1, <1>3, JoinedSeq
  <1> DEFINE Wrong == {k \in 0 .. n : ~Built(fs, stack[k], flat[k])}
  <1>5. ASSUME Wrong # {} PROVE FALSE
    <2>1. PICK k \in Wrong : \A j \in Wrong : k <= j
      <3>1. Wrong \in SUBSET Nat
        OBVIOUS
      <3> HIDE DEF Wrong
      <3> QED
        BY <1>5, <3>1, LeastNat
    <2>2. CASE k = 0
      <3>1. stack[k] = Loaded(ZeroPolicy)
        BY <1>2, <2>1, <2>2 DEF IsStack, Layer
      <3>2. flat[k] = <<>>
        BY <1>3, <2>2 DEF Flattens
      <3>3. Given(fs, <<>>) = <<>>
        BY DEF Given, Mapped
      <3>4. Settled(ZeroPolicy)
        BY DEF Settled, ZeroPolicy
      <3>5. Built(fs, stack[k], flat[k])
        BY <3>1, <3>2, <3>3, <3>4, ZeroParsable, WinsNone DEF Built, Loaded
      <3> QED
        BY <2>1, <3>5
    <2>3. CASE k # 0
      <3>1. k - 1 \in 0 .. n /\ k \in 1 .. n /\ k - 1 \notin Wrong
        BY <2>1, <2>3
      <3>2. Built(fs, stack[k - 1], flat[k - 1]) /\ Built(fs, children[k], orders[k])
        BY <1>1, <3>1
      <3>3. stack[k] = Layered(stack[k - 1],
                         ImportError(fs, f, fs.content[f].imports[k]), children[k])
        <4>1. stack[k] = Layer(fs, f, children, stack, k)
          BY <1>2, <2>1 DEF IsStack
        <4> QED
          BY <2>3, <4>1 DEF Layer
      <3>4. flat[k] = flat[k - 1] \o orders[k]
        BY <1>1, <1>3, <3>1 DEF Flattens
      <3>5. PICK F, G : /\ F = flat[k - 1] /\ G = orders[k]
                        /\ F \in Seq(DOMAIN fs.content)
                        /\ G \in Seq(DOMAIN fs.content)
        BY <1>1, <1>4, <3>1, ElementOfSeq
      <3>6. PICK r, q, w : /\ r = stack[k - 1] /\ q = children[k]
                           /\ w = ImportError(fs, f, fs.content[f].imports[k])
        OBVIOUS
      <3>7. Built(fs, Layered(r, w, q), F \o G)
        BY <3>2, <3>5, <3>6, LayeredBuilt
      <3>8. Built(fs, stack[k], flat[k])
        BY <3>3, <3>4, <3>5, <3>6, <3>7
      <3> QED
        BY <2>1, <3>8
    <2> QED
      BY <2>2, <2>3
  <1>6. n \in 0 .. n
    OBVIOUS
  <1> QED
    BY <1>2, <1>3, <1>5, <1>6

(* A node of the walk is built from the files in the order below it.       *)
LEMMA ResolvedBuilt ==
  ASSUME NEW fs, IsTree(fs), NEW path \in Paths(fs), NEW children, NEW orders,
         Len(path) <= MaxImportDepth + 1 =>
           /\ orders \in Seq(Seq(DOMAIN fs.content))
           /\ Len(orders) = Len(fs.content[Last(path)].imports)
           /\ \A i \in 1 .. Len(fs.content[Last(path)].imports) :
                Built(fs, children[i], orders[i])
  PROVE  Built(fs, Resolved(fs, path, children), Ordered(fs, path, orders))
  <1>1. PICK f : f = Last(path)
    OBVIOUS
  <1>2. PICK own : own = ParsePolicy(fs.content[f].policy)
    OBVIOUS
  <1>3. PICK above : above = Inherited(fs, f, children)
    OBVIOUS
  <1>4. PICK r : r = Resolved(fs, path, children)
    OBVIOUS
  <1>5. /\ f \in DOMAIN fs.content /\ IsPolicy(fs.content[f].policy)
        /\ Len(fs.content[f].imports) \in Nat
    BY <1>1, PathFacts DEF IsTree
  <1>6. SUFFICES ASSUME r.err = "none"
                 PROVE  Built(fs, r, Ordered(fs, path, orders))
    BY <1>4 DEF Built
  <1>7. /\ OpenError(fs, path) = "none" /\ own.err = "none"
        /\ \/ r = own /\ fs.content[f].imports = <<>>
           \/ /\ above.err = "none"
              /\ r = Loaded(ApplyDefaults(MergePolicy(above.policy, own.policy)))
    BY <1>1, <1>2, <1>3, <1>4, <1>6 DEF Resolved, Failed
  <1>8. Len(path) <= MaxImportDepth + 1
    <2>1. ~(Len(path) > MaxImportDepth + 1)
      BY <1>7 DEF OpenError
    <2> QED
      BY <2>1, PathFacts DEF MaxImportDepth
  <1>9. /\ orders \in Seq(Seq(DOMAIN fs.content))
        /\ Len(orders) = Len(fs.content[f].imports)
        /\ \A i \in 1 .. Len(fs.content[f].imports) :
             Built(fs, children[i], orders[i])
    BY <1>1, <1>8
  <1>10. PICK F, G : /\ F = FlattenSeq(orders) /\ G = <<f>>
                     /\ Ordered(fs, path, orders) = F \o G
                     /\ F \in Seq(DOMAIN fs.content)
                     /\ G \in Seq(DOMAIN fs.content)
    BY <1>1, <1>5, <1>7, <1>9, FlattenElements, SingleElement DEF Ordered
  <1>11. PICK p : p = own.policy
    OBVIOUS
  <1>12. Parsed(p) /\ p = ApplyDefaults(fs.content[f].policy)
    BY <1>2, <1>5, <1>7, <1>11, ParseGives DEF Loaded
  <1>13. Parsable(p) /\ Settled(p) /\ p.decision # "" /\ p.format # ""
    BY <1>12, ParsedParsable DEF Settled, Decisions
  <1>14. Given(fs, G) = <<p>>
    <2>1. PICK g : g = Given(fs, G)
      OBVIOUS
    <2>2. Len(G) = 1 /\ G[1] = f
      BY <1>10
    <2>3. 1 \in 1 .. 1
      OBVIOUS
    <2>4. g \in Seq(Given1(fs)) /\ Len(g) = 1 /\ g[1] = p
      BY <1>10, <1>12, <2>1, <2>2, <2>3, GivenFacts
    <2>5. g = <<p>>
      BY <2>4
    <2> QED
      BY <2>1, <2>5
  <1>15. Wins(p, <<p>>)
    BY <1>13, WinsOne DEF Parsable
  <1>16. Built(fs, own, G)
    BY <1>11, <1>13, <1>14, <1>15 DEF Built
  <1>17. CASE r = own /\ fs.content[f].imports = <<>>
    <2>1. orders = <<>>
      <3>1. Len(<<>>) = 0
        OBVIOUS
      <3> QED
        BY <1>9, <1>17, <3>1, EmptySeq
    <2>2. F = <<>>
      <3>1. PICK flat : Flattens(flat, orders) /\ FlattenSeq(orders) = flat[Len(orders)]
        BY <1>9, FlattenFacts
      <3> QED
        BY <1>10, <2>1, <3>1 DEF Flattens
    <2>3. F \o G = G
      BY <1>10, <2>2
    <2> QED
      BY <1>10, <1>16, <1>17, <2>3
  <1>18. CASE ~(r = own /\ fs.content[f].imports = <<>>)
    <2>1. PICK m : m = MergePolicy(above.policy, p)
      OBVIOUS
    <2>2. above.err = "none" /\ r = Loaded(ApplyDefaults(m))
      BY <1>7, <1>11, <1>18, <2>1
    <2>3. Built(fs, above, F)
      BY <1>3, <1>5, <1>9, <1>10, InheritedBuilt
    <2>4. Built(fs, Loaded(m), F \o G)
      BY <1>7, <1>10, <1>11, <1>16, <2>1, <2>2, <2>3, BuiltMerge
    <2>5. Parsable(m) /\ Settled(m)
      BY <2>4 DEF Built, Loaded
    <2>6. m.decision # "" /\ m.format # ""
      <3>1. IsPolicy(above.policy) /\ IsPolicy(p)
        BY <1>13, <2>2, <2>3 DEF Built, Parsable
      <3>2. Merged(above.policy, p, m)
        BY <2>1, <3>1, MergeFields
      <3> QED
        BY <1>13, <3>2 DEF Merged, Later
    <2>7. ApplyDefaults(m) = m
      BY <2>5, <2>6, DefaultsAbsent DEF Parsable, Complete
    <2> QED
      BY <1>10, <2>2, <2>4, <2>7
  <1> QED
    BY <1>7, <1>17, <1>18

(* The policy that LoadFile returns is what the policies of its files make *)
(* when they are laid one over the other in the order of the walk: at each *)
(* setting the last file that sets it counts (loadResolved, mergePolicy).  *)
THEOREM LayersWin ==
  ASSUME NEW fs, IsTree(fs), NEW order, IsWalk(order, "order", fs),
         LoadFile(fs).err = "none"
  PROVE  /\ order[<<fs.root>>] \in Seq(DOMAIN fs.content)
         /\ Wins(LoadFile(fs).policy, Given(fs, order[<<fs.root>>]))
  <1>1. PICK load : IsWalk(load, "load", fs) /\ LoadFile(fs) = load[<<fs.root>>]
    BY LoadWalk
  <1> DEFINE Wrong == {q \in Paths(fs) : ~Built(fs, load[q], order[q])}
  <1>2. ASSUME NEW q \in Wrong
        PROVE  /\ Len(q) <= MaxImportDepth + 1
               /\ \E i \in 1 .. Len(fs.content[Last(q)].imports) :
                    Append(q, fs.content[Last(q)].imports[i].to) \in Wrong
    <2>1. PICK children, orders : /\ children = Children(fs, q, load)
                                  /\ orders = Children(fs, q, order)
      OBVIOUS
    <2>2. load[q] = Resolved(fs, q, children) /\ order[q] = Ordered(fs, q, orders)
      BY <1>1, <1>2, <2>1 DEF IsWalk, Node
    <2>3. PICK imports : imports = fs.content[Last(q)].imports
      OBVIOUS
    <2>4. /\ Last(q) \in DOMAIN fs.content /\ Len(imports) \in Nat
          /\ \A i \in 1 .. Len(imports) : imports[i].to \in DOMAIN fs.content
      BY <2>3, PathFacts, ImportFacts
    <2>5. SUFFICES ASSUME Len(q) <= MaxImportDepth + 1 =>
                            \A i \in 1 .. Len(imports) :
                              Append(q, imports[i].to) \notin Wrong
                   PROVE  FALSE
      BY <2>3
    <2>6. ASSUME Len(q) <= MaxImportDepth + 1
          PROVE  /\ orders \in Seq(Seq(DOMAIN fs.content))
                 /\ Len(orders) = Len(imports)
                 /\ \A i \in 1 .. Len(imports) : Built(fs, children[i], orders[i])
      <3>1. PICK n \in Nat : n = Len(imports)
        BY <2>4
      <3>2. \A i \in 1 .. n : Append(q, imports[i].to) \in Paths(fs)
        BY <2>4, <2>6, <3>1, PathFacts
      <3>3. \A i \in 1 .. n :
              /\ children[i] = load[Append(q, imports[i].to)]
              /\ orders[i] = order[Append(q, imports[i].to)]
        BY <2>1, <2>3, <3>1 DEF Children
      <3>4. orders \in [1 .. n -> Seq(DOMAIN fs.content)]
        <4>1. orders = [i \in 1 .. n |-> order[Append(q, imports[i].to)]]
          BY <2>1, <2>3, <3>1 DEF Children
        <4>2. \A i \in 1 .. n :
                order[Append(q, imports[i].to)] \in Seq(DOMAIN fs.content)
          BY <3>2, OrderFiles
        <4> QED
          BY <4>1, <4>2
      <3>5. orders \in Seq(Seq(DOMAIN fs.content)) /\ Len(orders) = n
        BY <3>4, FcnLen
      <3>6. \A i \in 1 .. n : Built(fs, children[i], orders[i])
        BY <2>5, <2>6, <3>1, <3>2, <3>3
      <3> QED
        BY <3>1, <3>5, <3>6
    <2>7. Built(fs, load[q], order[q])
      BY <2>2, <2>3, <2>6, ResolvedBuilt
    <2> QED
      BY <2>7
  <1>3. Wrong \in SUBSET Paths(fs)
    OBVIOUS
  <1>4. Wrong = {}
    <2> HIDE DEF Wrong
    <2> QED
      BY <1>2, <1>3, WalkInduction
  <1>5. Built(fs, load[<<fs.root>>], order[<<fs.root>>])
    BY <1>4, RootPath
  <1>6. order[<<fs.root>>] \in Seq(DOMAIN fs.content)
    BY RootPath, OrderFiles
  <1> QED
    BY <1>1, <1>5, <1>6 DEF Built

(* The last of n that has a property, I being those that have it.          *)
LastOf(I) == IF I # {} THEN Max(I) ELSE 0

(* The last set value is that of the greatest index that sets one.         *)
LEMMA LastSetIs ==
  ASSUME NEW s, NEW n \in Nat, n = Len(s), NEW v, NEW unset,
         LastSet(v, unset, s), NEW I, I = {i \in 1 .. n : s[i] # unset}
  PROVE  v = IF LastOf(I) = 0 THEN unset ELSE s[LastOf(I)]
  <1>1. CASE I = {}
    <2>1. LastOf(I) = 0
      BY <1>1 DEF LastOf
    <2>2. \A i \in 1 .. n : s[i] = unset
      BY <1>1
    <2> QED
      BY <2>1, <2>2 DEF LastSet
  <1>2. CASE I # {}
    <2>1. PICK j : j = LastOf(I) /\ j \in I /\ \A i \in I : i <= j
      <3>1. I \in SUBSET (1 .. n)
        OBVIOUS
      <3>2. Max(I) \in I /\ \A i \in I : i <= Max(I)
        BY <1>2, <3>1, MaxIndex
      <3> QED
        BY <1>2, <3>2 DEF LastOf
    <2>2. j \in 1 .. n /\ s[j] # unset
      BY <2>1
    <2>3. PICK i \in 1 .. n : /\ s[i] # unset /\ v = s[i]
                              /\ \A k \in 1 .. n : k > i => s[k] = unset
      BY <2>2 DEF LastSet
    <2>4. i <= j /\ ~(j > i)
      BY <2>1, <2>2, <2>3
    <2>5. i = j /\ j # 0
      BY <2>2, <2>4
    <2> QED
      BY <2>1, <2>3, <2>5
  <1> QED
    BY <1>1, <1>2

(* A key's last value is that of the greatest index that has the key.      *)
LEMMA KeysLastIs ==
  ASSUME NEW s, NEW n \in Nat, n = Len(s), NEW f, KeysLast(f, s),
         NEW k \in DOMAIN f, NEW I, I = {i \in 1 .. n : k \in DOMAIN s[i]}
  PROVE  f[k] = s[LastOf(I)][k] /\ LastOf(I) \in 1 .. n
  <1>1. PICK i \in 1 .. n : /\ k \in DOMAIN s[i] /\ f[k] = s[i][k]
                            /\ \A j \in 1 .. n : j > i => k \notin DOMAIN s[j]
    BY DEF KeysLast
  <1>2. PICK j : j = LastOf(I) /\ j \in I /\ \A h \in I : h <= j
    <2>1. I \in SUBSET (1 .. n) /\ I # {}
      BY <1>1
    <2>2. Max(I) \in I /\ \A h \in I : h <= Max(I)
      BY <2>1, MaxIndex
    <2> QED
      BY <2>1, <2>2 DEF LastOf
  <1>3. j \in 1 .. n /\ i <= j /\ ~(j > i)
    BY <1>1, <1>2
  <1>4. i = j
    BY <1>3
  <1> QED
    BY <1>1, <1>2, <1>4
=============================================================================
