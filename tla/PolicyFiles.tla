---------------------------- MODULE PolicyFiles ----------------------------
(***************************************************************************)
(* Policy files, internal/policy/policy.go: parsing, the walk over         *)
(* imports, the merge of the files met on the way, and the stricter walk   *)
(* of `agentfence validate'.                                               *)
(*                                                                         *)
(* A tree of files is a record fs: fs.dir[f] is the directory of file f,   *)
(* as a sequence of names, and fs.content[f] what the file holds.  A file  *)
(* is named by its canonical path, so an import is the file it leads to    *)
(* once joined to the importer's directory and freed of symbolic links.    *)
(***************************************************************************)
EXTENDS Integers, Sequences, SequencesExt, TLC

MaxImportDepth == 3

Decisions == {"allow", "deny", "ask"}

MemoryScopes == <<"session", "project", "global">>

MemorySensitivities == <<"low", "medium", "high">>

(* The rank of x in seq, -1 when it is not there.                          *)
Rank(seq, x) == SelectInSeq(seq, LAMBDA y : y = x) - 1

NoLists == [allow |-> {}, deny |-> {}]

NoMemory == [scope |-> "", sensitivity |-> "", bytes |-> 0, fields |-> <<>>]

(* A rule without constraints.                                             *)
PlainRule(d) ==
  [decision |-> d, paths |-> NoLists, args |-> <<>>, urls |-> NoLists,
   command |-> [executables |-> {}, deny |-> {}], memory |-> NoMemory]

(* The zero Policy: what a file says that sets nothing.  Its imports are   *)
(* kept beside it.                                                         *)
ZeroPolicy ==
  [version |-> "", decision |-> "", format |-> "", mode |-> "",
   minLength |-> 0, tools |-> <<>>, groups |-> <<>>, patterns |-> <<>>,
   redact |-> FALSE, include |-> FALSE, taint |-> FALSE]

(* p has the fields of the struct Policy, with any texts.                   *)
IsPolicy(p) ==
  /\ p = [field \in DOMAIN ZeroPolicy |-> p[field]]
  /\ p.minLength \in Int
  /\ \A field \in {"redact", "include", "taint"} : p[field] \in BOOLEAN
  /\ p.tools = [k \in DOMAIN p.tools |-> p.tools[k]]
  /\ p.groups \in [DOMAIN p.groups -> Seq(STRING)]
  /\ \A k \in DOMAIN p.tools : p.tools[k].memory.bytes \in Int
  /\ p.patterns \in Seq([compiles : BOOLEAN, matches : SUBSET STRING])

(* The names p gives to tools, groups and arguments.                       *)
Names(p) ==
  DOMAIN p.tools \union DOMAIN p.groups
    \union UNION {DOMAIN p.tools[k].args : k \in DOMAIN p.tools}

(* A tree of files, an import naming the file it leads to.                 *)
IsTree(fs) ==
  /\ fs.root \in DOMAIN fs.content
  /\ \A f \in DOMAIN fs.content :
       /\ IsPolicy(fs.content[f].policy)
       /\ fs.content[f].imports
            \in Seq([form : {"relative", "empty", "absolute"},
                     to : DOMAIN fs.content])

-------------------------------------------------------------------------------
(* One file.                                                               *)

ApplyDefaults(p) ==
  [p EXCEPT !.decision = IF @ = "" THEN "deny" ELSE @,
            !.format = IF @ = "" THEN "jsonl" ELSE @,
            !.mode = IF p.taint /\ @ = "" THEN "escalate" ELSE @,
            !.minLength = IF p.taint /\ @ <= 0 THEN 12 ELSE @]

ValidMemory(m) ==
  /\ m.scope # "" => Rank(MemoryScopes, m.scope) >= 0
  /\ m.sensitivity # "" => Rank(MemorySensitivities, m.sensitivity) >= 0
  /\ m.bytes >= 0

ValidRules(p) ==
  \A k \in DOMAIN p.tools : /\ p.tools[k].decision \in Decisions
                            /\ ValidMemory(p.tools[k].memory)

ValidTaint(p) == p.mode \in {"", "escalate", "deny"} /\ p.minLength >= 0

(* redact.New compiles every pattern of the policy, enabled or not.        *)
Compiles(p) == \A i \in 1 .. Len(p.patterns) : p.patterns[i].compiles

Loaded(p) == [err |-> "none", policy |-> p]

Failed(e) == [err |-> e, policy |-> ZeroPolicy]

ParsePolicy(p) ==
  LET d == ApplyDefaults(p)
  IN  IF /\ d.decision \in Decisions
         /\ ValidRules(d)
         /\ d.format = "jsonl"
         /\ ValidTaint(d)
      THEN Loaded(d)
      ELSE Failed("parse")

(* ValidateStrict looks at the file as it is written, and asks more of it: *)
(* a version, patterns that compile, a threshold that is not negative even *)
(* where the default would replace it.                                     *)
StrictErrors(p) ==
  LET wrong == [version |-> p.version = "",
                decision |-> p.decision \notin Decisions \union {""},
                tools |-> ~ValidRules(p),
                patterns |-> ~Compiles(p),
                format |-> p.format \notin {"", "jsonl"},
                taint |-> ~ValidTaint(p)]
  IN  {field \in DOMAIN wrong : wrong[field]}

-------------------------------------------------------------------------------
(* Imports.                                                                *)

(* What is wrong with an import of file f before the file it names is      *)
(* opened: it is empty, it is absolute, or it leads out of f's directory.  *)
ImportError(fs, f, imp) ==
  IF imp.form # "relative" THEN imp.form
  ELSE IF ~IsPrefix(fs.dir[f], fs.dir[imp.to]) THEN "escapes"
  ELSE "none"

(* The keys of both maps, those of g winning.                              *)
Overlaid(f, g) ==
  [k \in DOMAIN f \union DOMAIN g |-> IF k \in DOMAIN g THEN g[k] ELSE f[k]]

(* Defect: the keys of the base win.                                       *)
MergePolicyBaseWins(base, overlay) ==
  LET Set(field) == IF overlay[field] # "" THEN overlay[field] ELSE base[field]
  IN  [version |-> Set("version"), decision |-> Set("decision"),
       format |-> Set("format"), mode |-> Set("mode"),
       minLength |-> IF overlay.minLength > 0 THEN overlay.minLength
                                              ELSE base.minLength,
       tools |-> Overlaid(overlay.tools, base.tools),
       groups |-> Overlaid(overlay.groups, base.groups),
       patterns |-> base.patterns \o overlay.patterns,
       redact |-> base.redact \/ overlay.redact,
       include |-> base.include \/ overlay.include,
       taint |-> base.taint \/ overlay.taint]

(* overlay is layered on top of base.                                      *)
MergePolicy(base, overlay) ==
  LET Set(field) == IF overlay[field] # "" THEN overlay[field] ELSE base[field]
  IN  [version |-> Set("version"), decision |-> Set("decision"),
       format |-> Set("format"), mode |-> Set("mode"),
       minLength |-> IF overlay.minLength > 0 THEN overlay.minLength
                                              ELSE base.minLength,
       tools |-> Overlaid(base.tools, overlay.tools),
       groups |-> Overlaid(base.groups, overlay.groups),
       patterns |-> base.patterns \o overlay.patterns,
       redact |-> base.redact \/ overlay.redact,
       include |-> base.include \/ overlay.include,
       taint |-> base.taint \/ overlay.taint]

(* A walk is at the last file of a path of files, each imported by the one *)
(* before it; the files before the last are its stack.                     *)
Paths(fs) ==
  UNION {[1 .. n -> DOMAIN fs.content] : n \in 1 .. MaxImportDepth + 2}

(* What the walks meet before they can parse the file at the end of path.  *)
OpenError(fs, path) ==
  IF Len(path) > MaxImportDepth + 1 THEN "depth"
  ELSE IF \E i \in 1 .. Len(path) - 1 : path[i] = Last(path) THEN "cycle"
  ELSE IF fs.content[Last(path)].form # "policy"
       THEN fs.content[Last(path)].form
  ELSE "none"

(* One import, wrong if ImportError says so, on top of those before it.    *)
Layered(done, wrong, child) ==
  IF done.err # "none" THEN done
  ELSE IF wrong # "none" THEN Failed(wrong)
  ELSE IF child.err # "none" THEN child
  ELSE Loaded(MergePolicy(done.policy, child.policy))

(* The imports of file f, children being what the walk returned for them.  *)
Inherited(fs, f, children) ==
  LET imports == fs.content[f].imports
      inherited[i \in 0 .. Len(imports)] ==
        IF i = 0 THEN Loaded(ZeroPolicy)
        ELSE Layered(inherited[i - 1], ImportError(fs, f, imports[i]),
                     children[i])
  IN  inherited[Len(imports)]

(* loadResolved.                                                           *)
Resolved(fs, path, children) ==
  LET unopened == OpenError(fs, path)
      file == fs.content[Last(path)]
      own == ParsePolicy(file.policy)
      above == Inherited(fs, Last(path), children)
  IN  IF unopened # "none" THEN Failed(unopened)
      ELSE IF own.err # "none" \/ file.imports = <<>> THEN own
      ELSE IF above.err # "none" THEN above
      ELSE Loaded(ApplyDefaults(MergePolicy(above.policy, own.policy)))

(* What walk finds for each import of the file at the end of path.         *)
Children(fs, path, walk) ==
  LET imports == fs.content[Last(path)].imports
  IN  [i \in 1 .. Len(imports) |-> walk[Append(path, imports[i].to)]]

(* LoadFile on fs.root.  The walk stops at the first error.                *)
LoadFile(fs) ==
  LET load[path \in Paths(fs)] ==
        Resolved(fs, path, Children(fs, path, load))
  IN  load[<<fs.root>>]

(* Defect: only the named file is validated, not what it imports.          *)
ValidateFileStrictRoot(fs) == StrictErrors(fs.content[fs.root].policy)

(* validateFileStrict.  The walk goes on past the errors of an import and  *)
(* collects those of the next; it does not merge.                          *)
Errors(fs, path, children) ==
  LET unopened == OpenError(fs, path)
      f == Last(path)
      file == fs.content[f]
      own == StrictErrors(file.policy)
      Import(i) == LET wrong == ImportError(fs, f, file.imports[i])
                   IN  IF wrong # "none" THEN {wrong} ELSE children[i]
  IN  IF unopened # "none" THEN {unopened}
      ELSE IF own # {} THEN own
      ELSE IF ParsePolicy(file.policy).err # "none" THEN {"parse"}
      ELSE UNION {Import(i) : i \in 1 .. Len(file.imports)}

ValidateFileStrict(fs) ==
  LET strict[path \in Paths(fs)] ==
        Errors(fs, path, Children(fs, path, strict))
  IN  strict[<<fs.root>>]
===============================================================================
