--------------------------- MODULE MCCheckCommand ---------------------------
(* CheckCommand on three families of jobs: trees of policy files, calls    *)
(* under rules of every kind, and inputs of three lines with a sink.       *)
EXTENDS CheckCommand

MCNameOrder == <<"*", "env", "fs.*", "fs.read", "fs.write", "kv", "mem", "mode",
                 "readers", "sh", "web", "writers">>

-------------------------------------------------------------------------------
(* Texts and patterns.                                                     *)

Plain(t) == [clean |-> t, unsafe |-> FALSE, url |-> "plain",
              executable |-> t, size |-> 4]

MCText ==
  "src/../.env" :> [Plain("") EXCEPT !.clean = ".env"]
    @@ "/etc" :> [Plain("/etc") EXCEPT !.unsafe = TRUE, !.url = "invalid"]
    @@ "word" :> [Plain("word") EXCEPT !.url = "invalid"]
    @@ "file://h/x" :> [Plain("") EXCEPT !.url = "file"]
    @@ "http://10.0.0.1" :> [Plain("") EXCEPT !.url = "ip"]
    @@ "ls -l" :> [Plain("") EXCEPT !.executable = "ls"]
    @@ "rm -r" :> [Plain("") EXCEPT !.executable = "rm"]
    @@ " " :> [Plain(" ") EXCEPT !.executable = ""]
    @@ "long" :> [Plain("long") EXCEPT !.size = 9]
    @@ [t \in {"", "src/a", ".env", "doc", "https://a", "https://b", "note",
               "key", "global", "session", "galaxy", "low", "high", "odd", "7", "<nil>"}
          |-> Plain(t)]

MCGlobs ==
  {<<t, t>> : t \in DOMAIN MCText \union ToSet(MCNameOrder)}
    \union {<<"fs.*", "fs.read">>, <<"fs.*", "fs.write">>, <<"src/**", "src/a">>,
            <<"https://*", "https://a">>, <<"https://*", "https://b">>,
            <<"rm*", "rm -r">>}
    \union {<<"*", n>> : n \in ToSet(MCNameOrder)}

Arg(t) == [text |-> t, string |-> TRUE, nil |-> FALSE, exact |-> TRUE]

Number(t) == [Arg(t) EXCEPT !.string = FALSE]

Null == [Number("<nil>") EXCEPT !.nil = TRUE]

Inexact == [Number("7") EXCEPT !.exact = FALSE]

Call(t, a) == [form |-> "call", call |-> [id |-> "c", tool |-> t, args |-> a]]

Bad == [form |-> "bad", call |-> <<>>]

Job(fs, lines) ==
  [fs |-> fs, lines |-> lines, failOn |-> {}, dryRun |-> FALSE,
   noInteractive |-> TRUE, timeout |-> FALSE, sink |-> FALSE, summary |-> FALSE]

-------------------------------------------------------------------------------
(* Trees of files: what a file may set, and what may be wrong with it.     *)

V1 == [ZeroPolicy EXCEPT !.version = "0.1"]

Secret == [compiles |-> TRUE, matches |-> {"key"}]

Good ==
  {V1,
   [V1 EXCEPT !.decision = "allow", !.tools = "fs.read" :> PlainRule("allow"),
              !.taint = TRUE, !.mode = "deny", !.minLength = 4,
              !.patterns = <<Secret>>],
   [V1 EXCEPT !.version = "0.2", !.mode = "deny", !.minLength = 20,
              !.tools = "fs.read" :> PlainRule("deny")
                          @@ "readers" :> PlainRule("allow"),
              !.groups = "readers" :> <<"fs.read">>, !.redact = TRUE],
   [V1 EXCEPT !.decision = "ask", !.taint = TRUE, !.include = TRUE,
              !.format = "jsonl", !.groups = "readers" :> <<"fs.*">>,
              !.patterns = <<[Secret EXCEPT !.matches = {"note"}]>>]}

Wrong ==
  {ZeroPolicy,
   [V1 EXCEPT !.decision = "maybe"], [V1 EXCEPT !.format = "csv"],
   [V1 EXCEPT !.mode = "shrug"], [V1 EXCEPT !.minLength = -1],
   [V1 EXCEPT !.taint = TRUE, !.minLength = -1],
   [V1 EXCEPT !.tools = "kv" :> PlainRule("")],
   [V1 EXCEPT !.tools =
      "mem" :> [PlainRule("ask") EXCEPT !.memory.scope = "galaxy"]],
   [V1 EXCEPT !.patterns = <<[Secret EXCEPT !.compiles = FALSE]>>]}

File(p, i) == [form |-> "policy", policy |-> p, imports |-> i]

Import(f) == [form |-> "relative", to |-> f]

NoFile(form) == [form |-> form, policy |-> ZeroPolicy, imports |-> <<>>]

Tree(content) ==
  [root |-> "root", content |-> content,
   dir |-> [f \in DOMAIN content |->
              IF f = "outside" THEN <<>>
              ELSE IF f = "below" THEN <<"p", "q">> ELSE <<"p">>]]

Alone(p) == Tree("root" :> File(p, <<>>))

Siblings ==
  {Tree("root" :> File(p, <<Import("a"), Import("b")>>)
          @@ "a" :> File(q, <<>>) @@ "b" :> File(r, <<>>)) :
     p \in Good, q \in Good \union Wrong, r \in Good}

Diamonds ==
  {Tree("root" :> File(V1, <<Import("a"), Import("below")>>)
          @@ "a" :> File(p, <<Import("c")>>)
          @@ "below" :> File(q, <<Import(f)>>)
          @@ "c" :> File(r, <<>>)
          @@ "d" :> File(r, <<>>)) :
     p \in Good, q \in Good, r \in Good, f \in {"below", "c"}}

Shared ==
  {Tree("root" :> File(V1, <<Import("a"), Import("b")>>)
          @@ "a" :> File(p, <<Import("c")>>) @@ "b" :> File(q, <<Import("c")>>)
          @@ "c" :> File(r, <<>>)) :
     p \in Good, q \in Good, r \in Good}

(* The fourth level is one too many.                                       *)
Chain(last) ==
  Tree("root" :> File(V1, <<Import("a")>>) @@ "a" :> File(V1, <<Import("b")>>)
         @@ "b" :> File(V1, <<Import("c")>>)
         @@ "c" :> File(V1, IF last THEN <<Import("d")>> ELSE <<>>)
         @@ "d" :> File(V1, <<>>))

Others ==
  {Chain(TRUE), Chain(FALSE),
   Tree("root" :> File(V1, <<Import("a")>>) @@ "a" :> File(V1, <<Import("root")>>))}
    \union {Tree("root" :> File(V1, <<Import("a"), i>>)
                   @@ "a" :> File(V1, <<>>) @@ "outside" :> File(V1, <<>>)
                   @@ "below" :> NoFile("missing") @@ "b" :> NoFile("malformed")) :
              i \in {Import("outside"), Import("below"), Import("b"),
                     [form |-> "empty", to |-> "a"],
                     [form |-> "absolute", to |-> "a"]}}

TreeJobs ==
  {Job(fs, <<Call("fs.read", <<>>)>>) :
     fs \in Siblings \union Diamonds \union Shared \union Others}

-------------------------------------------------------------------------------
(* Rules of every kind, and which rule a tool falls under.                 *)

Lists(a, d) == [allow |-> a, deny |-> d]

Constrained ==
  [V1 EXCEPT !.patterns = <<Secret>>, !.tools =
    "fs.read" :> [PlainRule("allow") EXCEPT
                    !.paths = Lists({"src/**", ".env"}, {".env"})]
      @@ "fs.write" :> PlainRule("ask")
      @@ "kv" :> [PlainRule("allow") EXCEPT
                    !.args = "env" :> Lists({"doc", "7"}, {})
                               @@ "mode" :> Lists({}, {"odd"})]
      @@ "web" :> [PlainRule("allow") EXCEPT
                     !.urls = Lists({"https://*"}, {"https://b"})]
      @@ "sh" :> [PlainRule("ask") EXCEPT
                    !.command = [executables |-> {"ls", "rm"}, deny |-> {"rm*"}]]
      @@ "mem" :> [PlainRule("allow") EXCEPT
                     !.memory = [scope |-> "project", sensitivity |-> "medium",
                                 bytes |-> 8, fields |-> <<>>]]]

Maybe(name, values) ==
  {<<>>} \union {name :> v : v \in values}

ConstrainedCalls ==
  {Call(t, a) : t \in {"fs.read", "fs.write"},
                a \in Maybe("path", {Arg("src/a"), Arg("src/../.env"), Arg("/etc"),
                                     Arg("doc"), Arg(""), Number("7")})}
    \union {Call("kv", a @@ b) : a \in Maybe("env", {Arg("doc"), Number("7"),
                                                     Null, Arg("odd"), Inexact}),
                                 b \in Maybe("mode", {Arg("odd"), Arg("low")})}
    \union {Call("web", a) : a \in Maybe("url", {Arg(u) : u \in
              {"https://a", "https://b", "word", "file://h/x",
               "http://10.0.0.1", ""}} \union {Number("7")})}
    \union {Call("sh", a) : a \in Maybe("command", {Arg(c) : c \in
              {"ls -l", "rm -r", " ", "doc", ""}})}
    \union {Call("mem", a @@ b @@ c) :
              a \in Maybe("scope", {Arg("session"), Arg("global"), Arg("galaxy"),
                                    Number("7")}),
              b \in Maybe("content", {Arg("note"), Arg("key"), Arg("long")}),
              c \in Maybe("sensitivity", {Arg("low"), Arg("high"), Arg("odd"),
                                          Number("7")})}

Rules(keys) == [k \in keys |-> PlainRule(IF k = "*" THEN "deny" ELSE "allow")]

Routing ==
  {[V1 EXCEPT !.tools = Rules(keys), !.groups = g] :
     keys \in SUBSET {"*", "fs.*", "fs.read", "readers", "writers"},
     g \in {<<>>, "readers" :> <<"fs.read">>,
            "readers" :> <<"kv", "fs.*">> @@ "writers" :> <<"fs.*">>}}

EngineJobs ==
  {Job(Alone(Constrained), <<c>>) : c \in ConstrainedCalls}
    \union {Job(Alone(p), <<Call(t, <<>>)>>) :
              p \in Routing, t \in {"fs.read", "fs.write", "web"}}

-------------------------------------------------------------------------------
(* Whole runs.                                                             *)

Mixed == [V1 EXCEPT !.tools = "fs.read" :> PlainRule("allow")
                                @@ "fs.write" :> PlainRule("ask")]

(* Allowed, asked about, denied by default, and no call at all.            *)
Inputs == {Call("fs.read", <<>>), Call("fs.write", <<>>), Call("web", <<>>), Bad}

RunJobs ==
  {[Job(Alone(Mixed), lines) EXCEPT
      !.failOn = {f}, !.dryRun = (mode = "dry_run"),
      !.noInteractive = (mode = "denied"), !.timeout = (mode = "asked"),
      !.sink = (f = "ask"), !.summary = (mode # "asked")] :
     lines \in UNION {[1 .. k -> Inputs] : k \in {0, 3}},
     f \in {"deny", "ask"}, mode \in {"asked", "denied", "dry_run"}}
    \union {[Job(Alone(Mixed), <<Call("fs.write", <<>>)>>) EXCEPT
               !.noInteractive = FALSE]}

MCJobs == TreeJobs \union EngineJobs \union RunJobs
===============================================================================
