--------------------------- MODULE MCBoundApproval ---------------------------
(* BoundApproval on calls that differ in their arguments, their id or how  *)
(* exact they are, and an engine whose policy turns stricter or invalid.   *)
EXTENDS BoundApproval

CONSTANTS r1, e1, e2

Symmetric == Permutations({e1, e2})

Value(t) == [text |-> t, string |-> TRUE, nil |-> FALSE, exact |-> TRUE]

Read(mode) == [id |-> "c", tool |-> "fs", args |-> "mode" :> Value(mode)]

MCCalls ==
  {Read("low"), Read("high"),
   [Read("low") EXCEPT !.id = ""],
   [Read("low") EXCEPT !.args["mode"].exact = FALSE]}

Rules(d) ==
  [ZeroPolicy EXCEPT !.version = "0.1",
     !.tools = "fs" :> [PlainRule(d) EXCEPT
                          !.args = "mode" :> [allow |-> {}, deny |-> {"high"}]]]

MCSources ==
  {[policy |-> Rules("ask"), resolved |-> TRUE],
   [policy |-> [Rules("ask") EXCEPT !.tools["fs"].args = <<>>],
    resolved |-> TRUE],
   [policy |-> Rules("ask"), resolved |-> FALSE]}

MCText ==
  [t \in {"", "low", "high"} |->
     [clean |-> t, unsafe |-> FALSE, url |-> "plain", executable |-> t, size |-> 4]]

MCGlobs == {<<t, t>> : t \in DOMAIN MCText \union {"fs"}}

MCNameOrder == <<"fs", "mode">>
===============================================================================
