----------------------------- MODULE MCHTTPProxy -----------------------------
(* HTTPProxy on a small instance: one tool of each static decision.        *)
EXTENDS HTTPProxy, TLC

CONSTANTS read, write, exec   \* tools the policy allows, asks about, denies
CONSTANTS v1                  \* a value long enough to be tracked

MCTools == {read, write, exec}

MCStatic == read :> "allow" @@ write :> "ask" @@ exec :> "deny"

Call(t, v) == [kind |-> "call", tool |-> t, arg |-> v]

Bad == [kind |-> "malformed", tool |-> None, arg |-> None]

Request(f, m) == [form |-> f, members |-> m, token |-> TRUE]

(* Lone calls, and batches whose second member is reached, or not.         *)
MCBodies ==
  {Request("call", <<Call(t, v1)>>) : t \in MCTools}
    \union {Request("call", <<Bad>>),
            Request("batch", <<Call(read, v1), Call(write, v1)>>),
            Request("batch", <<Call(exec, v1), Call(read, v1)>>),
            Request("batch", <<Call(write, v1), Bad>>),
            [Request("get", <<>>) EXCEPT !.token = FALSE],
            Request("unparsed", <<>>), Request("oversize", <<>>)}

(* A call the operator is asked about, alone or in a batch.                *)
MCAsks == {Request("call", <<Call(write, v1)>>),
           Request("batch", <<Call(write, v1)>>)}

(* Reads only, for the order of streaming and observing.                   *)
MCReads == {Request("call", <<Call(read, v1)>>)}

Config(t, n, h, b, s) ==
  [taint |-> t, noInteractive |-> n, timeout |-> h, onBatch |-> b,
   onUnparsed |-> "reject", auth |-> n, sink |-> s]

(* An attended proxy that escalates and evaluates batches, with a sink;    *)
(* an unattended one that denies and refuses them, with a bearer token.    *)
MCConfigs == {Config("escalate", FALSE, TRUE, "evaluate", TRUE),
              Config("deny", TRUE, FALSE, "reject", FALSE)}

MCAttended == {Config("off", FALSE, TRUE, "evaluate", FALSE)}

MCTainting == {Config("deny", TRUE, FALSE, "reject", FALSE)}
===============================================================================
