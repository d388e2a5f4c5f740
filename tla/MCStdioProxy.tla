----------------------------- MODULE MCStdioProxy -----------------------------
(* StdioProxy on a small instance: one tool of each static decision.       *)
EXTENDS StdioProxy, TLC

CONSTANTS read, write, exec   \* tools the policy allows, asks about, denies

MCTools == {read, write, exec}

MCStatic == read :> "allow" @@ write :> "ask" @@ exec :> "deny"

Config(t, n, h) == [taint |-> t, noInteractive |-> n, timeout |-> h]

(* An attended proxy that escalates, an unattended one that denies.        *)
MCConfigs == {Config("escalate", FALSE, TRUE), Config("deny", TRUE, FALSE)}

(* Prompts that end by themselves.                                         *)
MCBounded == {Config("escalate", FALSE, TRUE)}
===============================================================================
