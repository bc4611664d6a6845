---------------------------- MODULE MCLLMGateway ----------------------------
(***************************************************************************)
(* Instances of LLMGateway for TLC.                                        *)
(***************************************************************************)
EXTENDS LLMGateway, TLC

CONSTANTS none, g, q, q2, eg, eq, eq2

\* as in config.py with one gpt-oss model; the judge's list repeats its primary
Chains == "planner" :> <<"oss", "flash", "qwen">> @@ "judge" :> <<"flash", "oss", "flash">>
Families == "oss" :> "groq" @@ "qwen" :> "qwen" @@ "flash" :> "gemini"

Keyring(a, b, c) == "google" :> a @@ "groq" :> b @@ "groq_secondary" :> c

\* own keys and the environment's: all of its own; Gemini or Groq only, with
\* what the environment adds; Groq only
MCConfigurations ==
  {[own |-> Keyring(g, q, q2), env |-> Keyring(none, none, none)],
   [own |-> Keyring(g, none, none), env |-> Keyring(eg, eq, none)],
   [own |-> Keyring(none, q, none), env |-> Keyring(none, none, eq2)],
   [own |-> Keyring(none, q, none), env |-> Keyring(none, none, none)]}

\* priced; priced below a unit; not priced, with few tokens and without any
MCReplies ==
  {[price |-> 1600, input |-> 3, output |-> 1], [price |-> 0, input |-> 1, output |-> 0],
   [price |-> 0, input |-> 0, output |-> 0]}
=============================================================================
