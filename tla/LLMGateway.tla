----------------------------- MODULE LLMGateway -----------------------------
(***************************************************************************)
(* LiteLLMGatewayAdapter: a call for a role goes through the candidate     *)
(* models of the role in order, through the keys of each model, and        *)
(* through the attempts with each key, until a reply can be used.  The     *)
(* usage of that reply is added to cumulative_usage.  The adapter is used  *)
(* by one run here; RunMetering has several runs share one.                *)
(***************************************************************************)
EXTENDS Integers, Sequences

CONSTANTS
  Role,            \* LLMCallRole
  Chain,           \* the primary model of each role, then its fallback models
  Family,          \* which keys a model takes: "groq", "qwen", "gemini" or "other"
  NoKey,           \* an empty key
  Configurations,  \* the keys an adapter may have, its own and the environment's
  MaxRetries,      \* settings.llm_max_retries
  Replies,         \* what a reply may carry: price in 1e-9 USD, input and output tokens
  MaxCalls         \* bound: calls made

Provider == {"google", "groq", "groq_secondary"}

ASSUME ChainAssumption == \A r \in Role : Chain[r] \in Seq(DOMAIN Family)
ASSUME KeyAssumption ==
  \A c \in Configurations :
    /\ DOMAIN c = {"own", "env"}
    /\ c.own["google"] # NoKey \/ c.own["groq"] # NoKey
ASSUME RetryAssumption == MaxRetries \in Nat /\ MaxCalls \in Nat
ASSUME ReplyAssumption == Replies \subseteq [price : Nat, input : Nat, output : Nat]

VARIABLES
  keys,        \* the adapter's configuration
  stage,       \* where the call is
  role, form,  \* of the call: its role, and "text" or "structured"
  at,          \* the model and key in use, by position
  attempts,    \* failed attempts at each place of the call
  heard,       \* the last failure at each place
  cumulative,  \* cumulative_usage
  lost,        \* a reply with tokens was paid for since the last reset and not added
  calls        \* calls made

vars == <<keys, stage, role, form, at, attempts, heard, cumulative, lost, calls>>
callVars == <<role, form, at, attempts, heard>>
usageVars == <<cumulative, lost>>

-----------------------------------------------------------------------------
(***************************************************************************)
(* Usage, in tokens and 1e-6 USD.  What litellm does not price, or prices  *)
(* below half a unit, costs 0.15 USD per million input tokens and 0.60 per *)
(* million output tokens, and at least one unit.                           *)
(***************************************************************************)

Zero == [tokens |-> 0, cost |-> 0]
Plus(u, v) == [tokens |-> u.tokens + v.tokens, cost |-> u.cost + v.cost]
Rounded(nano) == (nano + 500) \div 1000

\* mutant: the smallest charge is missing
UsageUnrounded(reply) ==
  [tokens |-> reply.input + reply.output,
   cost |-> IF Rounded(reply.price) > 0 THEN Rounded(reply.price)
            ELSE Rounded(150 * reply.input + 600 * reply.output)]

UsageOf(reply) ==
  LET tokens == reply.input + reply.output
      estimate == Rounded(150 * reply.input + 600 * reply.output)
  IN [tokens |-> tokens,
      cost |-> IF Rounded(reply.price) > 0 THEN Rounded(reply.price)
               ELSE IF tokens = 0 THEN 0
               ELSE IF estimate = 0 THEN 1 ELSE estimate]

-----------------------------------------------------------------------------
(***************************************************************************)
(* The places of a call: <<i, k>> is the k-th key of the i-th candidate.   *)
(* A model named before and a key that is empty are no places.             *)
(***************************************************************************)

Either(a, b) == IF a # NoKey THEN a ELSE b
KeyOf(p) == Either(keys.own[p], keys.env[p])

\* _get_api_keys_for_model: qwen models take the secondary key first
Slot(m, k) ==
  CASE Family[m] = "groq" -> KeyOf(IF k = 1 THEN "groq" ELSE "groq_secondary")
    [] Family[m] = "qwen" -> KeyOf(IF k = 1 THEN "groq_secondary" ELSE "groq")
    [] Family[m] = "gemini" -> IF k = 1 THEN KeyOf("google") ELSE NoKey
    [] OTHER -> IF k = 1 THEN Either(keys.own["google"], keys.own["groq"]) ELSE NoKey

\* _get_models_for_role and the keys of each model
Places(r) ==
  {p \in (DOMAIN Chain[r]) \X {1, 2} :
     /\ \A i \in 1..(p[1] - 1) : Chain[r][i] # Chain[r][p[1]]
     /\ Slot(Chain[r][p[1]], p[2]) # NoKey}

Before(p, q) == p[1] < q[1] \/ (p[1] = q[1] /\ p[2] < q[2])
Start == <<0, 0>>

Asking == {"asking", "plain"}
Stages == {"idle", "returned", "raised"} \union Asking

Init ==
  /\ keys \in Configurations
  /\ stage = "idle"
  /\ role \in Role /\ form = "structured"
  /\ at = Start
  /\ attempts = [p \in Places(role) |-> 0]
  /\ heard = [p \in Places(role) |-> "nothing"]
  /\ cumulative = Zero /\ lost = FALSE
  /\ calls = 0

\* mutant: only the next model is tried, not the next key
TurnToNextModel(r, from) ==
  LET later == {q \in Places(r) : q[1] > from[1]} IN
  IF later = {} THEN stage' = "raised" /\ at' = from
  ELSE /\ stage' = "asking"
       /\ at' \in later /\ \A q \in later : q = at' \/ Before(at', q)

\* on to the next place, or ProviderError after the last one
TurnFrom(r, from) ==
  LET later == {q \in Places(r) : Before(from, q)} IN
  IF later = {} THEN stage' = "raised" /\ at' = from
  ELSE /\ stage' = "asking"
       /\ at' \in later /\ \A q \in later : q = at' \/ Before(at', q)

-----------------------------------------------------------------------------
\* mutant: the attempts of the call before are kept
CallStale(r, f) ==
  /\ stage = "idle" /\ calls < MaxCalls
  /\ calls' = calls + 1
  /\ role' = r /\ form' = f
  /\ TurnFrom(r, Start)
  /\ UNCHANGED <<keys, attempts, heard, usageVars>>

\* generate_text and generate_structured begin
Call(r, f) ==
  /\ stage = "idle" /\ calls < MaxCalls
  /\ calls' = calls + 1
  /\ role' = r /\ form' = f
  /\ attempts' = [p \in Places(r) |-> 0]
  /\ heard' = [p \in Places(r) |-> "nothing"]
  /\ TurnFrom(r, Start)
  /\ UNCHANGED <<keys, usageVars>>

\* mutant: the loop over the attempts does not count them
FailUncounted(what, again) ==
  /\ heard' = [heard EXCEPT ![at] = what]
  /\ IF again /\ attempts[at] < MaxRetries
     THEN stage' = "asking" /\ UNCHANGED <<at, attempts>>
     ELSE attempts' = [attempts EXCEPT ![at] = @ + 1] /\ TurnFrom(role, at)
  /\ UNCHANGED <<keys, role, form, calls>>

\* an attempt has failed: the next one with the same key, after a backoff, or
\* the next place
Fail(what, again) ==
  /\ heard' = [heard EXCEPT ![at] = what]
  /\ attempts' = [attempts EXCEPT ![at] = @ + 1]
  /\ IF again /\ attempts[at] < MaxRetries
     THEN stage' = "asking" /\ UNCHANGED at
     ELSE TurnFrom(role, at)
  /\ UNCHANGED <<keys, role, form, calls>>

\* mutant: the usage is accumulated by the caller once more
ReplyCountedTwice ==
  /\ stage \in Asking
  /\ \E reply \in Replies :
       cumulative' = Plus(Plus(cumulative, UsageOf(reply)), UsageOf(reply))
  /\ stage' = "returned"
  /\ UNCHANGED <<keys, callVars, lost, calls>>

\* a reply that can be used
Reply ==
  /\ stage \in Asking
  /\ \E reply \in Replies :
       cumulative' = Plus(cumulative, UsageOf(reply))
  /\ stage' = "returned"
  /\ UNCHANGED <<keys, callVars, lost, calls>>

\* a reply that does not fit the schema is paid for but not counted; if it was
\* cut off or empty the key is tried again
Misfit ==
  /\ stage \in Asking /\ form = "structured"
  /\ \E reply \in Replies : lost' = (lost \/ reply.input + reply.output > 0)
  /\ \/ Fail("invalid", FALSE)
     \/ Fail("truncated", TRUE)
  /\ UNCHANGED cumulative

\* mutant: a rate limit is an error like any other
LimitRetried ==
  /\ stage \in Asking
  /\ Fail("limited", TRUE)
  /\ UNCHANGED usageVars

Limit ==
  /\ stage \in Asking
  /\ Fail("limited", FALSE)
  /\ UNCHANGED usageVars

\* an authentication error, or any error of a text call or of a plain request
Error ==
  /\ stage \in Asking
  /\ Fail("error", TRUE)
  /\ UNCHANGED usageVars

\* some other error of a structured request: once more without response_format
RetryPlain ==
  /\ stage = "asking" /\ form = "structured"
  /\ stage' = "plain"
  /\ UNCHANGED <<keys, callVars, usageVars, calls>>

\* the caller has the result, or has caught the error and falls back on rules
Return ==
  /\ stage \in {"returned", "raised"}
  /\ stage' = "idle" /\ at' = Start
  /\ attempts' = [p \in Places(role) |-> 0]
  /\ heard' = [p \in Places(role) |-> "nothing"]
  /\ UNCHANGED <<keys, role, form, usageVars, calls>>

\* reset_cumulative_usage, when a run starts
ResetUsage ==
  /\ stage = "idle" /\ calls < MaxCalls
  /\ cumulative' = Zero /\ lost' = FALSE
  /\ UNCHANGED <<keys, stage, callVars, calls>>

Finished == stage = "idle" /\ calls = MaxCalls /\ UNCHANGED vars

Proceed == Reply \/ Misfit \/ Limit \/ Error \/ RetryPlain \/ Return
Next == Proceed \/ ResetUsage \/ Finished \/ \E r \in Role, f \in {"text", "structured"} : Call(r, f)

Spec == Init /\ [][Next]_vars

\* every request to a provider has a timeout
FairSpec == Spec /\ WF_vars(Proceed)

-----------------------------------------------------------------------------
(***************************************************************************)
(* Properties.                                                             *)
(***************************************************************************)

Failures == {"nothing", "invalid", "truncated", "limited", "error"}
Usage == [tokens : Nat, cost : Nat]

TypeOK ==
  /\ keys \in Configurations
  /\ stage \in Stages
  /\ role \in Role /\ form \in {"text", "structured"}
  /\ at \in Places(role) \union {Start}
  /\ stage \in Asking => at \in Places(role)
  /\ attempts \in [Places(role) -> Nat]
  /\ heard \in [Places(role) -> Failures]
  /\ cumulative \in Usage /\ lost \in BOOLEAN
  /\ calls \in Nat

\* What makes the code leave a place for good.  A reply off the schema does so for its
\* key only: the comment at litellm_gateway.py:383 has "Escalate to next model
\* immediately", but the break below it ends the attempts with one key, and the next key
\* of the same model is asked.
GivenUp(p) == heard[p] \in {"limited", "invalid"} \/ attempts[p] = MaxRetries + 1

\* Failover goes in the order of the loops and leaves nothing out: a key is asked only
\* when all before it, those of its own model included, were given up, and a call raises
\* only when all of them were (litellm_gateway.py:312-417).
FailoverInOrder ==
  /\ stage \in Asking => \A p \in Places(role) : Before(p, at) => GivenUp(p)
  /\ stage = "raised" => \A p \in Places(role) : GivenUp(p)

\* A key that is rate limited, or that has answered off the schema, is not asked
\* again in the same call, and no key more than 1 + max_retries times.
RetriesJustified ==
  /\ stage \in Asking => ~GivenUp(at)
  /\ \A p \in Places(role) : attempts[p] <= MaxRetries + 1

\* No tokens are free: usage with tokens has a cost, so that a run's charge and
\* the client's cap see it.
TokensCost == cumulative.tokens > 0 => cumulative.cost > 0

\* Every call comes back, with a result or an error.
CallsReturn == stage \in Asking ~> stage = "idle"

Progress ==
  CASE stage = "idle" -> "idle" [] stage = "returned" -> "result"
    [] stage = "raised" -> "error" [] OTHER -> "open"

Calls == INSTANCE MeteredCalls WITH
  call <- Progress, total <- cumulative, Usages <- {UsageOf(reply) : reply \in Replies}

\* Failed attempts, failover and retries add nothing to the usage; a result adds
\* the usage of one reply.
ImplementsCalls == Calls!Spec

(***************************************************************************)
(* A statement of the repository that the code does not live up to.        *)
(***************************************************************************)

\* REBUILD_SPEC.md:798: every completed turn accumulates its exact token
\* expenditure; no reply that a provider has charged for is left out.
EveryReplyMetered == stage = "returned" => ~lost
=============================================================================
