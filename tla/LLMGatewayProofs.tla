-------------------------- MODULE LLMGatewayProofs --------------------------
(***************************************************************************)
(* Proofs about LLMGateway, for every chain of models, every combination   *)
(* of keys and every number of retries.                                    *)
(***************************************************************************)
EXTENDS LLMGateway, FiniteSums, TLAPS

-----------------------------------------------------------------------------
(***************************************************************************)
(* Usage.                                                                  *)
(***************************************************************************)

\* rounding to a unit gives a natural number
LEMMA RoundedType ==
  ASSUME NEW n \in Nat
  PROVE  Rounded(n) \in Nat
BY DEF Rounded

\* _calculate_usage: what a reply used, and that its tokens have a cost
LEMMA UsageOfReply ==
  ASSUME NEW reply \in Replies
  PROVE  /\ UsageOf(reply) \in Usage
         /\ UsageOf(reply).tokens > 0 => UsageOf(reply).cost > 0
<1> DEFINE tokens == reply.input + reply.output
           estimate == Rounded(150 * reply.input + 600 * reply.output)
           price == Rounded(reply.price)
<1>1. reply.price \in Nat /\ reply.input \in Nat /\ reply.output \in Nat
  BY ReplyAssumption
<1>2. 150 * reply.input + 600 * reply.output \in Nat
  BY <1>1
<1>3. estimate \in Nat /\ price \in Nat
  BY <1>1, <1>2, RoundedType
<1>4. tokens \in Nat
  BY <1>1
<1>5. UsageOf(reply) =
        [tokens |-> tokens,
         cost |-> IF price > 0 THEN price
                  ELSE IF tokens = 0 THEN 0
                  ELSE IF estimate = 0 THEN 1 ELSE estimate]
  BY DEF UsageOf
<1> QED
  BY <1>3, <1>4, <1>5 DEF Usage

\* adding usages
LEMMA PlusUsage ==
  ASSUME NEW u \in Usage, NEW v \in Usage
  PROVE  /\ Plus(u, v) \in Usage
         /\ Plus(u, v).tokens = u.tokens + v.tokens
         /\ Plus(u, v).cost = u.cost + v.cost
BY DEF Plus, Usage

-----------------------------------------------------------------------------
(***************************************************************************)
(* Places.                                                                 *)
(***************************************************************************)

\* the places of a role depend on the keys only
LEMMA PlacesFixed ==
  ASSUME keys' = keys, NEW r
  PROVE  Places(r)' = Places(r)
BY DEF Places, Slot, KeyOf, Either

\* a place is a pair of positions
LEMMA PlaceIsPair ==
  ASSUME NEW r \in Role, NEW p \in Places(r)
  PROVE  /\ p = <<p[1], p[2]>>
         /\ p[1] \in Nat \ {0} /\ p[2] \in {1, 2}
<1>1. Chain[r] \in Seq(DOMAIN Family)
  BY ChainAssumption
<1>2. DOMAIN Chain[r] = 1..Len(Chain[r]) /\ Len(Chain[r]) \in Nat
  BY <1>1
<1>3. p \in (DOMAIN Chain[r]) \X {1, 2}
  BY DEF Places
<1> QED
  BY <1>2, <1>3

\* the places of a role are in a total order, and all of them after Start
LEMMA PlacesOrdered ==
  ASSUME NEW r \in Role, NEW p \in Places(r), NEW q \in Places(r)
  PROVE  /\ p = q \/ Before(p, q) \/ Before(q, p)
         /\ Before(p, q) => p # q /\ ~Before(q, p)
         /\ Before(Start, p) /\ ~Before(p, Start)
<1>1. p = <<p[1], p[2]>> /\ p[1] \in Nat \ {0} /\ p[2] \in {1, 2}
  BY PlaceIsPair
<1>2. q = <<q[1], q[2]>> /\ q[1] \in Nat \ {0} /\ q[2] \in {1, 2}
  BY PlaceIsPair
<1> QED
  BY <1>1, <1>2 DEF Before, Start

-----------------------------------------------------------------------------
(***************************************************************************)
(* The inductive invariant: types, every place before the current one was  *)
(* given up, the current one was not, and no later one was tried.          *)
(***************************************************************************)

LaterUntried ==
  stage \in Asking =>
    \A p \in Places(role) : Before(at, p) => attempts[p] = 0 /\ heard[p] = "nothing"

GatewayInv == TypeOK /\ FailoverInOrder /\ RetriesJustified /\ LaterUntried

\* a place that was not tried is not given up
LEMMA FreshNotGivenUp ==
  ASSUME NEW p, attempts[p] = 0, heard[p] = "nothing"
  PROVE  ~GivenUp(p)
BY RetryAssumption DEF GivenUp

\* the invariant holds of a new adapter
LEMMA InitInv == Init => GatewayInv
<1> SUFFICES ASSUME Init PROVE GatewayInv
  OBVIOUS
<1>1. TypeOK
  BY RetryAssumption DEF Init, TypeOK, Stages, Asking, Zero, Usage, Failures
<1>2. FailoverInOrder /\ LaterUntried
  BY DEF Init, FailoverInOrder, LaterUntried, Asking
<1>3. RetriesJustified
  BY RetryAssumption DEF Init, RetriesJustified, Asking
<1> QED
  BY <1>1, <1>2, <1>3 DEF GatewayInv

\* a call begins at the first place, with nothing tried
LEMMA CallInv ==
  ASSUME GatewayInv, NEW r \in Role, NEW f \in {"text", "structured"}, Call(r, f)
  PROVE  GatewayInv'
<1>1. keys' = keys /\ role' = r /\ form' = f /\ cumulative' = cumulative /\ lost' = lost
  BY DEF Call, usageVars
<1>2. Places(role)' = Places(r)
  BY <1>1, PlacesFixed
<1>3. attempts' = [p \in Places(r) |-> 0] /\ heard' = [p \in Places(r) |-> "nothing"]
  BY DEF Call
<1>4. calls' \in Nat
  BY DEF Call, GatewayInv, TypeOK
<1> DEFINE later == {q \in Places(r) : Before(Start, q)}
<1>5. later = Places(r)
  BY PlacesOrdered
<1>6. \/ later = {} /\ stage' = "raised" /\ at' = Start
      \/ stage' = "asking" /\ at' \in later /\ \A q \in later : q = at' \/ Before(at', q)
  BY DEF Call, TurnFrom
<1>7. TypeOK'
  BY <1>1, <1>2, <1>3, <1>4, <1>5, <1>6
  DEF GatewayInv, TypeOK, Stages, Asking, Failures
<1>8. RetriesJustified' /\ LaterUntried'
  <2>1. \A p \in Places(r) : attempts'[p] = 0 /\ heard'[p] = "nothing"
    BY <1>3
  <2>2. LaterUntried'
    BY <2>1, <1>2 DEF LaterUntried
  <2>3. \A p \in Places(r) : ~GivenUp(p)' /\ attempts'[p] <= MaxRetries + 1
    BY <2>1, RetryAssumption DEF GivenUp
  <2>4. stage' \in Asking => at' \in Places(r)
    BY <1>5, <1>6 DEF Asking
  <2> QED
    BY <1>2, <2>2, <2>3, <2>4 DEF RetriesJustified, GivenUp
<1>9. FailoverInOrder'
  <2>1. CASE later = {} /\ stage' = "raised"
    BY <2>1, <1>2, <1>5 DEF FailoverInOrder, Asking
  <2>2. CASE stage' = "asking" /\ at' \in later /\ \A q \in later : q = at' \/ Before(at', q)
    <3>1. ASSUME NEW p \in Places(r) PROVE ~Before(p, at')
      BY <2>2, <1>5, <3>1, PlacesOrdered
    <3> QED
      BY <2>2, <1>2, <3>1 DEF FailoverInOrder
  <2> QED
    BY <1>6, <2>1, <2>2
<1> QED
  BY <1>7, <1>8, <1>9 DEF GatewayInv

\* a failed attempt is repeated, or its place is given up
LEMMA FailInv ==
  ASSUME GatewayInv, stage \in Asking, NEW what, NEW again \in BOOLEAN,
         <<what, again>> \in {<<"invalid", FALSE>>, <<"truncated", TRUE>>,
                              <<"limited", FALSE>>, <<"error", TRUE>>},
         Fail(what, again), cumulative' \in Usage, lost' \in BOOLEAN
  PROVE  GatewayInv'
<1>1. keys' = keys /\ role' = role /\ form' = form /\ calls' = calls
  BY DEF Fail
<1>2. Places(role)' = Places(role)
  BY <1>1, PlacesFixed
<1>3. /\ role \in Role /\ at \in Places(role)
      /\ attempts \in [Places(role) -> Nat] /\ heard \in [Places(role) -> Failures]
  BY DEF GatewayInv, TypeOK
<1>4. what \in Failures /\ (what \in {"limited", "invalid"} <=> ~again)
  BY DEF Failures
<1>5. /\ attempts' = [attempts EXCEPT ![at] = @ + 1]
      /\ heard' = [heard EXCEPT ![at] = what]
  BY DEF Fail
<1>6. /\ attempts' \in [Places(role) -> Nat] /\ heard' \in [Places(role) -> Failures]
      /\ attempts'[at] = attempts[at] + 1 /\ heard'[at] = what
      /\ \A p \in Places(role) : p # at => attempts'[p] = attempts[p] /\ heard'[p] = heard[p]
  BY <1>3, <1>4, <1>5
<1>7. attempts[at] < MaxRetries + 1
  BY <1>3, RetryAssumption DEF GatewayInv, RetriesJustified, GivenUp
<1>8. \A p \in Places(role) : attempts'[p] <= MaxRetries + 1
  BY <1>3, <1>6, <1>7, RetryAssumption DEF GatewayInv, RetriesJustified
<1>9. \A p \in Places(role) : Before(p, at) => GivenUp(p)'
  <2> SUFFICES ASSUME NEW p \in Places(role), Before(p, at) PROVE GivenUp(p)'
    OBVIOUS
  <2>1. GivenUp(p)
    BY DEF GatewayInv, FailoverInOrder
  <2>2. p # at
    BY <1>3, PlacesOrdered
  <2> QED
    BY <1>6, <2>1, <2>2 DEF GivenUp
<1>10. CASE again /\ attempts[at] < MaxRetries
  <2>1. stage' = "asking" /\ at' = at
    BY <1>10 DEF Fail
  <2>2. TypeOK'
    BY <1>1, <1>2, <1>3, <1>6, <2>1 DEF GatewayInv, TypeOK, Stages, Asking
  <2>3. FailoverInOrder'
    BY <1>2, <1>9, <2>1 DEF FailoverInOrder
  <2>4. RetriesJustified'
    <3>1. ~GivenUp(at)'
      BY <1>3, <1>4, <1>6, <1>10, <2>1, RetryAssumption DEF GivenUp
    <3> QED
      BY <1>2, <1>8, <2>1, <3>1 DEF RetriesJustified
  <2>5. LaterUntried'
    <3> SUFFICES ASSUME NEW p \in Places(role), Before(at, p)
                 PROVE  attempts'[p] = 0 /\ heard'[p] = "nothing"
      BY <1>2, <2>1 DEF LaterUntried
    <3>1. p # at
      BY <1>3, PlacesOrdered
    <3> QED
      BY <1>6, <3>1 DEF GatewayInv, LaterUntried
  <2> QED
    BY <2>2, <2>3, <2>4, <2>5 DEF GatewayInv
<1>11. CASE ~(again /\ attempts[at] < MaxRetries)
  <2> DEFINE later == {q \in Places(role) : Before(at, q)}
  <2>1. \/ later = {} /\ stage' = "raised" /\ at' = at
        \/ stage' = "asking" /\ at' \in later /\ \A q \in later : q = at' \/ Before(at', q)
    BY <1>11 DEF Fail, TurnFrom
  <2>2. \A p \in Places(role) : p = at => GivenUp(p)'
    BY <1>3, <1>4, <1>6, <1>7, <1>11, RetryAssumption DEF GivenUp
  <2>3. TypeOK'
    BY <1>1, <1>2, <1>3, <1>6, <2>1 DEF GatewayInv, TypeOK, Stages, Asking
  <2>4. CASE later = {} /\ stage' = "raised" /\ at' = at
    <3>1. \A p \in Places(role) : GivenUp(p)'
      BY <1>3, <1>9, <2>2, <2>4, PlacesOrdered
    <3>2. FailoverInOrder' /\ RetriesJustified' /\ LaterUntried'
      BY <1>2, <1>8, <2>4, <3>1 DEF FailoverInOrder, RetriesJustified, LaterUntried, Asking
    <3> QED
      BY <2>3, <3>2 DEF GatewayInv
  <2>5. CASE stage' = "asking" /\ at' \in later /\ \A q \in later : q = at' \/ Before(at', q)
    <3>1. at' \in Places(role) /\ Before(at, at')
      BY <2>5
    <3>2. \A p \in Places(role) : Before(at, p) => attempts'[p] = 0 /\ heard'[p] = "nothing"
      <4> SUFFICES ASSUME NEW p \in Places(role), Before(at, p)
                   PROVE  attempts'[p] = 0 /\ heard'[p] = "nothing"
        OBVIOUS
      <4>1. p # at
        BY <1>3, PlacesOrdered
      <4> QED
        BY <1>6, <4>1 DEF GatewayInv, LaterUntried
    <3>3. ASSUME NEW p \in Places(role), Before(at', p) PROVE Before(at, p)
      BY <1>3, <3>1, <3>3, PlaceIsPair DEF Before
    <3>4. ASSUME NEW p \in Places(role), Before(p, at') PROVE p = at \/ Before(p, at)
      <4>1. ASSUME Before(at, p) PROVE FALSE
        <5>1. p = at' \/ Before(at', p)
          BY <2>5, <4>1
        <5> QED
          BY <1>3, <3>1, <3>4, <5>1, PlacesOrdered
      <4> QED
        BY <1>3, <4>1, PlacesOrdered
    <3>5. FailoverInOrder'
      <4>1. ASSUME NEW p \in Places(role), Before(p, at') PROVE GivenUp(p)'
        BY <4>1, <1>9, <2>2, <3>4
      <4> QED
        BY <1>2, <2>5, <4>1 DEF FailoverInOrder
    <3>6. RetriesJustified'
      <4>1. attempts'[at'] = 0 /\ heard'[at'] = "nothing"
        BY <3>1, <3>2
      <4> QED
        BY <1>2, <1>8, <4>1, RetryAssumption DEF RetriesJustified, GivenUp
    <3>7. LaterUntried'
      BY <1>2, <3>2, <3>3 DEF LaterUntried
    <3> QED
      BY <2>3, <3>5, <3>6, <3>7 DEF GatewayInv
  <2> QED
    BY <2>1, <2>4, <2>5
<1> QED
  BY <1>10, <1>11

\* cumulative_usage after a reply
LEMMA AddUsage ==
  ASSUME GatewayInv, NEW reply \in Replies, cumulative' = Plus(cumulative, UsageOf(reply))
  PROVE  /\ cumulative' \in Usage
         /\ TokensCost => TokensCost'
<1>1. cumulative \in Usage /\ UsageOf(reply) \in Usage
  BY UsageOfReply DEF GatewayInv, TypeOK
<1>2. /\ cumulative' \in Usage
      /\ cumulative'.tokens = cumulative.tokens + UsageOf(reply).tokens
      /\ cumulative'.cost = cumulative.cost + UsageOf(reply).cost
  BY <1>1, PlusUsage
<1>3. UsageOf(reply).tokens > 0 => UsageOf(reply).cost > 0
  BY UsageOfReply
<1> QED
  BY <1>1, <1>2, <1>3 DEF TokensCost, Usage

\* steps that leave the places of the call alone and do not ask another
LEMMA RestInv ==
  ASSUME GatewayInv, UNCHANGED <<keys, role, form, at, attempts, heard>>,
         calls' \in Nat, cumulative' \in Usage, lost' \in BOOLEAN,
         stage' \in {"idle", "returned", "plain", stage},
         stage' = "plain" => stage \in Asking
  PROVE  GatewayInv'
<1>1. Places(role)' = Places(role)
  BY PlacesFixed
<1>2. TypeOK'
  BY <1>1 DEF GatewayInv, TypeOK, Stages, Asking
<1>3. FailoverInOrder' /\ RetriesJustified' /\ LaterUntried'
  BY <1>1 DEF GatewayInv, FailoverInOrder, RetriesJustified, LaterUntried, GivenUp, Asking
<1> QED
  BY <1>2, <1>3 DEF GatewayInv

\* every step of a call keeps the invariant
LEMMA StepInv == GatewayInv /\ [Next]_vars => GatewayInv'
<1> SUFFICES ASSUME GatewayInv, [Next]_vars PROVE GatewayInv'
  OBVIOUS
<1>0. cumulative \in Usage /\ lost \in BOOLEAN /\ calls \in Nat /\ Zero \in Usage
  BY DEF GatewayInv, TypeOK, Zero, Usage
<1>1. ASSUME NEW r \in Role, NEW f \in {"text", "structured"}, Call(r, f) PROVE GatewayInv'
  BY <1>1, CallInv
<1>2. CASE Reply
  <2>1. cumulative' \in Usage
    BY <1>2, AddUsage DEF Reply
  <2> QED
    BY <1>0, <1>2, <2>1, RestInv DEF Reply, callVars
<1>3. CASE Misfit
  <2>1. stage \in Asking /\ cumulative' = cumulative /\ lost' \in BOOLEAN
    BY <1>0, <1>3 DEF Misfit
  <2>2. Fail("invalid", FALSE) \/ Fail("truncated", TRUE)
    BY <1>3 DEF Misfit
  <2> QED
    BY <1>0, <2>1, <2>2, FailInv
<1>4. CASE Limit
  BY <1>0, <1>4, FailInv DEF Limit, usageVars
<1>5. CASE Error
  BY <1>0, <1>5, FailInv DEF Error, usageVars
<1>6. CASE RetryPlain
  BY <1>0, <1>6, RestInv DEF RetryPlain, callVars, usageVars, Asking
<1>7. CASE Return
  <2>1. keys' = keys /\ role' = role /\ form' = form /\ stage' = "idle" /\ at' = Start
    BY <1>7 DEF Return
  <2>2. Places(role)' = Places(role)
    BY <2>1, PlacesFixed
  <2>3. TypeOK'
    BY <1>0, <1>7, <2>1, <2>2 DEF GatewayInv, TypeOK, Return, usageVars, Stages, Asking, Failures
  <2>4. \A p \in Places(role) : attempts'[p] = 0
    BY <1>7 DEF Return
  <2>5. FailoverInOrder' /\ LaterUntried' /\ RetriesJustified'
    BY <2>1, <2>2, <2>4, RetryAssumption DEF FailoverInOrder, LaterUntried, RetriesJustified, Asking
  <2> QED
    BY <2>3, <2>5 DEF GatewayInv
<1>8. CASE ResetUsage
  BY <1>0, <1>8, RestInv DEF ResetUsage, callVars
<1>9. CASE Finished \/ UNCHANGED vars
  <2>1. UNCHANGED vars
    BY <1>9 DEF Finished
  <2>2. /\ UNCHANGED <<keys, role, form, at, attempts, heard>> /\ stage' = stage
        /\ cumulative' = cumulative /\ lost' = lost /\ calls' = calls
    BY <2>1 DEF vars
  <2>3. stage' = "plain" => stage \in Asking
    BY <2>2 DEF Asking
  <2> QED
    BY <1>0, <2>2, <2>3, RestInv
<1> QED
  BY <1>1, <1>2, <1>3, <1>4, <1>5, <1>6, <1>7, <1>8, <1>9 DEF Next, Proceed

\* the inductive invariant holds of every behaviour
LEMMA GatewayInvariant == Spec => []GatewayInv
BY InitInv, StepInv, PTL DEF Spec

\* The state of the gateway is well typed in every call.
THEOREM TypeCorrect == Spec => []TypeOK
BY GatewayInvariant, PTL DEF GatewayInv

\* No place is skipped: a place is asked, and a call raises, only after every
\* place before it was given up.
THEOREM FailoverIsComplete == Spec => []FailoverInOrder
BY GatewayInvariant, PTL DEF GatewayInv

\* No key is asked again after a rate limit or an answer off the schema, and none
\* more often than the configured retries allow.
THEOREM RetriesAreJustified == Spec => []RetriesJustified
BY GatewayInvariant, PTL DEF GatewayInv

-----------------------------------------------------------------------------
(***************************************************************************)
(* Usage that has tokens has a cost.                                       *)
(***************************************************************************)

\* every step keeps tokens priced
LEMMA CostStep == GatewayInv /\ TokensCost /\ [Next]_vars => TokensCost'
<1> SUFFICES ASSUME GatewayInv, TokensCost, [Next]_vars PROVE TokensCost'
  OBVIOUS
<1>1. CASE Reply
  BY <1>1, AddUsage DEF Reply
<1>2. CASE ResetUsage
  BY <1>2 DEF ResetUsage, TokensCost, Zero
<1>3. CASE cumulative' = cumulative
  BY <1>3 DEF TokensCost
<1> QED
  BY <1>1, <1>2, <1>3
  DEF Next, Proceed, Misfit, Limit, Error, RetryPlain, Return, Finished, Call, usageVars, vars

\* Whatever a provider reports or litellm can price, tokens in the usage of a run
\* come with a cost of at least one unit.
THEOREM TokensAlwaysCost == Spec => []TokensCost
<1>1. Init => TokensCost
  BY DEF Init, TokensCost, Zero
<1> QED
  BY <1>1, CostStep, GatewayInvariant, PTL DEF Spec

-----------------------------------------------------------------------------
(***************************************************************************)
(* LLMGateway implements MeteredCalls.                                     *)
(***************************************************************************)

\* a failed attempt is no step of the call, or fails it
LEMMA FailMaps ==
  ASSUME stage \in Asking, NEW what, NEW again, Fail(what, again), cumulative' = cumulative
  PROVE  [Calls!Next]_(Calls!vars)
<1>1. stage' \in {"asking", "raised"}
  BY DEF Fail, TurnFrom
<1>2. CASE stage' = "asking"
  BY <1>2 DEF Calls!vars, Progress, Asking
<1>3. CASE stage' = "raised"
  BY <1>3 DEF Calls!Next, Calls!Fail, Progress, Asking
<1> QED
  BY <1>1, <1>2, <1>3

\* every step of the gateway is a step of MeteredCalls or none
LEMMA StepMaps == GatewayInv /\ [Next]_vars => [Calls!Next]_(Calls!vars)
<1> SUFFICES ASSUME GatewayInv, [Next]_vars PROVE [Calls!Next]_(Calls!vars)
  OBVIOUS
<1>1. ASSUME NEW r \in Role, NEW f \in {"text", "structured"}, Call(r, f)
      PROVE  Calls!Open
  <2>1. stage = "idle" /\ stage' \in {"asking", "raised"} /\ cumulative' = cumulative
    BY <1>1 DEF Call, TurnFrom, usageVars
  <2> QED
    BY <2>1 DEF Calls!Open, Progress
<1>2. CASE Reply
  <2>1. stage \in Asking /\ stage' = "returned"
    BY <1>2 DEF Reply
  <2>2. PICK reply \in Replies : cumulative' = Plus(cumulative, UsageOf(reply))
    BY <1>2 DEF Reply
  <2> QED
    BY <2>1, <2>2 DEF Calls!Next, Calls!Succeed, Progress, Asking
<1>3. CASE Misfit
  BY <1>3, FailMaps DEF Misfit
<1>4. CASE Limit
  BY <1>4, FailMaps DEF Limit, usageVars
<1>5. CASE Error
  BY <1>5, FailMaps DEF Error, usageVars
<1>6. CASE RetryPlain
  BY <1>6 DEF RetryPlain, usageVars, Calls!vars, Progress
<1>7. CASE Return
  BY <1>7 DEF Return, usageVars, Calls!Next, Calls!Take, Progress
<1>8. CASE ResetUsage
  BY <1>8 DEF ResetUsage, Calls!Next, Calls!Reset, Progress
<1>9. CASE Finished \/ UNCHANGED vars
  BY <1>9 DEF Finished, vars, Calls!vars, Progress
<1> QED
  BY <1>1, <1>2, <1>3, <1>4, <1>5, <1>6, <1>7, <1>8, <1>9 DEF Next, Proceed, Calls!Next

\* The gateway with its failover, retries and repeated requests is a gateway that
\* adds the usage of one reply per successful call.
THEOREM GatewayImplementsCalls == Spec => ImplementsCalls
<1>1. Init => Calls!Init
  BY DEF Init, Calls!Init, Progress
<1> QED
  BY <1>1, StepMaps, GatewayInvariant, PTL DEF Spec, ImplementsCalls, Calls!Spec

-----------------------------------------------------------------------------
(***************************************************************************)
(* A call comes to an end: what CallsReturn rests on besides fairness.     *)
(***************************************************************************)

\* a call has finitely many places
LEMMA PlacesFinite ==
  ASSUME NEW r \in Role
  PROVE  IsFiniteSet(Places(r))
<1>1. DOMAIN Chain[r] = 1..Len(Chain[r]) /\ Len(Chain[r]) \in Nat
  BY ChainAssumption
<1>2. IsFiniteSet(DOMAIN Chain[r])
  BY <1>1, FS_Interval
<1>3. IsFiniteSet({1, 2})
  <2>1. IsFiniteSet({1} \cup {2})
    BY FS_Singleton, FS_AddElement
  <2>2. {1, 2} = {1} \cup {2}
    OBVIOUS
  <2> QED
    BY <2>1, <2>2
<1>4. IsFiniteSet((DOMAIN Chain[r]) \X {1, 2})
  BY <1>2, <1>3, FS_Product
<1>5. Places(r) \in SUBSET ((DOMAIN Chain[r]) \X {1, 2})
  BY DEF Places
<1> QED
  BY <1>4, <1>5, FS_Subset

\* the requests that the attempts of a call may have sent, two for each that has
\* failed and one for one that is repeated without response_format
Sent == 2 * Total(attempts, Places(role)) + (IF stage = "plain" THEN 1 ELSE 0)
MostRequests == 2 * ((MaxRetries + 1) * Cardinality(Places(role)))

LEMMA SentIsNatural == TypeOK => Total(attempts, Places(role)) \in Nat
<1> SUFFICES ASSUME TypeOK PROVE Total(attempts, Places(role)) \in Nat
  OBVIOUS
<1>1. IsFiniteSet(Places(role)) /\ \A p \in Places(role) : attempts[p] \in Nat
  BY PlacesFinite DEF TypeOK
<1> QED
  BY <1>1, TotalIsNatural

\* while the call goes on, at least one attempt is left
LEMMA SentBounded == GatewayInv /\ stage \in Asking => Sent < MostRequests
<1> SUFFICES ASSUME GatewayInv, stage \in Asking PROVE Sent < MostRequests
  OBVIOUS
<1> DEFINE all == Places(role)
           more == [attempts EXCEPT ![at] = @ + 1]
<1>1. /\ IsFiniteSet(all) /\ at \in all /\ attempts \in [all -> Nat] /\ MaxRetries \in Nat
  BY PlacesFinite, RetryAssumption DEF GatewayInv, TypeOK
<1>2. \A p \in all : attempts[p] \in 0..(MaxRetries + 1) /\ more[p] \in 0..(MaxRetries + 1)
  BY <1>1 DEF GatewayInv, RetriesJustified, GivenUp
<1>3. /\ \A p \in all : attempts[p] \in Nat /\ more[p] \in Nat
      /\ more[at] = attempts[at] + 1 /\ \A p \in all \ {at} : more[p] = attempts[p]
  BY <1>1
<1> HIDE DEF all, more
<1>4. Total(more, all) = Total(attempts, all) + 1
  BY <1>1, <1>3, TotalRises
<1>5. Total(more, all) <= (MaxRetries + 1) * Cardinality(all)
  BY <1>1, <1>2, TotalIsBounded
<1>6. Total(attempts, all) \in Nat /\ (MaxRetries + 1) * Cardinality(all) \in Int
  BY <1>1, <1>3, TotalIsNatural, FS_CardinalityType
<1> QED
  BY <1>4, <1>5, <1>6 DEF Sent, MostRequests, all

\* a failed attempt counts
LEMMA FailCounts ==
  ASSUME GatewayInv, stage \in Asking, NEW what, NEW again, Fail(what, again)
  PROVE  Sent' > Sent
<1>1. Places(role)' = Places(role) /\ role' = role
  BY PlacesFixed DEF Fail
<1>2. attempts' = [attempts EXCEPT ![at] = @ + 1] /\ stage' # "plain"
  BY DEF Fail, TurnFrom
<1>3. IsFiniteSet(Places(role)) /\ at \in Places(role) /\ attempts \in [Places(role) -> Nat]
  BY PlacesFinite DEF GatewayInv, TypeOK
<1>4. /\ \A p \in Places(role) : attempts[p] \in Nat /\ attempts'[p] \in Nat
      /\ attempts'[at] = attempts[at] + 1
      /\ \A p \in Places(role) \ {at} : attempts'[p] = attempts[p]
  BY <1>2, <1>3
<1>5. Total(attempts', Places(role)) = Total(attempts, Places(role)) + 1
  BY <1>3, <1>4, TotalRises
<1>6. Total(attempts, Places(role)) \in Nat
  BY <1>3, <1>4, TotalIsNatural
<1> QED
  BY <1>1, <1>2, <1>5, <1>6 DEF Sent

\* A call sends at most 2 * (1 + max_retries) requests to each of its places, the
\* repetitions without response_format included: failover, retries and backoff
\* cannot keep a run busy for ever, whatever the providers answer.
THEOREM CallsAreBounded == Spec => [](stage \in Asking => Sent < MostRequests)
BY GatewayInvariant, SentBounded, PTL

Advances == stage \in Asking /\ stage' \in Asking => Sent' > Sent

\* Every step of a call that does not end it sends another of those requests.
THEOREM CallsAdvance == Spec => [][Advances]_vars
<1>1. GatewayInv /\ [Next]_vars => [Advances]_vars
  <2> SUFFICES ASSUME GatewayInv, Next, stage \in Asking, stage' \in Asking
               PROVE  Sent' > Sent
    BY DEF Advances
  <2>1. CASE RetryPlain
    <3>1. /\ keys' = keys /\ role' = role /\ attempts' = attempts
          /\ stage = "asking" /\ stage' = "plain"
      BY <2>1 DEF RetryPlain, callVars
    <3>2. Places(role)' = Places(role)
      BY <3>1, PlacesFixed
    <3>3. Total(attempts, Places(role)) \in Nat
      BY SentIsNatural DEF GatewayInv
    <3> QED
      BY <3>1, <3>2, <3>3 DEF Sent
  <2>2. CASE Misfit \/ Limit \/ Error
    BY <2>2, FailCounts DEF Misfit, Limit, Error
  <2>3. ASSUME NEW r \in Role, NEW f \in {"text", "structured"}, Call(r, f) PROVE FALSE
    BY <2>3 DEF Call, Asking
  <2> QED
    BY <2>1, <2>2, <2>3 DEF Next, Proceed, Reply, Return, ResetUsage, Finished, Asking
<1> QED
  BY <1>1, GatewayInvariant, PTL DEF Spec
=============================================================================
