------------------------------ MODULE Gateway ------------------------------
(***************************************************************************)
(* The requests of one organisation through the gateway (gateway/          *)
(* api_gateway.py): its API tokens (identity/api_tokens.py), the rate      *)
(* limit, the concurrency limit and the token quota (gateway/rate_limit.py,*)
(* quota_manager.py, usage_meter.py) and the metering behind them          *)
(* (billing/metering.py, usage_tracking.py, invoices.py).                  *)
(*                                                                         *)
(* The limits are kept in Redis and every call to it is a step of its own: *)
(* a check and the count that follows it interleave with other requests,   *)
(* and a call that fails is let pass.  The key of the requests in flight   *)
(* expires when it was not counted up for 300 s.  Redis is external; an    *)
(* amount of tokens is one unit.                                           *)
(***************************************************************************)
EXTENDS Integers, FiniteSets

CONSTANTS
    Caller,        \* requests under way at the same time
    ApiToken,      \* tokens the organisation may create
    RpsLimit,      \* requests_per_sec
    FlightLimit,   \* max_concurrency
    TokenQuota,    \* tokens_per_minute
    MaxGwFaults    \* bound: failing calls, and expiries during a request

ASSUME GatewayAssumption ==
    /\ IsFiniteSet(Caller) /\ RpsLimit \in Nat /\ FlightLimit \in Nat \ {0}
    /\ TokenQuota \in Nat /\ MaxGwFaults \in Nat

VARIABLES
    tokenState, \* api_tokens: none, live or revoked
    tokenIndex, \* token_hash_index
    rotating,   \* rotate_org_api_token has revoked a token and not created one yet
    stage,      \* where each request is
    rate,       \* rl:rps of this second
    inflight,   \* inflight of the organisation
    meter,      \* tokens of this minute
    usage,      \* TRACKER: the tokens recorded
    invoiced,   \* the tokens of the last invoice
    gwFaults

gwVars == <<tokenState, tokenIndex, rotating, stage, rate, inflight, meter, usage, invoiced, gwFaults>>

tokens == <<tokenState, tokenIndex, rotating>>
billing == <<meter, usage, invoiced>>

Stage == {"idle", "authenticated", "rated", "admitted", "inside", "metering", "answered", "leaving"}
UsageBound == TokenQuota + Cardinality(Caller)

GatewayTypeOK ==
    /\ tokenState \in [ApiToken -> {"none", "live", "revoked"}] /\ tokenIndex \subseteq ApiToken
    /\ rotating \in BOOLEAN /\ stage \in [Caller -> Stage]
    /\ rate \in 0 .. RpsLimit + 1 /\ inflight \in Int /\ meter \in 0 .. UsageBound
    /\ usage \in 0 .. UsageBound /\ invoiced \in 0 .. UsageBound /\ gwFaults \in 0 .. MaxGwFaults

GwInit ==
    /\ tokenState = [t \in ApiToken |-> "none"] /\ tokenIndex = {} /\ rotating = FALSE
    /\ stage = [c \in Caller |-> "idle"]
    /\ rate = 0 /\ inflight = 0 /\ meter = 0 /\ usage = 0 /\ invoiced = 0 /\ gwFaults = 0

Go(c, s) == stage' = [stage EXCEPT ![c] = s]
Fault == gwFaults < MaxGwFaults /\ gwFaults' = gwFaults + 1

\* create_org_api_token, also as the end of a rotation.
CreateToken(t) ==
    /\ tokenState[t] = "none"
    /\ tokenState' = [tokenState EXCEPT ![t] = "live"] /\ tokenIndex' = tokenIndex \cup {t}
    /\ rotating' = FALSE
    /\ UNCHANGED <<stage, rate, inflight, billing, gwFaults>>

\* revoke_org_api_token, also as the beginning of a rotation.
RevokeToken(t, rotates) ==
    /\ tokenState[t] = "live" /\ ~ rotating
    /\ tokenState' = [tokenState EXCEPT ![t] = "revoked"] /\ tokenIndex' = tokenIndex \ {t}
    /\ rotating' = rotates
    /\ UNCHANGED <<stage, rate, inflight, billing, gwFaults>>

\* verify_org_api_secret: by the index, and then the record; a request that passed
\* goes on when the token is revoked.
Authenticate(c, t) ==
    /\ stage[c] = "idle" /\ t \in tokenIndex /\ tokenState[t] = "live"
    /\ Go(c, "authenticated")
    /\ UNCHANGED <<tokens, rate, inflight, billing, gwFaults>>

\* allow_request counts and compares in one call; a failing call allows.
RateLimit(c) ==
    /\ stage[c] = "authenticated"
    /\ \/ /\ rate' = IF rate > RpsLimit THEN rate ELSE rate + 1
          /\ Go(c, IF rate' > RpsLimit THEN "idle" ELSE "rated")
          /\ UNCHANGED gwFaults
       \/ Fault /\ Go(c, "rated") /\ UNCHANGED rate
    /\ UNCHANGED <<tokens, inflight, billing>>

NextSecond ==
    /\ rate # 0 /\ rate' = 0
    /\ UNCHANGED <<tokens, stage, inflight, billing, gwFaults>>

CheckConcurrency(c) ==
    /\ stage[c] = "rated"
    /\ \/ Go(c, IF inflight >= FlightLimit THEN "idle" ELSE "admitted") /\ UNCHANGED gwFaults
       \/ Fault /\ Go(c, "admitted")
    /\ UNCHANGED <<tokens, rate, inflight, billing>>

IncrConcurrency(c) ==
    /\ stage[c] = "admitted" /\ Go(c, "inside")
    /\ \/ inflight' = inflight + 1 /\ UNCHANGED gwFaults
       \/ Fault /\ UNCHANGED inflight
    /\ UNCHANGED <<tokens, rate, billing>>

\* The handler; consume_tokens reads the meter, and an answer over the quota is given
\* and not recorded.
Answer(c) ==
    /\ stage[c] = "inside" /\ Go(c, IF meter + 1 > TokenQuota THEN "answered" ELSE "metering")
    /\ UNCHANGED <<tokens, rate, inflight, billing, gwFaults>>

\* incr_meter, and the record of the usage.
Consume(c) ==
    /\ stage[c] = "metering" /\ Go(c, "answered")
    /\ meter' = meter + 1 /\ usage' = IF usage < UsageBound THEN usage + 1 ELSE usage
    /\ UNCHANGED <<tokens, rate, inflight, invoiced, gwFaults>>

NextMinute ==
    /\ meter # 0 /\ meter' = 0
    /\ UNCHANGED <<tokens, stage, rate, inflight, usage, invoiced, gwFaults>>

\* The handler raises: the finally block runs as well.
Raises(c) ==
    /\ stage[c] = "inside" /\ Go(c, "answered")
    /\ UNCHANGED <<tokens, rate, inflight, billing, gwFaults>>

\* Mutant of DecrReads: a request that ends when another is leaving is not counted down.
DecrSkips(c) ==
    /\ stage[c] = "answered"
    /\ \/ Go(c, IF inflight > 0 /\ \A d \in Caller : stage[d] # "leaving" THEN "leaving" ELSE "idle")
          /\ UNCHANGED gwFaults
       \/ Fault /\ Go(c, "idle")
    /\ UNCHANGED <<tokens, rate, inflight, billing>>

\* decr_concurrency: the read, then the count; a failing call leaves the count.
DecrReads(c) ==
    /\ stage[c] = "answered"
    /\ \/ Go(c, IF inflight > 0 THEN "leaving" ELSE "idle") /\ UNCHANGED gwFaults
       \/ Fault /\ Go(c, "idle")
    /\ UNCHANGED <<tokens, rate, inflight, billing>>

DecrConcurrency(c) ==
    /\ stage[c] = "leaving" /\ Go(c, "idle") /\ inflight' = inflight - 1
    /\ UNCHANGED <<tokens, rate, billing, gwFaults>>

\* Requests that are counted, or were to be.
Inside == {c \in Caller : stage[c] \in {"inside", "metering", "answered", "leaving"}}

\* Mutant of KeyExpires: the key was given no time to live.
KeyStays == FALSE /\ UNCHANGED gwVars

\* Nobody was counted up for 300 s: a fault only when a request lasts that long.
KeyExpires ==
    /\ inflight # 0 /\ inflight' = 0
    /\ IF Inside = {} THEN UNCHANGED gwFaults ELSE Fault
    /\ UNCHANGED <<tokens, stage, rate, billing>>

\* from_usage_snapshot: the totals of everything recorded so far.
Invoice ==
    /\ invoiced' = usage
    /\ UNCHANGED <<tokens, stage, rate, inflight, meter, usage, gwFaults>>

GwNext ==
    \/ \E t \in ApiToken : \/ CreateToken(t)
                           \/ \E rotates \in BOOLEAN : RevokeToken(t, rotates)
                           \/ \E c \in Caller : Authenticate(c, t)
    \/ \E c \in Caller : \/ RateLimit(c) \/ CheckConcurrency(c) \/ IncrConcurrency(c)
                         \/ Answer(c) \/ Consume(c) \/ Raises(c)
                         \/ DecrReads(c) \/ DecrConcurrency(c)
    \/ NextSecond \/ NextMinute \/ KeyExpires \/ Invoice

\* Requests go on; while the limit is reached nobody is counted up, so that the key's
\* time runs out.
GwFairness ==
    /\ \A c \in Caller : /\ WF_gwVars(IncrConcurrency(c)) /\ WF_gwVars(Answer(c))
                         /\ WF_gwVars(Consume(c))
                         /\ WF_gwVars(DecrReads(c)) /\ WF_gwVars(DecrConcurrency(c))
    /\ WF_gwVars(inflight >= FlightLimit /\ KeyExpires)

GwSpec == GwInit /\ [][GwNext]_gwVars /\ GwFairness

-----------------------------------------------------------------------------
(* Properties *)

\* While Redis answers and no request outlives the key, the counter is the number of
\* requests inside, however they interleave and whether they answer or raise.
InflightIsExact == gwFaults = 0 => inflight = Cardinality(Inside)

\* An organisation at its limit comes below it again: a count that a failed call left
\* behind does not lock it out for good.
LimitClears == inflight >= FlightLimit ~> inflight < FlightLimit
=============================================================================
