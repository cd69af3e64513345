------------------------------ MODULE TokenBucket ------------------------------
(***************************************************************************)
(* TokenBucket of internal/api: the limiter in front of POST /tasks, with  *)
(* a clock.  Tokens are counted in Unit-ths and Rate of them are refilled  *)
(* per tick; the code's floating point is exact here.                      *)
(***************************************************************************)
EXTENDS Integers, Sequences

CONSTANTS Burst,     \* maxTokens, http.rate_limit_burst
          Rate,      \* refillRate, http.rate_limit_per_sec, in Unit-ths per tick
          Unit,      \* parts of a token
          MaxTime    \* bound on the clock

ASSUME BucketAssumption == Burst \in Nat \ {0} /\ Rate \in Nat /\ Unit \in Nat \ {0} /\ MaxTime \in Nat

VARIABLES now,
          tokens,
          lastRefill,
          admitted   \* when each request was allowed

bucket == <<tokens, lastRefill, admitted>>

Parts(n) == n * Unit   \* n tokens
Gain(d)  == Rate * d   \* what is refilled in d ticks

\* NewTokenBucket
BucketInit == /\ now = 0 /\ lastRefill = 0
              /\ tokens = Parts(Burst)
              /\ admitted = <<>>

Tick == /\ now < MaxTime /\ now' = now + 1
        /\ UNCHANGED bucket

\* (mutant) the tokens are not clamped to maxTokens
RefilledUnclamped == tokens + Gain(now - lastRefill)

\* (mutant) the bucket is refilled for whole tokens only
RefilledWhole == LET full == tokens + Parts(Gain(now - lastRefill) \div Unit)
                 IN  IF full > Parts(Burst) THEN Parts(Burst) ELSE full

Refilled == LET full == tokens + Gain(now - lastRefill)
            IN  IF full > Parts(Burst) THEN Parts(Burst) ELSE full

\* ok is what Allow returns
Allow(ok) ==
    /\ lastRefill' = now
    /\ ok = (Refilled >= Unit)
    /\ tokens' = IF ok THEN Refilled - Unit ELSE Refilled
    /\ admitted' = IF ok THEN Append(admitted, now) ELSE admitted
    /\ UNCHANGED now

BucketNext == Tick \/ \E ok \in BOOLEAN : Allow(ok)

BucketSpec == BucketInit /\ [][BucketNext]_<<now, bucket>>

-----------------------------------------------------------------------------
\* Over any stretch of time, however bursts and pauses follow each other, the
\* limiter lets at most Burst requests through plus what Rate refills meanwhile.
RateBound == \A i, j \in DOMAIN admitted :
                 i <= j => Parts(j - i + 1) <= Parts(Burst) + Gain(admitted[j] - admitted[i])

\* And it refuses nothing without need: when Allow would return false, one more
\* request now would exceed that bound over some stretch that ends now.
RefusedOnlyAtBound ==
    Refilled < Unit =>
        \E i \in DOMAIN admitted :
            Parts(Len(admitted) + 1 - i + 1) > Parts(Burst) + Gain(now - admitted[i])
=================================================================================
