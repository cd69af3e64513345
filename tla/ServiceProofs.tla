----------------------------- MODULE ServiceProofs ----------------------------
(***************************************************************************)
(* The answers of the service, for any number of tasks and workers: the    *)
(* limiter admits what the rate allows and no less, the counters account   *)
(* for every task and every run, and a page of the DLQ follows the last.   *)
(***************************************************************************)
EXTENDS Service, FiniteSetTheorems, TLAPS

-----------------------------------------------------------------------------
(* Sequences *)

\* Appending adds one element to the range, and keeps an injective sequence
\* injective when the element is new.
LEMMA AppendFacts ==
    ASSUME NEW S, NEW s \in Seq(S), NEW x \in S
    PROVE  /\ Append(s, x) \in Seq(S)
           /\ Append(s, x) # <<>>
           /\ Len(Append(s, x)) = Len(s) + 1
           /\ Range(Append(s, x)) = Range(s) \cup {x}
           /\ IsInjective(s) /\ x \notin Range(s) => IsInjective(Append(s, x))
<1> DEFINE a == Append(s, x)
<1>1. /\ a \in Seq(S) /\ a # <<>> /\ Len(a) = Len(s) + 1
      /\ DOMAIN a = DOMAIN s \cup {Len(s) + 1}
      /\ \A i \in DOMAIN s : a[i] = s[i]
      /\ a[Len(s) + 1] = x
  OBVIOUS
<1> HIDE DEF a
<1>2. Range(a) = Range(s) \cup {x}
  BY <1>1 DEF Range
<1>3. IsInjective(s) /\ x \notin Range(s) => IsInjective(a)
  BY <1>1 DEF Range, IsInjective
<1> QED BY <1>1, <1>2, <1>3 DEF a

\* A non-empty sequence is its head and its tail; of an injective one the head
\* is not in the tail.
LEMMA TailFacts ==
    ASSUME NEW S, NEW s \in Seq(S), s # <<>>
    PROVE  /\ Head(s) \in S
           /\ Tail(s) \in Seq(S)
           /\ Len(Tail(s)) = Len(s) - 1
           /\ Range(s) = Range(Tail(s)) \cup {Head(s)}
           /\ IsInjective(s) => IsInjective(Tail(s)) /\ Head(s) \notin Range(Tail(s))
<1> DEFINE t == Tail(s)
<1>1. /\ Head(s) = s[1] /\ s[1] \in S /\ t \in Seq(S)
      /\ Len(s) \in Nat \ {0} /\ Len(t) = Len(s) - 1
      /\ DOMAIN s = 1 .. Len(s) /\ DOMAIN t = 1 .. Len(s) - 1
      /\ \A i \in 1 .. Len(s) - 1 : t[i] = s[i + 1]
  OBVIOUS
<1> HIDE DEF t
<1>2. /\ 1 \in DOMAIN s
      /\ \A i \in DOMAIN t : i + 1 \in DOMAIN s /\ i + 1 # 1 /\ t[i] = s[i + 1]
      /\ \A i \in DOMAIN s \ {1} : i - 1 \in DOMAIN t /\ t[i - 1] = s[i]
      /\ \A i, j \in DOMAIN t : i + 1 = j + 1 => i = j
  BY <1>1
<1>3. Range(s) = Range(t) \cup {s[1]}
  BY <1>2 DEF Range
<1>4. IsInjective(s) => IsInjective(t) /\ s[1] \notin Range(t)
  BY <1>2 DEF Range, IsInjective
<1> QED BY <1>1, <1>3, <1>4 DEF t

\* Most steps are first-order; those that need arithmetic or records say SMT.
USE ZenonT(20)

-----------------------------------------------------------------------------
(* The limiter *)

BucketTypes == /\ now \in Nat /\ lastRefill \in Nat /\ lastRefill <= now
               /\ tokens \in Int /\ tokens <= Parts(Burst)
               /\ admitted \in Seq(Nat)
               /\ \A i \in DOMAIN admitted : admitted[i] <= lastRefill

\* what admission i of s and those after it have left of the budget at time when
Left(s, i, when) == Parts(Burst) + Gain(when - s[i]) - Parts(Len(s) - i + 1)

\* The tokens never exceed what any stretch leaves, and unless the bucket is full
\* there is a stretch that leaves exactly the tokens.
Budget == /\ RateBound
          /\ \A i \in DOMAIN admitted : tokens <= Left(admitted, i, lastRefill)
          /\ tokens = Parts(Burst) \/ \E i \in DOMAIN admitted : tokens = Left(admitted, i, lastRefill)

BucketInv == BucketTypes /\ Budget

LEMMA GainFacts ==
    /\ Gain(0) = 0
    /\ \A d \in Nat : Gain(d) \in Nat
    /\ \A x, y, z \in Int : /\ Gain(x - z) = Gain(y - z) + Gain(x - y)
                            /\ Gain(x - z) \in Int
<1>1. Gain(0) = 0 /\ \A d \in Nat : Gain(d) \in Nat
  BY SMTT(30), BucketAssumption DEF Gain
<1>2. ASSUME NEW x \in Int, NEW y \in Int, NEW z \in Int
      PROVE  Gain(x - z) = Gain(y - z) + Gain(x - y) /\ Gain(x - z) \in Int
  BY SMTT(30), BucketAssumption DEF Gain
<1> QED BY <1>1, <1>2

LEMMA PartsFacts ==
    /\ Unit \in Nat \ {0} /\ Parts(1) = Unit /\ Unit <= Parts(Burst)
    /\ Parts(Burst) \in Int
    /\ \A k \in Int : Parts(k) \in Int /\ Parts(k + 1) = Parts(k) + Unit
<1>1. Unit \in Nat \ {0} /\ Parts(1) = Unit /\ Unit <= Parts(Burst) /\ Parts(Burst) \in Int
  BY SMTT(30), BucketAssumption DEF Parts
<1>2. ASSUME NEW k \in Int PROVE Parts(k) \in Int /\ Parts(k + 1) = Parts(k) + Unit
  BY SMTT(30), BucketAssumption DEF Parts
<1> QED BY <1>1, <1>2

\* Budgets grow at the rate at which the bucket is refilled.
LEMMA LeftGrows ==
    ASSUME BucketTypes, NEW i \in DOMAIN admitted
    PROVE  /\ Left(admitted, i, now) = Left(admitted, i, lastRefill) + Gain(now - lastRefill)
           /\ Left(admitted, i, now) \in Int /\ Left(admitted, i, lastRefill) \in Int
           /\ Gain(now - lastRefill) \in Int
<1> DEFINE a == admitted[i]
           k == Len(admitted) - i + 1
<1>1. a \in Int /\ now \in Int /\ lastRefill \in Int /\ k \in Int
  BY SMTT(30) DEF BucketTypes
<1>2. \A when \in Int : Left(admitted, i, when) = Parts(Burst) + Gain(when - a) - Parts(k)
  BY DEF Left
<1> HIDE DEF a, k
<1>3. /\ Gain(now - a) = Gain(lastRefill - a) + Gain(now - lastRefill)
      /\ Gain(now - a) \in Int /\ Gain(lastRefill - a) \in Int /\ Gain(now - lastRefill) \in Int
  BY <1>1, GainFacts
<1>4. Parts(Burst) \in Int /\ Parts(k) \in Int
  BY <1>1, PartsFacts
<1>5. /\ Left(admitted, i, now) = Parts(Burst) + Gain(now - a) - Parts(k)
      /\ Left(admitted, i, lastRefill) = Parts(Burst) + Gain(lastRefill - a) - Parts(k)
  BY <1>1, <1>2
<1> QED
  BY SMTT(30), <1>3, <1>4, <1>5

\* One more admission costs a unit of what every earlier stretch has left.
LEMMA LeftAfter ==
    ASSUME BucketTypes, NEW i \in DOMAIN admitted
    PROVE  /\ Left(Append(admitted, now), i, now) = Left(admitted, i, now) - Unit
           /\ Left(admitted, i, now) \in Int
           /\ Parts(Len(admitted) + 1 - i + 1) =
                  Parts(Burst) + Gain(now - admitted[i]) - Left(admitted, i, now) + Unit
           /\ Gain(now - admitted[i]) \in Int
<1> DEFINE a == admitted[i]
           k == Len(admitted) - i + 1
<1>1. /\ Append(admitted, now)[i] = a /\ Len(Append(admitted, now)) - i + 1 = k + 1
      /\ Len(admitted) + 1 - i + 1 = k + 1
  BY SMTT(30) DEF BucketTypes
<1>2. k \in Int /\ a \in Int /\ now \in Int
  BY SMTT(30) DEF BucketTypes
<1>3. /\ Left(admitted, i, now) = Parts(Burst) + Gain(now - a) - Parts(k)
      /\ Left(Append(admitted, now), i, now) = Parts(Burst) + Gain(now - a) - Parts(k + 1)
  BY <1>1 DEF Left
<1> SUFFICES /\ Left(Append(admitted, now), i, now) = Left(admitted, i, now) - Unit
             /\ Left(admitted, i, now) \in Int
             /\ Parts(k + 1) = Parts(Burst) + Gain(now - a) - Left(admitted, i, now) + Unit
             /\ Gain(now - a) \in Int
  BY <1>1
<1> HIDE DEF a, k
<1>4. Parts(Burst) \in Int /\ Gain(now - a) \in Int
  BY <1>2, GainFacts, PartsFacts
<1>5. Parts(k + 1) = Parts(k) + Unit /\ Parts(k) \in Int /\ Unit \in Int
  BY SMTT(30), <1>2, PartsFacts
<1> QED
  BY SMTT(30), <1>3, <1>4, <1>5

LEMMA InitBucket == BucketInit => BucketInv
<1> SUFFICES ASSUME BucketInit PROVE BucketInv
  OBVIOUS
<1>1. Parts(Burst) \in Int
  BY PartsFacts
<1>2. admitted = <<>> /\ admitted \in Seq(Nat) /\ DOMAIN admitted = {}
  BY SMTT(30) DEF BucketInit
<1> QED
  BY SMTT(30), <1>1, <1>2 DEF BucketInit, BucketInv, BucketTypes, Budget, RateBound

LEMMA AllowBucket == ASSUME BucketInv, NEW ok \in BOOLEAN, Allow(ok) PROVE BucketInv'
<1>1. /\ Parts(Burst) \in Int /\ Unit \in Nat \ {0} /\ Unit <= Parts(Burst)
      /\ tokens \in Int /\ tokens <= Parts(Burst)
  BY PartsFacts DEF BucketInv, BucketTypes
<1>2. /\ Refilled \in Int /\ Refilled <= Parts(Burst)
      /\ \A i \in DOMAIN admitted : Refilled <= Left(admitted, i, now)
      /\ Refilled = Parts(Burst) \/ \E i \in DOMAIN admitted : Refilled = Left(admitted, i, now)
  <2>1. Gain(now - lastRefill) \in Nat
    BY SMTT(30), GainFacts DEF BucketInv, BucketTypes
  <2>2. /\ Refilled = Parts(Burst) \/ Refilled = tokens + Gain(now - lastRefill)
        /\ Refilled \in Int /\ Refilled <= Parts(Burst) /\ Refilled <= tokens + Gain(now - lastRefill)
    BY SMTT(30), <1>1, <2>1 DEF Refilled
  <2>3. ASSUME NEW i \in DOMAIN admitted PROVE Refilled <= Left(admitted, i, now)
    <3>1. tokens <= Left(admitted, i, lastRefill)
      BY DEF BucketInv, Budget
    <3> QED
      BY SMTT(30), <1>1, <2>1, <2>2, <3>1, LeftGrows DEF BucketInv
  <2>4. ASSUME Refilled # Parts(Burst) PROVE \E i \in DOMAIN admitted : Refilled = Left(admitted, i, now)
    <3>1. tokens # Parts(Burst)
      BY SMTT(30), <1>1, <2>1, <2>2, <2>4
    <3>2. PICK i \in DOMAIN admitted : tokens = Left(admitted, i, lastRefill)
      BY <3>1 DEF BucketInv, Budget
    <3> QED
      BY <2>2, <2>4, <3>2, LeftGrows DEF BucketInv
  <2> QED
    BY <2>2, <2>3, <2>4
<1>3. CASE ~ok
  <2>1. tokens' = Refilled /\ lastRefill' = now /\ UNCHANGED <<now, admitted>>
    BY <1>3 DEF Allow
  <2>2. BucketTypes'
    BY SMTT(30), <1>2, <2>1 DEF BucketInv, BucketTypes
  <2>3. RateBound'
    BY <2>1 DEF BucketInv, Budget, RateBound
  <2> QED
    BY <1>2, <2>1, <2>2, <2>3 DEF BucketInv, Budget
<1>4. CASE ok
  <2>1. /\ tokens' = Refilled - Unit /\ Refilled >= Unit /\ lastRefill' = now
        /\ admitted' = Append(admitted, now) /\ UNCHANGED now
    BY <1>4 DEF Allow
  <2>2. PICK n \in Nat : n = Len(admitted)
    BY SMTT(30) DEF BucketInv, BucketTypes
  <2>3. /\ admitted' \in Seq(Nat) /\ Len(admitted') = n + 1
        /\ DOMAIN admitted = 1 .. n /\ DOMAIN admitted' = 1 .. n + 1
        /\ admitted'[n + 1] = now /\ \A i \in 1 .. n : admitted'[i] = admitted[i]
    BY SMTT(30), <2>1, <2>2 DEF BucketInv, BucketTypes
  <2>4. BucketTypes'
    BY SMTT(30), <1>1, <1>2, <2>1, <2>3 DEF BucketInv, BucketTypes
  <2>5. \A i \in 1 .. n : /\ Left(admitted', i, now) = Left(admitted, i, now) - Unit
                          /\ Left(admitted, i, now) \in Int
    BY <2>1, <2>3, LeftAfter DEF BucketInv
  <2>6. /\ Gain(now - now) = 0 /\ Parts(n + 1 - (n + 1) + 1) = Unit
        /\ Left(admitted', n + 1, now) = Parts(Burst) - Unit
    <3>1. Gain(now - now) = 0 /\ Parts(n + 1 - (n + 1) + 1) = Unit
      <4>1. now - now = 0 /\ n + 1 - (n + 1) + 1 = 1
        BY SMTT(30) DEF BucketInv, BucketTypes
      <4> QED BY <4>1, GainFacts, PartsFacts
    <3> QED
      BY SMTT(30), <1>1, <2>3, <3>1 DEF Left
  <2>7. \A i \in DOMAIN admitted' : tokens' <= Left(admitted', i, now)
    <3>1. ASSUME NEW i \in 1 .. n PROVE tokens' <= Left(admitted', i, now)
      <4>1. Refilled <= Left(admitted, i, now)
        BY <1>2, <2>3
      <4>2. Left(admitted', i, now) = Left(admitted, i, now) - Unit /\ Left(admitted, i, now) \in Int
        BY <2>5
      <4> QED
        BY SMTT(30), <1>1, <1>2, <2>1, <4>1, <4>2
    <3>2. tokens' <= Left(admitted', n + 1, now)
      BY SMTT(30), <1>1, <1>2, <2>1, <2>6
    <3> QED
      BY SMTT(30), <2>3, <3>1, <3>2
  <2>8. \E i \in DOMAIN admitted' : tokens' = Left(admitted', i, now)
    <3>1. CASE Refilled = Parts(Burst)
      BY SMTT(30), <1>1, <2>1, <2>3, <2>6, <3>1
    <3>2. CASE Refilled # Parts(Burst)
      <4>1. PICK i \in 1 .. n : Refilled = Left(admitted, i, now)
        BY <1>2, <2>3, <3>2
      <4>2. tokens' = Left(admitted', i, now)
        BY <2>1, <2>5, <4>1
      <4>3. i \in DOMAIN admitted'
        BY SMTT(30), <2>3
      <4> QED
        BY <4>2, <4>3
    <3> QED BY <3>1, <3>2
  <2>9. RateBound'
    <3> SUFFICES ASSUME NEW i \in 1 .. n + 1, NEW j \in 1 .. n + 1, i <= j
                 PROVE  Parts(j - i + 1) <= Parts(Burst) + Gain(admitted'[j] - admitted'[i])
      BY <2>3 DEF RateBound
    <3>1. CASE j # n + 1
      <4>1. i \in 1 .. n /\ j \in 1 .. n /\ admitted'[i] = admitted[i] /\ admitted'[j] = admitted[j]
        BY SMTT(30), <2>3, <3>1
      <4> QED
        BY <2>3, <4>1 DEF BucketInv, Budget, RateBound
    <3>2. CASE j = n + 1 /\ i # n + 1
      <4>1. i \in 1 .. n /\ admitted'[i] = admitted[i] /\ admitted'[j] = now
        BY SMTT(30), <2>3, <3>2
      <4>2. Unit <= Left(admitted, i, now) /\ Left(admitted, i, now) \in Int
        <5>1. Refilled <= Left(admitted, i, now) /\ Left(admitted, i, now) \in Int
          BY <1>2, <2>3, <2>5, <4>1
        <5> QED
          BY SMTT(30), <1>1, <1>2, <2>1, <5>1
      <4>3. /\ Parts(n + 1 - i + 1) =
                  Parts(Burst) + Gain(now - admitted[i]) - Left(admitted, i, now) + Unit
            /\ Gain(now - admitted[i]) \in Int
        BY <2>2, <2>3, <4>1, LeftAfter DEF BucketInv
      <4>4. Parts(n + 1 - i + 1) <= Parts(Burst) + Gain(now - admitted[i])
        BY SMTT(30), <1>1, <4>2, <4>3
      <4> QED
        BY SMTT(30), <3>2, <4>1, <4>4
    <3>3. CASE j = n + 1 /\ i = n + 1
      BY SMTT(30), <1>1, <2>3, <2>6, <3>3
    <3> QED
      BY <3>1, <3>2, <3>3
  <2> QED
    BY <2>1, <2>4, <2>7, <2>8, <2>9 DEF BucketInv, Budget
<1> QED
  BY <1>3, <1>4

LEMMA NextBucket == BucketInv /\ [BucketNext]_<<now, bucket>> => BucketInv'
<1>1. ASSUME BucketInv, Tick \/ UNCHANGED <<now, bucket>> PROVE BucketInv'
  <2>1. UNCHANGED <<tokens, lastRefill, admitted>> /\ now' \in Nat /\ now' >= now
    BY SMTT(30), <1>1 DEF Tick, bucket, BucketInv, BucketTypes
  <2>2. BucketTypes'
    BY SMTT(30), <1>1, <2>1 DEF BucketInv, BucketTypes
  <2>3. Budget'
    BY <1>1, <2>1 DEF BucketInv, Budget, RateBound, Left
  <2> QED BY <2>2, <2>3 DEF BucketInv
<1> QED BY <1>1, AllowBucket DEF BucketNext

LEMMA BucketRefuses == BucketInv => RefusedOnlyAtBound
<1> SUFFICES ASSUME BucketInv, Refilled < Unit
             PROVE  \E i \in DOMAIN admitted :
                       Parts(Len(admitted) + 1 - i + 1) > Parts(Burst) + Gain(now - admitted[i])
  BY DEF RefusedOnlyAtBound
<1>1. /\ Parts(Burst) \in Int /\ Unit \in Nat \ {0} /\ Unit <= Parts(Burst)
      /\ Gain(now - lastRefill) \in Nat
  <2>1. now - lastRefill \in Nat
    BY SMTT(30) DEF BucketInv, BucketTypes
  <2> QED
    BY <2>1, GainFacts, PartsFacts
<1>2. Refilled = tokens + Gain(now - lastRefill) /\ tokens # Parts(Burst)
  BY SMTT(30), <1>1 DEF Refilled, BucketInv, BucketTypes
<1>3. PICK i \in DOMAIN admitted : tokens = Left(admitted, i, lastRefill)
  BY <1>2 DEF BucketInv, Budget
<1>4. Left(admitted, i, now) < Unit
  BY <1>2, <1>3, LeftGrows DEF BucketInv
<1>5. /\ Parts(Len(admitted) + 1 - i + 1) =
            Parts(Burst) + Gain(now - admitted[i]) - Left(admitted, i, now) + Unit
      /\ Gain(now - admitted[i]) \in Int
      /\ Left(admitted, i, now) \in Int
  BY LeftAfter DEF BucketInv
<1>6. Parts(Len(admitted) + 1 - i + 1) > Parts(Burst) + Gain(now - admitted[i])
  BY SMTT(30), <1>1, <1>4, <1>5
<1> QED
  BY <1>6

\* The service uses the limiter as its specification says: a request is Allow
\* once, before anything else, and only the clock moves time.
THEOREM ServiceImplementsBucket == Spec => BucketSpec
<1>1. Init => BucketInit
  BY DEF Init
<1>2. [Next]_vars => [BucketNext]_<<now, bucket>>
  <2> SUFFICES ASSUME [Next]_vars PROVE [BucketNext]_<<now, bucket>>
    OBVIOUS
  <2>1. CASE UNCHANGED vars
    BY <2>1 DEF vars
  <2>2. CASE Clock
    BY <2>2 DEF Clock, BucketNext
  <2>3. CASE PostInvalid
    BY <2>3 DEF PostInvalid, BucketNext
  <2>4. ASSUME NEW t \in Task, Post(t) PROVE BucketNext
    BY <2>4 DEF Post, BucketNext
  <2>5. ASSUME NEW t \in Task, SubmitPlace(t) \/ SubmitCount(t) \/ SubmitRecord(t) \/ Promote(t) \/ Discard(t)
        PROVE  UNCHANGED <<now, bucket>>
    BY <2>5 DEF SubmitPlace, SubmitCount, SubmitRecord, Promote, Discard
  <2>6. ASSUME NEW w \in Worker, WorkerStep(w) PROVE UNCHANGED <<now, bucket>>
    BY <2>6 DEF WorkerStep, Dequeue, MarkBusy, RecordDequeue, Exec, CountComplete, CountFail, Settle, ListDead,
       CountDead, PushRetry, CountRetry, RecordOutcome, PoolDone
  <2>7. ASSUME StatsLock \/ StatsPool \/ StatsReturn \/ GetDLQ PROVE UNCHANGED <<now, bucket>>
    BY <2>7 DEF StatsLock, StatsPool, StatsReturn, GetDLQ
  <2> QED BY <2>1, <2>2, <2>3, <2>4, <2>5, <2>6, <2>7 DEF Next
<1> QED BY <1>1, <1>2, PTL DEF Spec, BucketSpec

LEMMA AlwaysBucket == BucketSpec => []BucketInv
BY InitBucket, NextBucket, PTL DEF BucketSpec

\* What the limiter lets through is bounded by Burst and Rate over every stretch
\* of time, whatever requests come and whatever else the service does.
THEOREM ServiceRateBound == Spec => []RateBound
<1>1. BucketInv => RateBound
  BY DEF BucketInv, Budget
<1> QED BY <1>1, AlwaysBucket, ServiceImplementsBucket, PTL

\* The limiter refuses only what would exceed that bound.
THEOREM ServiceRefusedOnlyAtBound == Spec => []RefusedOnlyAtBound
BY BucketRefuses, AlwaysBucket, ServiceImplementsBucket, PTL

-----------------------------------------------------------------------------
(* The tasks: types, and one place for each *)

Place == {"idle", "got", "busy", "exec", "ok", "err", "okdone", "failed", "dlq", "dead", "recdead",
          "push", "retry", "recretry", "errdone"}

\* where a worker has a task that nobody else may have
Running == {"got", "busy", "exec", "ok", "err", "failed", "dlq", "dead", "push"}

Engs  == [enqueue : Nat, complete : Nat, fail : Nat, retry : Nat, dead : Nat]
Pools == [busy : Int, processed : Nat, failed : Nat]
Mets  == [enqueue : Nat, dequeue : Nat, complete : Nat, fail : Nat, retry : Nat, dead : Nat, depth : Int]

PostTypes   == spc \in [Task -> {"new", "429", "409", "500", "503", "place", "count", "record", "201"}]
QueueTypes  == buffer \in Seq(Task) /\ heap \subseteq Task /\ left \subseteq Task
ListTypes   == dlq \in Seq(Task) /\ pages \in Seq(Task)
WorkerTypes == /\ wpc \in [Worker -> Place] /\ wtask \in [Worker -> SUBSET Task]
               /\ \A w \in Worker : wpc[w] # "idle" => \E t \in Task : wtask[w] = {t}
CountTypes  == eng \in Engs /\ pool \in Pools /\ met \in Mets
StatTypes   == seen \in Pools /\ stat \in {"idle", "pool", "reply"}

Types == PostTypes /\ QueueTypes /\ ListTypes /\ WorkerTypes /\ CountTypes /\ StatTypes

Runs(w, t) == wpc[w] \in Running /\ t \in wtask[w]

\* A task is in the buffer, in the heap, discarded or with one worker, and before
\* Submit placed it nowhere: what makes a count of tasks a sum of counts.
OnePlace ==
    /\ IsInjective(buffer)
    /\ \A t \in Task : spc[t] \in {"new", "place"} => t \notin Range(buffer) /\ t \notin heap /\ t \notin left
    /\ \A t \in Range(buffer) : t \notin heap /\ t \notin left
    /\ \A t \in heap : t \notin left
    /\ \A w \in Worker, t \in Task : Runs(w, t) => /\ spc[t] \notin {"new", "place"}
                                                  /\ t \notin Range(buffer) /\ t \notin heap /\ t \notin left
    /\ \A v, w \in Worker, t \in Task : Runs(v, t) /\ Runs(w, t) => v = w

\* A worker's step moves it, and no other worker.
LEMMA GotoFacts ==
    ASSUME Types, NEW w \in Worker, NEW here, NEW next, Goto(w, here, next)
    PROVE  /\ wpc[w] = here /\ wpc'[w] = next
           /\ \A v \in Worker \ {w} : wpc'[v] = wpc[v]
           /\ DOMAIN wpc' = Worker
BY DEF Goto, Types, WorkerTypes

\* The steps of a worker that move no task.
Counting(w) == \/ MarkBusy(w) \/ RecordDequeue(w) \/ Exec(w) \/ CountComplete(w) \/ CountFail(w) \/ Settle(w)
               \/ ListDead(w) \/ CountDead(w) \/ CountRetry(w) \/ RecordOutcome(w)

LEMMA CountingFacts ==
    ASSUME Types, NEW w \in Worker, Counting(w)
    PROVE  /\ UNCHANGED <<spc, buffer, heap, left, wtask, stat, seen, pages>>
           /\ wpc[w] # "idle" /\ wpc'[w] # "idle" /\ wpc' \in [Worker -> Place]
           /\ wpc'[w] \in Running => wpc[w] \in Running
           /\ \A v \in Worker \ {w} : wpc'[v] = wpc[v]
<1>1. UNCHANGED <<spc, buffer, heap, left, wtask, stat, seen, pages>>
  BY DEF Counting, MarkBusy, RecordDequeue, Exec, CountComplete, CountFail, Settle, ListDead, CountDead,
     CountRetry, RecordOutcome, queues, reader
<1>2. PICK here \in Place, next \in Place : /\ Goto(w, here, next) /\ here # "idle" /\ next # "idle"
                                            /\ next \in Running => here \in Running
  <2> DEFINE ok(here, next) == /\ here \in Place /\ next \in Place /\ here # "idle" /\ next # "idle"
                               /\ next \in Running => here \in Running
  <2>1. /\ ok("got", "busy") /\ ok("busy", "exec") /\ ok("exec", "ok") /\ ok("exec", "err") /\ ok("ok", "okdone")
        /\ ok("err", "failed") /\ ok("failed", "dlq") /\ ok("failed", "push") /\ ok("dlq", "dead")
        /\ ok("dead", "recdead") /\ ok("retry", "recretry") /\ ok("recdead", "errdone") /\ ok("recretry", "errdone")
    BY DEF Place, Running
  <2>2. \/ Goto(w, "got", "busy") \/ Goto(w, "busy", "exec") \/ Goto(w, "exec", "ok") \/ Goto(w, "exec", "err")
        \/ Goto(w, "ok", "okdone") \/ Goto(w, "err", "failed") \/ Goto(w, "failed", "dlq") \/ Goto(w, "failed", "push")
        \/ Goto(w, "dlq", "dead") \/ Goto(w, "dead", "recdead") \/ Goto(w, "retry", "recretry")
        \/ Goto(w, "recdead", "errdone") \/ Goto(w, "recretry", "errdone")
    BY DEF Counting, MarkBusy, RecordDequeue, Exec, CountComplete, CountFail, Settle, ListDead, CountDead,
       CountRetry, RecordOutcome
  <2> QED BY <2>1, <2>2
<1>3. wpc' \in [Worker -> Place]
  BY <1>2 DEF Goto, Types, WorkerTypes
<1> QED BY <1>1, <1>2, <1>3, GotoFacts

\* The steps of a request that place no task.
LEMMA AnswerFacts ==
    ASSUME Types, NEW t \in Task, Post(t) \/ SubmitCount(t) \/ SubmitRecord(t)
    PROVE  /\ UNCHANGED <<buffer, heap, left, dlq, pages, wpc, wtask, pool, stat, seen>>
           /\ \E s \in {"429", "place", "409", "500", "record", "201"} : Answer(t, s)
           /\ spc'[t] = "place" => spc[t] = "new"
<1>1. UNCHANGED <<buffer, heap, left, dlq, pages, wpc, wtask, pool, stat, seen>>
  BY DEF Post, SubmitCount, SubmitRecord, queues, work, counts, reader
<1>2. PICK s \in {"429", "place", "409", "500", "record", "201"} : Answer(t, s) /\ (s = "place" => spc[t] = "new")
  BY DEF Post, SubmitCount, SubmitRecord
<1>3. spc'[t] = s
  BY <1>2 DEF Answer, Types, PostTypes
<1> QED BY <1>1, <1>2, <1>3

\* What the increments do to the counters.
LEMMA EngBumps ==
    ASSUME NEW e \in Engs
    PROVE  /\ [e EXCEPT !.enqueue = @ + 1] \in Engs /\ [e EXCEPT !.complete = @ + 1] \in Engs
           /\ [e EXCEPT !.fail = @ + 1] \in Engs /\ [e EXCEPT !.dead = @ + 1] \in Engs
           /\ [e EXCEPT !.retry = @ + 1] \in Engs
<1>1. [e EXCEPT !.enqueue = @ + 1] \in Engs
  BY SMTT(30) DEF Engs
<1>2. [e EXCEPT !.complete = @ + 1] \in Engs
  BY SMTT(30) DEF Engs
<1>3. [e EXCEPT !.fail = @ + 1] \in Engs
  BY SMTT(30) DEF Engs
<1>4. [e EXCEPT !.dead = @ + 1] \in Engs
  BY SMTT(30) DEF Engs
<1>5. [e EXCEPT !.retry = @ + 1] \in Engs
  BY SMTT(30) DEF Engs
<1> QED BY <1>1, <1>2, <1>3, <1>4, <1>5

LEMMA PoolSets ==
    ASSUME NEW p \in Pools
    PROVE  /\ \A v \in Int : [p EXCEPT !.busy = v] \in Pools
           /\ \A v \in Nat : [p EXCEPT !.processed = v] \in Pools /\ [p EXCEPT !.failed = v] \in Pools
<1>1. ASSUME NEW v \in Int PROVE [p EXCEPT !.busy = v] \in Pools
  BY DEF Pools
<1>2. ASSUME NEW v \in Nat PROVE [p EXCEPT !.processed = v] \in Pools
  BY DEF Pools
<1>3. ASSUME NEW v \in Nat PROVE [p EXCEPT !.failed = v] \in Pools
  BY DEF Pools
<1> QED BY <1>1, <1>2, <1>3

LEMMA PoolBumps ==
    ASSUME NEW p \in Pools
    PROVE  /\ [p EXCEPT !.busy = @ + 1] \in Pools
           /\ [p EXCEPT !.busy = @ - 1, !.processed = @ + 1] \in Pools
           /\ [p EXCEPT !.busy = @ - 1, !.processed = @ + 1, !.failed = @ + 1] \in Pools
<1> DEFINE b == [p EXCEPT !.busy = @ - 1]
           q == [b EXCEPT !.processed = @ + 1]
<1>0. p.busy \in Int /\ p.processed \in Nat /\ p.failed \in Nat
  BY DEF Pools
<1>1. [p EXCEPT !.busy = @ + 1] \in Pools /\ b \in Pools
  BY SMTT(30), <1>0, PoolSets
<1>2. [p EXCEPT !.busy = @ - 1, !.processed = @ + 1] = q
  BY DEF Pools
<1>3. [p EXCEPT !.busy = @ - 1, !.processed = @ + 1, !.failed = @ + 1] = [q EXCEPT !.failed = @ + 1]
  BY DEF Pools
<1> HIDE DEF b
<1>4. b.processed + 1 \in Nat
  BY SMTT(30), <1>1 DEF Pools
<1>5. q \in Pools
  BY <1>1, <1>4, PoolSets
<1> HIDE DEF q
<1>6. q.failed + 1 \in Nat
  BY SMTT(30), <1>5 DEF Pools
<1>7. [q EXCEPT !.failed = @ + 1] \in Pools
  BY <1>5, <1>6, PoolSets
<1> QED BY <1>1, <1>2, <1>3, <1>5, <1>7

LEMMA MetBumps ==
    ASSUME NEW m \in Mets
    PROVE  /\ [m EXCEPT !.complete = @ + 1] \in Mets /\ [m EXCEPT !.fail = @ + 1] \in Mets
           /\ [m EXCEPT !.dead = @ + 1] \in Mets /\ [m EXCEPT !.retry = @ + 1] \in Mets
           /\ [m EXCEPT !.enqueue = @ + 1, !.depth = @ + 1] \in Mets
           /\ [m EXCEPT !.dequeue = @ + 1, !.depth = @ - 1] \in Mets
<1>1. [m EXCEPT !.complete = @ + 1] \in Mets
  BY SMTT(30) DEF Mets
<1>2. [m EXCEPT !.fail = @ + 1] \in Mets
  BY SMTT(30) DEF Mets
<1>3. [m EXCEPT !.dead = @ + 1] \in Mets
  BY SMTT(30) DEF Mets
<1>4. [m EXCEPT !.retry = @ + 1] \in Mets
  BY SMTT(30) DEF Mets
<1> DEFINE e == [m EXCEPT !.enqueue = @ + 1]
           d == [m EXCEPT !.dequeue = @ + 1]
<1>5. e \in Mets
  BY SMTT(30) DEF Mets
<1>6. d \in Mets
  BY SMTT(30) DEF Mets
<1>7. [m EXCEPT !.enqueue = @ + 1, !.depth = @ + 1] = [e EXCEPT !.depth = @ + 1]
  BY DEF Mets
<1>8. [m EXCEPT !.dequeue = @ + 1, !.depth = @ - 1] = [d EXCEPT !.depth = @ - 1]
  BY DEF Mets
<1> HIDE DEF e, d
<1>9. [e EXCEPT !.depth = @ + 1] \in Mets
  BY SMTT(30), <1>5 DEF Mets
<1>10. [d EXCEPT !.depth = @ - 1] \in Mets
  BY SMTT(30), <1>6 DEF Mets
<1> QED BY <1>1, <1>2, <1>3, <1>4, <1>7, <1>8, <1>9, <1>10

LEMMA NextTypes == Types /\ [Next]_vars => Types'
<1> SUFFICES ASSUME Types, [Next]_vars PROVE Types'
  OBVIOUS
<1>0. PostTypes /\ QueueTypes /\ ListTypes /\ WorkerTypes /\ CountTypes /\ StatTypes
  BY DEF Types
<1>1. CASE UNCHANGED vars \/ Clock \/ PostInvalid \/ StatsLock \/ StatsReturn \/ StatsPool
  <2>1. UNCHANGED <<spc, buffer, heap, left, dlq, pages, wpc, wtask, eng, pool, met>>
    BY <1>1 DEF vars, Clock, PostInvalid, StatsLock, StatsReturn, StatsPool, queues, work, counts
  <2>2. seen' \in {seen, pool, Idle} /\ stat' \in {stat, "idle", "pool", "reply"}
    BY <1>1 DEF vars, Clock, PostInvalid, StatsLock, StatsReturn, StatsPool, reader
  <2>3. Idle \in Pools
    BY SMTT(30) DEF Idle, Pools
  <2>4. StatTypes'
    BY <1>0, <2>2, <2>3 DEF StatTypes, CountTypes
  <2> QED BY <1>0, <2>1, <2>4 DEF Types, PostTypes, QueueTypes, ListTypes, WorkerTypes, CountTypes
<1>2. CASE GetDLQ
  <2>1. UNCHANGED <<spc, buffer, heap, left, dlq, wpc, wtask, eng, pool, met, stat, seen>>
    BY <1>2 DEF GetDLQ, queues, work, counts, reader
  <2>2. ListDLQ(PageSize, Len(pages)) \in Seq(Task)
    <3> DEFINE end == IF Len(pages) + PageSize > Len(dlq) THEN Len(dlq) ELSE Len(pages) + PageSize
    <3>1. Len(pages) \in Nat /\ Len(dlq) \in Nat /\ PageSize \in Nat
      BY SMTT(30), <1>0, ServiceAssumption DEF ListTypes
    <3>2. end \in Nat /\ end <= Len(dlq)
      BY SMTT(30), <3>1
    <3>3. \A i \in Len(pages) + 1 .. end : dlq[i] \in Task
      BY SMTT(30), <1>0, <3>1, <3>2 DEF ListTypes
    <3>4. SubSeq(dlq, Len(pages) + 1, end) \in Seq(Task)
      BY SMTT(30), <1>0, <3>1, <3>2, <3>3 DEF ListTypes
    <3> QED BY <3>4 DEF ListDLQ
  <2>3. pages' \in Seq(Task)
    BY SMTT(30), <1>0, <1>2, <2>2 DEF GetDLQ, ListTypes
  <2> QED BY <1>0, <2>1, <2>3 DEF Types, PostTypes, QueueTypes, ListTypes, WorkerTypes, CountTypes, StatTypes
<1>3. ASSUME NEW t \in Task, Post(t) \/ SubmitCount(t) \/ SubmitRecord(t) PROVE Types'
  <2>1. UNCHANGED <<buffer, heap, left, dlq, pages, wpc, wtask, pool, stat, seen>>
        /\ \E s \in {"429", "place", "409", "500", "record", "201"} : Answer(t, s)
    BY <1>3, AnswerFacts
  <2>2. PostTypes'
    BY SMTT(30), <1>0, <2>1 DEF Answer, PostTypes
  <2>3. eng' = eng \/ eng' = [eng EXCEPT !.enqueue = @ + 1]
    BY <1>3 DEF Post, SubmitCount, SubmitRecord, counts
  <2>4. met' = met \/ met' = [met EXCEPT !.enqueue = @ + 1, !.depth = @ + 1]
    BY <1>3 DEF Post, SubmitCount, SubmitRecord, counts
  <2>5. CountTypes'
    BY <1>0, <2>1, <2>3, <2>4, EngBumps, MetBumps DEF CountTypes
  <2> QED BY <1>0, <2>1, <2>2, <2>5 DEF Types, QueueTypes, ListTypes, WorkerTypes, StatTypes
<1>4. ASSUME NEW t \in Task, SubmitPlace(t) \/ Promote(t) \/ Discard(t) PROVE Types'
  <2>1. UNCHANGED <<dlq, pages, wpc, wtask, eng, pool, met, stat, seen>>
    BY <1>4 DEF SubmitPlace, Promote, Discard, work, counts, reader
  <2>2. /\ UNCHANGED spc \/ Answer(t, "count") \/ Answer(t, "503")
        /\ buffer' = buffer \/ buffer' = Append(buffer, t)
        /\ heap' = heap \/ heap' = heap \cup {t} \/ heap' = heap \ {t}
        /\ left' = left \/ left' = left \cup {t}
    BY <1>4 DEF SubmitPlace, Promote, Discard
  <2>3. PostTypes'
    BY <1>0, <2>2 DEF Answer, PostTypes
  <2>4. QueueTypes'
    BY SMTT(30), <1>0, <2>2 DEF QueueTypes
  <2> QED BY <1>0, <2>1, <2>3, <2>4 DEF Types, ListTypes, WorkerTypes, CountTypes, StatTypes
<1>5. ASSUME NEW w \in Worker, Counting(w) PROVE Types'
  <2>1. /\ UNCHANGED <<spc, buffer, heap, left, wtask, stat, seen, pages>>
        /\ wpc[w] # "idle" /\ wpc' \in [Worker -> Place]
        /\ \A v \in Worker \ {w} : wpc'[v] = wpc[v]
    BY <1>5, CountingFacts
  <2>2. \/ eng' = eng \/ eng' = [eng EXCEPT !.complete = @ + 1] \/ eng' = [eng EXCEPT !.fail = @ + 1]
        \/ eng' = [eng EXCEPT !.dead = @ + 1] \/ eng' = [eng EXCEPT !.retry = @ + 1]
    BY <1>5 DEF Counting, MarkBusy, RecordDequeue, Exec, CountComplete, CountFail, Settle, ListDead,
       CountDead, CountRetry, RecordOutcome, counts
  <2>3. pool' = pool \/ pool' = [pool EXCEPT !.busy = @ + 1]
    BY <1>5 DEF Counting, MarkBusy, RecordDequeue, Exec, CountComplete, CountFail, Settle, ListDead,
       CountDead, CountRetry, RecordOutcome, counts
  <2>4. \/ met' = met \/ met' = [met EXCEPT !.dequeue = @ + 1, !.depth = @ - 1]
        \/ met' = [met EXCEPT !.complete = @ + 1] \/ met' = [met EXCEPT !.fail = @ + 1]
        \/ met' = [met EXCEPT !.dead = @ + 1] \/ met' = [met EXCEPT !.retry = @ + 1]
    BY <1>5 DEF Counting, MarkBusy, RecordDequeue, Exec, CountComplete, CountFail, Settle, ListDead,
       CountDead, CountRetry, RecordOutcome, counts
  <2>5. dlq' = dlq \/ \E t \in wtask[w] : dlq' = Append(dlq, t)
    BY <1>5 DEF Counting, MarkBusy, RecordDequeue, Exec, CountComplete, CountFail, Settle, ListDead,
       CountDead, CountRetry, RecordOutcome
  <2>6. ListTypes'
    <3>1. wtask[w] \subseteq Task
      BY <1>0 DEF WorkerTypes
    <3>2. \A t \in Task : Append(dlq, t) \in Seq(Task)
      BY SMTT(30), <1>0 DEF ListTypes
    <3> QED BY <1>0, <2>1, <2>5, <3>1, <3>2 DEF ListTypes
  <2>7. CountTypes'
    BY <1>0, <2>2, <2>3, <2>4, EngBumps, PoolBumps, MetBumps DEF CountTypes
  <2>8. WorkerTypes'
    BY <1>0, <2>1 DEF WorkerTypes
  <2> QED BY <1>0, <2>1, <2>6, <2>7, <2>8 DEF Types, PostTypes, QueueTypes, StatTypes
<1>6. ASSUME NEW w \in Worker, Dequeue(w) PROVE Types'
  <2>1. UNCHANGED <<spc, heap, left, dlq, eng, pool, met, stat, seen, pages>>
    BY <1>6 DEF Dequeue, counts, reader
  <2>2. buffer # <<>> /\ buffer' = Tail(buffer) /\ wtask' = [wtask EXCEPT ![w] = {Head(buffer)}]
        /\ wpc' = [wpc EXCEPT ![w] = "got"]
    BY <1>6 DEF Dequeue, Goto
  <2>3. QueueTypes' /\ Head(buffer) \in Task
    BY SMTT(30), <1>0, <2>1, <2>2 DEF QueueTypes
  <2>4. WorkerTypes'
    BY <1>0, <2>2, <2>3 DEF WorkerTypes, Place
  <2> QED BY <1>0, <2>1, <2>3, <2>4 DEF Types, PostTypes, ListTypes, CountTypes, StatTypes
<1>7. ASSUME NEW w \in Worker, PushRetry(w) PROVE Types'
  <2>1. UNCHANGED <<spc, buffer, left, wtask, dlq, eng, pool, met, stat, seen, pages>>
    BY <1>7 DEF PushRetry, counts, reader
  <2>2. heap' = heap \cup wtask[w] /\ wpc' = [wpc EXCEPT ![w] = "retry"] /\ wpc[w] = "push"
    BY <1>7 DEF PushRetry, Goto
  <2>3. WorkerTypes' /\ QueueTypes'
    BY <1>0, <2>1, <2>2 DEF WorkerTypes, QueueTypes, Place
  <2> QED BY <1>0, <2>1, <2>3 DEF Types, PostTypes, ListTypes, CountTypes, StatTypes
<1>8. ASSUME NEW w \in Worker, PoolDone(w) PROVE Types'
  <2>1. UNCHANGED <<spc, buffer, heap, left, dlq, eng, met, stat, seen, pages>>
    BY <1>8 DEF PoolDone, queues, reader
  <2>2. /\ wtask' = [wtask EXCEPT ![w] = {}] /\ wpc' = [wpc EXCEPT ![w] = "idle"]
        /\ \/ pool' = [pool EXCEPT !.busy = @ - 1, !.processed = @ + 1]
           \/ pool' = [pool EXCEPT !.busy = @ - 1, !.processed = @ + 1, !.failed = @ + 1]
    BY <1>8 DEF PoolDone, Goto
  <2>3. WorkerTypes'
    BY <1>0, <2>2 DEF WorkerTypes, Place
  <2>4. CountTypes'
    BY <1>0, <2>1, <2>2, PoolBumps DEF CountTypes
  <2> QED BY <1>0, <2>1, <2>3, <2>4 DEF Types, PostTypes, QueueTypes, ListTypes, StatTypes
<1> QED BY <1>1, <1>2, <1>3, <1>4, <1>5, <1>6, <1>7, <1>8 DEF Next, WorkerStep, Counting

LEMMA NextOnePlace == Types /\ OnePlace /\ [Next]_vars => OnePlace'
<1> SUFFICES ASSUME Types, OnePlace, [Next]_vars PROVE OnePlace'
  OBVIOUS
<1>0. /\ buffer \in Seq(Task) /\ heap \subseteq Task /\ left \subseteq Task /\ Range(buffer) \subseteq Task
      /\ wpc \in [Worker -> Place] /\ wtask \in [Worker -> SUBSET Task]
      /\ spc \in [Task -> {"new", "429", "409", "500", "503", "place", "count", "record", "201"}]
  BY SMTT(30) DEF Types, QueueTypes, WorkerTypes, PostTypes, Range
<1>1. CASE UNCHANGED vars \/ Clock \/ PostInvalid \/ StatsLock \/ StatsReturn \/ StatsPool \/ GetDLQ
  <2>1. UNCHANGED <<spc, buffer, heap, left, wpc, wtask>>
    BY <1>1 DEF vars, Clock, PostInvalid, StatsLock, StatsReturn, StatsPool, GetDLQ, queues, work
  <2> QED BY <2>1 DEF OnePlace, Runs
<1>2. ASSUME NEW t \in Task, Post(t) \/ SubmitCount(t) \/ SubmitRecord(t) PROVE OnePlace'
  <2>1. /\ UNCHANGED <<buffer, heap, left, wpc, wtask>>
        /\ \E s \in {"429", "place", "409", "500", "record", "201"} : Answer(t, s)
        /\ spc'[t] = "place" => spc[t] = "new"
    BY <1>2, AnswerFacts
  <2>2. \A u \in Task : spc'[u] \in {"new", "place"} => spc[u] \in {"new", "place"}
    BY <1>0, <2>1 DEF Answer
  <2> QED BY <2>1, <2>2 DEF OnePlace, Runs
<1>3. ASSUME NEW t \in Task, SubmitPlace(t) PROVE OnePlace'
  <2>1. /\ spc[t] = "place" /\ UNCHANGED <<left, wpc, wtask>>
        /\ \A u \in Task \ {t} : spc'[u] = spc[u]
        /\ spc'[t] \in {"count", "503"}
        /\ \/ heap' = heap \cup {t} /\ UNCHANGED buffer
           \/ buffer' = Append(buffer, t) /\ UNCHANGED heap
           \/ UNCHANGED <<buffer, heap>>
    <3>1. /\ spc[t] = "place" /\ UNCHANGED <<left, wpc, wtask>>
          /\ Answer(t, "count") \/ Answer(t, "503")
          /\ \/ heap' = heap \cup {t} /\ UNCHANGED buffer
             \/ buffer' = Append(buffer, t) /\ UNCHANGED heap
             \/ UNCHANGED <<buffer, heap>>
      BY <1>3 DEF SubmitPlace, work
    <3> QED BY <1>0, <3>1 DEF Answer
  <2>2. /\ Range(Append(buffer, t)) = Range(buffer) \cup {t}
        /\ t \notin Range(buffer) => IsInjective(Append(buffer, t))
    BY <1>0, AppendFacts DEF OnePlace
  <2>3. /\ t \notin Range(buffer) /\ t \notin heap /\ t \notin left /\ \A w \in Worker : ~Runs(w, t)
    BY <2>1 DEF OnePlace
  <2>4. \A v \in Worker, u \in Task : Runs(v, u)' <=> Runs(v, u)
    BY <2>1 DEF Runs
  <2>5. CASE heap' = heap \cup {t} /\ UNCHANGED buffer
    BY <2>1, <2>3, <2>4, <2>5 DEF OnePlace
  <2>6. CASE buffer' = Append(buffer, t) /\ UNCHANGED heap
    BY <2>1, <2>2, <2>3, <2>4, <2>6 DEF OnePlace
  <2>7. CASE UNCHANGED <<buffer, heap>>
    BY <2>1, <2>4, <2>7 DEF OnePlace
  <2> QED BY <2>1, <2>5, <2>6, <2>7
<1>4. ASSUME NEW t \in Task, Promote(t) PROVE OnePlace'
  <2>1. /\ t \in heap /\ heap' = heap \ {t} /\ buffer' = Append(buffer, t)
        /\ UNCHANGED <<spc, left, wpc, wtask>>
    BY <1>4 DEF Promote, work
  <2>2. /\ Range(Append(buffer, t)) = Range(buffer) \cup {t}
        /\ t \notin Range(buffer) => IsInjective(Append(buffer, t))
    BY <1>0, AppendFacts DEF OnePlace
  <2> QED BY <2>1, <2>2 DEF OnePlace, Runs
<1>5. ASSUME NEW t \in Task, Discard(t) PROVE OnePlace'
  <2>1. t \in heap /\ heap' = heap \ {t} /\ left' = left \cup {t} /\ UNCHANGED <<spc, buffer, wpc, wtask>>
    BY <1>5 DEF Discard, work
  <2> QED BY <2>1 DEF OnePlace, Runs
<1>6. ASSUME NEW w \in Worker, Counting(w) PROVE OnePlace'
  <2>1. /\ UNCHANGED <<spc, buffer, heap, left, wtask>>
        /\ wpc'[w] \in Running => wpc[w] \in Running
        /\ \A v \in Worker \ {w} : wpc'[v] = wpc[v]
    BY <1>6, CountingFacts
  <2>2. \A v \in Worker, t \in Task : Runs(v, t)' => Runs(v, t)
    BY <2>1 DEF Runs
  <2> QED BY <2>1, <2>2 DEF OnePlace
<1>7. ASSUME NEW w \in Worker, Dequeue(w) PROVE OnePlace'
  <2>1. /\ buffer # <<>> /\ buffer' = Tail(buffer) /\ wtask' = [wtask EXCEPT ![w] = {Head(buffer)}]
        /\ wpc' = [wpc EXCEPT ![w] = "got"] /\ UNCHANGED <<spc, heap, left>>
    BY <1>7 DEF Dequeue, Goto
  <2>2. /\ Range(buffer) = Range(Tail(buffer)) \cup {Head(buffer)}
        /\ IsInjective(Tail(buffer)) /\ Head(buffer) \notin Range(Tail(buffer))
    BY <1>0, <2>1, TailFacts DEF OnePlace
  <2>3. \A v \in Worker, t \in Task : Runs(v, t)' => Runs(v, t) \/ (v = w /\ t = Head(buffer))
    BY <1>0, <2>1 DEF Runs
  <2>4. \A v \in Worker : ~Runs(v, Head(buffer))
    BY <1>0, <2>2 DEF OnePlace
  <2> QED BY <2>1, <2>2, <2>3, <2>4 DEF OnePlace
<1>8. ASSUME NEW w \in Worker, PushRetry(w) PROVE OnePlace'
  <2>1. /\ wpc[w] = "push" /\ wpc' = [wpc EXCEPT ![w] = "retry"] /\ heap' = heap \cup wtask[w]
        /\ UNCHANGED <<spc, buffer, left, wtask>>
    BY <1>8 DEF PushRetry, Goto
  <2>2. \A v \in Worker, t \in Task : Runs(v, t)' => Runs(v, t) /\ v # w
    BY <1>0, <2>1 DEF Runs, Running
  <2>3. \A t \in wtask[w] : t \in Task /\ Runs(w, t)
    BY <1>0, <2>1 DEF Runs, Running
  <2> QED BY <2>1, <2>2, <2>3 DEF OnePlace
<1>9. ASSUME NEW w \in Worker, PoolDone(w) PROVE OnePlace'
  <2>1. wtask' = [wtask EXCEPT ![w] = {}] /\ UNCHANGED <<spc, buffer, heap, left>>
        /\ wpc' = [wpc EXCEPT ![w] = "idle"]
    BY <1>9 DEF PoolDone, Goto, queues
  <2>2. \A v \in Worker, t \in Task : Runs(v, t)' => Runs(v, t)
    BY <1>0, <2>1 DEF Runs
  <2> QED BY <2>1, <2>2 DEF OnePlace
<1> QED BY <1>1, <1>2, <1>3, <1>4, <1>5, <1>6, <1>7, <1>8, <1>9 DEF Next, WorkerStep, Counting

-----------------------------------------------------------------------------
(* The counters add up *)

\* How many a set has, when at most one element comes or goes.
LEMMA CountMoves ==
    ASSUME NEW A, IsFiniteSet(A), NEW B, IsFiniteSet(B), NEW x, \A y : y # x => (y \in A <=> y \in B)
    PROVE  /\ Cardinality(A) \in Nat /\ Cardinality(B) \in Nat
           /\ (x \in A <=> x \in B) => Cardinality(B) = Cardinality(A)
           /\ x \in A /\ x \notin B => Cardinality(B) = Cardinality(A) - 1
           /\ x \notin A /\ x \in B => Cardinality(B) = Cardinality(A) + 1
<1>1. Cardinality(A) \in Nat /\ Cardinality(B) \in Nat
  BY FS_CardinalityType
<1>2. ASSUME x \in A <=> x \in B PROVE A = B
  <2>1. \A y : y \in A <=> y \in B
    BY <1>2
  <2> QED BY <2>1
<1>3. ASSUME x \in A, x \notin B PROVE Cardinality(B) = Cardinality(A) - 1
  <2>1. B = A \ {x}
    BY <1>3
  <2> QED BY <1>3, <2>1, FS_RemoveElement
<1>4. ASSUME x \notin A, x \in B PROVE Cardinality(B) = Cardinality(A) + 1
  <2>1. B = A \cup {x}
    BY <1>4
  <2> QED BY <1>4, <2>1, FS_AddElement
<1> QED BY <1>1, <1>2, <1>3, <1>4

LEMMA AtMoves ==
    ASSUME Types, NEW w \in Worker, NEW here, NEW next, Goto(w, here, next), NEW CONSTANT P
    PROVE  /\ At(P) \in Nat /\ At(P)' \in Nat
           /\ (here \in P <=> next \in P) => At(P)' = At(P)
           /\ here \in P /\ next \notin P => At(P)' = At(P) - 1
           /\ here \notin P /\ next \in P => At(P)' = At(P) + 1
<1> DEFINE A == {v \in Worker : wpc[v] \in P}
           B == {v \in Worker : wpc'[v] \in P}
<1>1. wpc[w] = here /\ wpc'[w] = next /\ \A v \in Worker \ {w} : wpc'[v] = wpc[v]
  BY GotoFacts
<1>2. IsFiniteSet(A) /\ IsFiniteSet(B)
  BY ServiceAssumption, FS_Subset
<1>3. /\ \A v : v # w => (v \in A <=> v \in B)
      /\ w \in A <=> here \in P
      /\ w \in B <=> next \in P
  BY <1>1
<1>4. At(P) = Cardinality(A) /\ At(P)' = Cardinality(B)
  BY DEF At
<1> HIDE DEF A, B
<1>5. /\ Cardinality(A) \in Nat /\ Cardinality(B) \in Nat
      /\ (w \in A <=> w \in B) => Cardinality(B) = Cardinality(A)
      /\ w \in A /\ w \notin B => Cardinality(B) = Cardinality(A) - 1
      /\ w \notin A /\ w \in B => Cardinality(B) = Cardinality(A) + 1
  BY <1>2, <1>3, CountMoves
<1> QED BY <1>3, <1>4, <1>5

LEMMA PostsMoves ==
    ASSUME Types, NEW t \in Task, NEW s, Answer(t, s), NEW CONSTANT P
    PROVE  /\ Posts(P) \in Nat /\ Posts(P)' \in Nat
           /\ (spc[t] \in P <=> s \in P) => Posts(P)' = Posts(P)
           /\ spc[t] \in P /\ s \notin P => Posts(P)' = Posts(P) - 1
           /\ spc[t] \notin P /\ s \in P => Posts(P)' = Posts(P) + 1
<1> DEFINE A == {u \in Task : spc[u] \in P}
           B == {u \in Task : spc'[u] \in P}
<1>1. spc'[t] = s /\ \A u \in Task \ {t} : spc'[u] = spc[u]
  BY DEF Answer, Types, PostTypes
<1>2. IsFiniteSet(A) /\ IsFiniteSet(B)
  BY ServiceAssumption, FS_Subset
<1>3. /\ \A u : u # t => (u \in A <=> u \in B)
      /\ t \in A <=> spc[t] \in P
      /\ t \in B <=> s \in P
  BY <1>1
<1>4. Posts(P) = Cardinality(A) /\ Posts(P)' = Cardinality(B)
  BY DEF Posts
<1> HIDE DEF A, B
<1>5. /\ Cardinality(A) \in Nat /\ Cardinality(B) \in Nat
      /\ (t \in A <=> t \in B) => Cardinality(B) = Cardinality(A)
      /\ t \in A /\ t \notin B => Cardinality(B) = Cardinality(A) - 1
      /\ t \notin A /\ t \in B => Cardinality(B) = Cardinality(A) + 1
  BY <1>2, <1>3, CountMoves
<1> QED BY <1>3, <1>4, <1>5

\* The counts are numbers, of finite sets.
LEMMA CountsAreNumbers ==
    ASSUME Types, NEW CONSTANT P
    PROVE  /\ At(P) \in Nat /\ Posts(P) \in Nat /\ Len(buffer) \in Nat /\ Len(dlq) \in Nat
           /\ IsFiniteSet(heap) /\ IsFiniteSet(left)
           /\ Cardinality(heap) \in Nat /\ Cardinality(left) \in Nat
<1>1. IsFiniteSet({w \in Worker : wpc[w] \in P}) /\ IsFiniteSet({t \in Task : spc[t] \in P})
  BY ServiceAssumption, FS_Subset
<1>2. IsFiniteSet(heap) /\ IsFiniteSet(left)
  BY ServiceAssumption, FS_Subset DEF Types, QueueTypes
<1>3. Len(buffer) \in Nat /\ Len(dlq) \in Nat
  BY SMTT(30) DEF Types, QueueTypes, ListTypes
<1> QED BY <1>1, <1>2, <1>3, FS_CardinalityType DEF At, Posts

Fresh     == {"got", "busy"}          \* taken, and not yet recorded as a dequeue
Pushed    == {"retry", "recretry"}    \* back in the heap, and not yet recorded as a retry
Unsettled == {"failed", "dlq", "dead", "push", "retry"}  \* failed, not counted as retried or dead
Failing   == {"failed", "dlq", "dead", "push", "retry", "recdead", "recretry", "errdone"}
Counted   == Failing \cup {"okdone"}  \* counted by the engine and not by the pool
Working   == Counted \cup {"busy", "exec", "ok", "err"}
Listed    == {"dead"}                 \* in the DLQ, not counted

\* How many workers enter or leave those places.
Shift(running, fresh, pushed, unsettled, failing, counted, working, listed) ==
    /\ At(Running)' = At(Running) + running
    /\ At(Fresh)' = At(Fresh) + fresh
    /\ At(Pushed)' = At(Pushed) + pushed
    /\ At(Unsettled)' = At(Unsettled) + unsettled
    /\ At(Failing)' = At(Failing) + failing
    /\ At(Counted)' = At(Counted) + counted
    /\ At(Working)' = At(Working) + working
    /\ At(Listed)' = At(Listed) + listed

\* Each move of a worker, with the places it enters and leaves.
LEMMA Shifts ==
    ASSUME Types, NEW w \in Worker
    PROVE  /\ Goto(w, "idle", "got")         => Shift(1, 1, 0, 0, 0, 0, 0, 0)
           /\ Goto(w, "got", "busy")         => Shift(0, 0, 0, 0, 0, 0, 1, 0)
           /\ Goto(w, "busy", "exec")        => Shift(0, -1, 0, 0, 0, 0, 0, 0)
           /\ Goto(w, "exec", "ok")          => Shift(0, 0, 0, 0, 0, 0, 0, 0)
           /\ Goto(w, "exec", "err")         => Shift(0, 0, 0, 0, 0, 0, 0, 0)
           /\ Goto(w, "ok", "okdone")        => Shift(-1, 0, 0, 0, 0, 1, 0, 0)
           /\ Goto(w, "err", "failed")       => Shift(0, 0, 0, 1, 1, 1, 0, 0)
           /\ Goto(w, "failed", "dlq")       => Shift(0, 0, 0, 0, 0, 0, 0, 0)
           /\ Goto(w, "failed", "push")      => Shift(0, 0, 0, 0, 0, 0, 0, 0)
           /\ Goto(w, "dlq", "dead")         => Shift(0, 0, 0, 0, 0, 0, 0, 1)
           /\ Goto(w, "dead", "recdead")     => Shift(-1, 0, 0, -1, 0, 0, 0, -1)
           /\ Goto(w, "push", "retry")       => Shift(-1, 0, 1, 0, 0, 0, 0, 0)
           /\ Goto(w, "retry", "recretry")   => Shift(0, 0, 0, -1, 0, 0, 0, 0)
           /\ Goto(w, "recdead", "errdone")  => Shift(0, 0, 0, 0, 0, 0, 0, 0)
           /\ Goto(w, "recretry", "errdone") => Shift(0, 0, -1, 0, 0, 0, 0, 0)
           /\ Goto(w, "okdone", "idle")      => Shift(0, 0, 0, 0, 0, -1, -1, 0)
           /\ Goto(w, "errdone", "idle")     => Shift(0, 0, 0, 0, -1, -1, -1, 0)
<1> DEFINE in(p, P) == IF p \in P THEN 1 ELSE 0
<1>1. ASSUME NEW here, NEW next, Goto(w, here, next), NEW CONSTANT P
      PROVE  At(P)' = At(P) + (in(next, P) - in(here, P))
  BY SMTT(30), <1>1, AtMoves
<1> HIDE DEF in
<1>2. ASSUME NEW here, NEW next, Goto(w, here, next)
      PROVE  Shift(in(next, Running) - in(here, Running), in(next, Fresh) - in(here, Fresh),
                   in(next, Pushed) - in(here, Pushed), in(next, Unsettled) - in(here, Unsettled),
                   in(next, Failing) - in(here, Failing), in(next, Counted) - in(here, Counted),
                   in(next, Working) - in(here, Working), in(next, Listed) - in(here, Listed))
  BY <1>1, <1>2 DEF Shift
<1> USE DEF in, Running, Fresh, Pushed, Unsettled, Failing, Counted, Working, Listed
<1>3. Goto(w, "idle", "got") => Shift(1, 1, 0, 0, 0, 0, 0, 0)
  BY SMTT(30), <1>2
<1>4. Goto(w, "got", "busy") => Shift(0, 0, 0, 0, 0, 0, 1, 0)
  BY SMTT(30), <1>2
<1>5. Goto(w, "busy", "exec") => Shift(0, -1, 0, 0, 0, 0, 0, 0)
  BY SMTT(30), <1>2
<1>6. Goto(w, "exec", "ok") => Shift(0, 0, 0, 0, 0, 0, 0, 0)
  BY SMTT(30), <1>2
<1>7. Goto(w, "exec", "err") => Shift(0, 0, 0, 0, 0, 0, 0, 0)
  BY SMTT(30), <1>2
<1>8. Goto(w, "ok", "okdone") => Shift(-1, 0, 0, 0, 0, 1, 0, 0)
  BY SMTT(30), <1>2
<1>9. Goto(w, "err", "failed") => Shift(0, 0, 0, 1, 1, 1, 0, 0)
  BY SMTT(30), <1>2
<1>10. Goto(w, "failed", "dlq") => Shift(0, 0, 0, 0, 0, 0, 0, 0)
  BY SMTT(30), <1>2
<1>11. Goto(w, "failed", "push") => Shift(0, 0, 0, 0, 0, 0, 0, 0)
  BY SMTT(30), <1>2
<1>12. Goto(w, "dlq", "dead") => Shift(0, 0, 0, 0, 0, 0, 0, 1)
  BY SMTT(30), <1>2
<1>13. Goto(w, "dead", "recdead") => Shift(-1, 0, 0, -1, 0, 0, 0, -1)
  BY SMTT(30), <1>2
<1>14. Goto(w, "push", "retry") => Shift(-1, 0, 1, 0, 0, 0, 0, 0)
  BY SMTT(30), <1>2
<1>15. Goto(w, "retry", "recretry") => Shift(0, 0, 0, -1, 0, 0, 0, 0)
  BY SMTT(30), <1>2
<1>16. Goto(w, "recdead", "errdone") => Shift(0, 0, 0, 0, 0, 0, 0, 0)
  BY SMTT(30), <1>2
<1>17. Goto(w, "recretry", "errdone") => Shift(0, 0, -1, 0, 0, 0, 0, 0)
  BY SMTT(30), <1>2
<1>18. Goto(w, "okdone", "idle") => Shift(0, 0, 0, 0, 0, -1, -1, 0)
  BY SMTT(30), <1>2
<1>19. Goto(w, "errdone", "idle") => Shift(0, 0, 0, 0, -1, -1, -1, 0)
  BY SMTT(30), <1>2
<1> QED BY <1>3, <1>4, <1>5, <1>6, <1>7, <1>8, <1>9, <1>10, <1>11, <1>12, <1>13, <1>14, <1>15, <1>16, <1>17, <1>18, <1>19

\* in the buffer, in the heap or discarded
Waiting == Len(buffer) + Cardinality(heap) + Cardinality(left)

Enqueued  == eng.enqueue     \* the counters under names of their own
Completed == eng.complete
Failed    == eng.fail
Retried   == eng.retry
Died      == eng.dead
Busy      == pool.busy
Processed == pool.processed
Errors    == pool.failed
Depth     == met.depth
Requeued  == met.retry
Dead      == Len(dlq)

\* A task that was counted is in one account.
TasksAddUp ==
    /\ Enqueued + Posts({"count"}) = Waiting + Completed + Died + At(Running)
    /\ Depth + Requeued + At(Pushed) + Posts({"count", "record"}) = Waiting + At(Fresh)

\* So is an outcome, between the engine's counters, the pool's and the DLQ.
RunsAddUp == Processed + At(Counted) = Completed + Failed

OutcomesAddUp == /\ Busy = At(Working)
                 /\ Errors + At(Failing) = Failed
                 /\ Failed = Retried + Died + At(Unsettled)
                 /\ Dead = Died + At(Listed)

Accounts == TasksAddUp /\ RunsAddUp /\ OutcomesAddUp

\* The numbers in the accounts.
AccountTypes ==
    /\ Enqueued \in Nat /\ Completed \in Nat /\ Failed \in Nat /\ Retried \in Nat /\ Died \in Nat
    /\ Busy \in Int /\ Processed \in Nat /\ Errors \in Nat /\ Depth \in Int /\ Requeued \in Nat
    /\ Waiting \in Nat /\ Dead \in Nat
    /\ Posts({"count"}) \in Nat /\ Posts({"count", "record"}) \in Nat
    /\ At(Running) \in Nat /\ At(Fresh) \in Nat /\ At(Pushed) \in Nat /\ At(Unsettled) \in Nat
    /\ At(Failing) \in Nat /\ At(Counted) \in Nat /\ At(Working) \in Nat /\ At(Listed) \in Nat

LEMMA Numbers == Types => AccountTypes
<1> SUFFICES ASSUME Types PROVE AccountTypes
  OBVIOUS
<1>1. /\ Enqueued \in Nat /\ Completed \in Nat /\ Failed \in Nat /\ Retried \in Nat /\ Died \in Nat
      /\ Busy \in Int /\ Processed \in Nat /\ Errors \in Nat /\ Depth \in Int /\ Requeued \in Nat
  BY DEF Types, CountTypes, Engs, Pools, Mets, Enqueued, Completed, Failed, Retried, Died, Busy, Processed, Errors,
     Depth, Requeued
<1>2. ASSUME NEW CONSTANT P PROVE At(P) \in Nat /\ Posts(P) \in Nat
  BY CountsAreNumbers
<1>3. Len(buffer) \in Nat /\ Dead \in Nat /\ Cardinality(heap) \in Nat /\ Cardinality(left) \in Nat
  BY CountsAreNumbers DEF Dead
<1>4. Waiting \in Nat
  BY SMTT(30), <1>3 DEF Waiting
<1> QED BY <1>1, <1>2, <1>3, <1>4 DEF AccountTypes

LEMMA NoShift == ASSUME Types, UNCHANGED wpc PROVE Shift(0, 0, 0, 0, 0, 0, 0, 0)
<1>1. ASSUME NEW CONSTANT P PROVE At(P)' = At(P) + 0
  <2>1. At(P)' = At(P) /\ At(P) \in Nat
    BY CountsAreNumbers DEF At
  <2> QED BY SMTT(30), <2>1
<1> QED BY <1>1 DEF Shift

\* What an answer does to the number of requests that are yet to be counted and recorded.
LEMMA PostShifts ==
    ASSUME Types, NEW t \in Task
    PROVE  /\ spc[t] = "new" /\ (\E s \in {"429", "place", "409", "500"} : Answer(t, s)) =>
                /\ Posts({"count"})' = Posts({"count"})
                /\ Posts({"count", "record"})' = Posts({"count", "record"})
           /\ spc[t] = "place" /\ Answer(t, "503") =>
                /\ Posts({"count"})' = Posts({"count"})
                /\ Posts({"count", "record"})' = Posts({"count", "record"})
           /\ spc[t] = "place" /\ Answer(t, "count") =>
                /\ Posts({"count"})' = Posts({"count"}) + 1
                /\ Posts({"count", "record"})' = Posts({"count", "record"}) + 1
           /\ spc[t] = "count" /\ Answer(t, "record") =>
                /\ Posts({"count"})' = Posts({"count"}) - 1
                /\ Posts({"count", "record"})' = Posts({"count", "record"})
           /\ spc[t] = "record" /\ Answer(t, "201") =>
                /\ Posts({"count"})' = Posts({"count"})
                /\ Posts({"count", "record"})' = Posts({"count", "record"}) - 1
<1>1. ASSUME NEW s, Answer(t, s), NEW CONSTANT P
      PROVE  /\ (spc[t] \in P <=> s \in P) => Posts(P)' = Posts(P)
             /\ spc[t] \in P /\ s \notin P => Posts(P)' = Posts(P) - 1
             /\ spc[t] \notin P /\ s \in P => Posts(P)' = Posts(P) + 1
  BY <1>1, PostsMoves
<1>2. ASSUME spc[t] = "new", NEW s \in {"429", "place", "409", "500"}, Answer(t, s)
      PROVE  Posts({"count"})' = Posts({"count"}) /\ Posts({"count", "record"})' = Posts({"count", "record"})
  BY <1>1, <1>2
<1>3. ASSUME spc[t] = "place", Answer(t, "503")
      PROVE  Posts({"count"})' = Posts({"count"}) /\ Posts({"count", "record"})' = Posts({"count", "record"})
  BY SMTT(30), <1>1, <1>3
<1>4. ASSUME spc[t] = "place", Answer(t, "count")
      PROVE  Posts({"count"})' = Posts({"count"}) + 1 /\ Posts({"count", "record"})' = Posts({"count", "record"}) + 1
  BY <1>1, <1>4
<1>5. ASSUME spc[t] = "count", Answer(t, "record")
      PROVE  Posts({"count"})' = Posts({"count"}) - 1 /\ Posts({"count", "record"})' = Posts({"count", "record"})
  BY SMTT(30), <1>1, <1>5
<1>6. ASSUME spc[t] = "record", Answer(t, "201")
      PROVE  Posts({"count"})' = Posts({"count"}) /\ Posts({"count", "record"})' = Posts({"count", "record"}) - 1
  BY SMTT(30), <1>1, <1>6
<1> QED BY <1>2, <1>3, <1>4, <1>5, <1>6

\* What a step of a queue does to the number of tasks that wait.
LEMMA WaitingMoves ==
    ASSUME Types, NEW t \in Task
    PROVE  /\ t \notin heap /\ heap' = heap \cup {t} /\ UNCHANGED <<buffer, left>> => Waiting' = Waiting + 1
           /\ buffer' = Append(buffer, t) /\ UNCHANGED <<heap, left>> => Waiting' = Waiting + 1
           /\ t \in heap /\ heap' = heap \ {t} /\ buffer' = Append(buffer, t) /\ UNCHANGED left => Waiting' = Waiting
           /\ t \in heap /\ t \notin left /\ heap' = heap \ {t} /\ left' = left \cup {t} /\ UNCHANGED buffer =>
                Waiting' = Waiting
           /\ buffer # <<>> /\ buffer' = Tail(buffer) /\ UNCHANGED <<heap, left>> => Waiting' = Waiting - 1
<1>1. /\ Len(buffer) \in Nat /\ Cardinality(heap) \in Nat /\ Cardinality(left) \in Nat
      /\ IsFiniteSet(heap) /\ IsFiniteSet(left)
  BY CountsAreNumbers
<1>2. /\ Len(Append(buffer, t)) = Len(buffer) + 1
      /\ buffer # <<>> => Len(Tail(buffer)) = Len(buffer) - 1
  BY SMTT(30) DEF Types, QueueTypes
<1>3. /\ t \notin heap => Cardinality(heap \cup {t}) = Cardinality(heap) + 1
      /\ t \in heap => Cardinality(heap \ {t}) = Cardinality(heap) - 1
      /\ t \notin left => Cardinality(left \cup {t}) = Cardinality(left) + 1
  BY <1>1, FS_AddElement, FS_RemoveElement
<1> USE DEF Waiting
<1>4. ASSUME t \notin heap, heap' = heap \cup {t}, UNCHANGED <<buffer, left>> PROVE Waiting' = Waiting + 1
  <2>1. Cardinality(heap') = Cardinality(heap) + 1 /\ Len(buffer') = Len(buffer) /\ Cardinality(left') = Cardinality(left)
    BY <1>3, <1>4
  <2> QED BY SMTT(30), <1>1, <2>1
<1>5. ASSUME buffer' = Append(buffer, t), UNCHANGED <<heap, left>> PROVE Waiting' = Waiting + 1
  <2>1. Cardinality(heap') = Cardinality(heap) /\ Len(buffer') = Len(buffer) + 1 /\ Cardinality(left') = Cardinality(left)
    BY <1>2, <1>5
  <2> QED BY SMTT(30), <1>1, <2>1
<1>6. ASSUME t \in heap, heap' = heap \ {t}, buffer' = Append(buffer, t), UNCHANGED left PROVE Waiting' = Waiting
  <2>1. /\ Cardinality(heap') = Cardinality(heap) - 1 /\ Len(buffer') = Len(buffer) + 1
        /\ Cardinality(left') = Cardinality(left)
    BY <1>2, <1>3, <1>6
  <2> QED BY SMTT(30), <1>1, <2>1
<1>7. ASSUME t \in heap, t \notin left, heap' = heap \ {t}, left' = left \cup {t}, UNCHANGED buffer
      PROVE  Waiting' = Waiting
  <2>1. /\ Cardinality(heap') = Cardinality(heap) - 1 /\ Len(buffer') = Len(buffer)
        /\ Cardinality(left') = Cardinality(left) + 1
    BY <1>3, <1>7
  <2> QED BY SMTT(30), <1>1, <2>1
<1>8. ASSUME buffer # <<>>, buffer' = Tail(buffer), UNCHANGED <<heap, left>> PROVE Waiting' = Waiting - 1
  <2>1. Cardinality(heap') = Cardinality(heap) /\ Len(buffer') = Len(buffer) - 1 /\ Cardinality(left') = Cardinality(left)
    BY <1>2, <1>8
  <2> QED BY SMTT(30), <1>1, <2>1
<1> QED BY <1>4, <1>5, <1>6, <1>7, <1>8

\* How much is added to the counters.
EngMoves(enqueue, complete, fail, retry, dead) ==
    /\ Enqueued' = Enqueued + enqueue /\ Completed' = Completed + complete /\ Failed' = Failed + fail
    /\ Retried' = Retried + retry /\ Died' = Died + dead

PoolMoves(busy, processed, failed) ==
    Busy' = Busy + busy /\ Processed' = Processed + processed /\ Errors' = Errors + failed

MetMoves(depth, retry) == Depth' = Depth + depth /\ Requeued' = Requeued + retry

LEMMA CounterMoves ==
    ASSUME Types
    PROVE  /\ UNCHANGED eng => EngMoves(0, 0, 0, 0, 0)
           /\ eng' = [eng EXCEPT !.enqueue = @ + 1] => EngMoves(1, 0, 0, 0, 0)
           /\ eng' = [eng EXCEPT !.complete = @ + 1] => EngMoves(0, 1, 0, 0, 0)
           /\ eng' = [eng EXCEPT !.fail = @ + 1] => EngMoves(0, 0, 1, 0, 0)
           /\ eng' = [eng EXCEPT !.retry = @ + 1] => EngMoves(0, 0, 0, 1, 0)
           /\ eng' = [eng EXCEPT !.dead = @ + 1] => EngMoves(0, 0, 0, 0, 1)
           /\ UNCHANGED pool => PoolMoves(0, 0, 0)
           /\ pool' = [pool EXCEPT !.busy = @ + 1] => PoolMoves(1, 0, 0)
           /\ pool' = [pool EXCEPT !.busy = @ - 1, !.processed = @ + 1] => PoolMoves(-1, 1, 0)
           /\ pool' = [pool EXCEPT !.busy = @ - 1, !.processed = @ + 1, !.failed = @ + 1] => PoolMoves(-1, 1, 1)
           /\ UNCHANGED met => MetMoves(0, 0)
           /\ met' = [met EXCEPT !.enqueue = @ + 1, !.depth = @ + 1] => MetMoves(1, 0)
           /\ met' = [met EXCEPT !.dequeue = @ + 1, !.depth = @ - 1] => MetMoves(-1, 0)
           /\ met' = [met EXCEPT !.complete = @ + 1] => MetMoves(0, 0)
           /\ met' = [met EXCEPT !.fail = @ + 1] => MetMoves(0, 0)
           /\ met' = [met EXCEPT !.dead = @ + 1] => MetMoves(0, 0)
           /\ met' = [met EXCEPT !.retry = @ + 1] => MetMoves(0, 1)
<1>1. eng \in Engs /\ pool \in Pools /\ met \in Mets
  BY DEF Types, CountTypes
<1>2. UNCHANGED eng => EngMoves(0, 0, 0, 0, 0)
  BY SMTT(30), <1>1 DEF Engs, EngMoves, Enqueued, Completed, Failed, Retried, Died
<1>3. eng' = [eng EXCEPT !.enqueue = @ + 1] => EngMoves(1, 0, 0, 0, 0)
  BY SMTT(30), <1>1 DEF Engs, EngMoves, Enqueued, Completed, Failed, Retried, Died
<1>4. eng' = [eng EXCEPT !.complete = @ + 1] => EngMoves(0, 1, 0, 0, 0)
  BY SMTT(30), <1>1 DEF Engs, EngMoves, Enqueued, Completed, Failed, Retried, Died
<1>5. eng' = [eng EXCEPT !.fail = @ + 1] => EngMoves(0, 0, 1, 0, 0)
  BY SMTT(30), <1>1 DEF Engs, EngMoves, Enqueued, Completed, Failed, Retried, Died
<1>6. eng' = [eng EXCEPT !.retry = @ + 1] => EngMoves(0, 0, 0, 1, 0)
  BY SMTT(30), <1>1 DEF Engs, EngMoves, Enqueued, Completed, Failed, Retried, Died
<1>7. eng' = [eng EXCEPT !.dead = @ + 1] => EngMoves(0, 0, 0, 0, 1)
  BY SMTT(30), <1>1 DEF Engs, EngMoves, Enqueued, Completed, Failed, Retried, Died
<1>8. UNCHANGED pool => PoolMoves(0, 0, 0)
  BY SMTT(30), <1>1 DEF Pools, PoolMoves, Busy, Processed, Errors
<1>9. pool' = [pool EXCEPT !.busy = @ + 1] => PoolMoves(1, 0, 0)
  BY SMTT(30), <1>1 DEF Pools, PoolMoves, Busy, Processed, Errors
<1>10. pool' = [pool EXCEPT !.busy = @ - 1, !.processed = @ + 1] => PoolMoves(-1, 1, 0)
  BY SMTT(30), <1>1 DEF Pools, PoolMoves, Busy, Processed, Errors
<1>11. pool' = [pool EXCEPT !.busy = @ - 1, !.processed = @ + 1, !.failed = @ + 1] => PoolMoves(-1, 1, 1)
  BY <1>1 DEF Pools, PoolMoves, Busy, Processed, Errors
<1>12. UNCHANGED met => MetMoves(0, 0)
  BY SMTT(30), <1>1 DEF Mets, MetMoves, Depth, Requeued
<1>13. met' = [met EXCEPT !.enqueue = @ + 1, !.depth = @ + 1] => MetMoves(1, 0)
  BY SMTT(30), <1>1 DEF Mets, MetMoves, Depth, Requeued
<1>14. met' = [met EXCEPT !.dequeue = @ + 1, !.depth = @ - 1] => MetMoves(-1, 0)
  BY SMTT(30), <1>1 DEF Mets, MetMoves, Depth, Requeued
<1>15. met' = [met EXCEPT !.complete = @ + 1] => MetMoves(0, 0)
  BY SMTT(30), <1>1 DEF Mets, MetMoves, Depth, Requeued
<1>16. met' = [met EXCEPT !.fail = @ + 1] => MetMoves(0, 0)
  BY SMTT(30), <1>1 DEF Mets, MetMoves, Depth, Requeued
<1>17. met' = [met EXCEPT !.dead = @ + 1] => MetMoves(0, 0)
  BY SMTT(30), <1>1 DEF Mets, MetMoves, Depth, Requeued
<1>18. met' = [met EXCEPT !.retry = @ + 1] => MetMoves(0, 1)
  BY SMTT(30), <1>1 DEF Mets, MetMoves, Depth, Requeued
<1> QED BY <1>2, <1>3, <1>4, <1>5, <1>6, <1>7, <1>8, <1>9, <1>10, <1>11, <1>12, <1>13, <1>14, <1>15, <1>16, <1>17, <1>18

\* A step of a request or of the scheduler keeps the accounts.
LEMMA TaskAccounts ==
    ASSUME Types, OnePlace, Accounts, NEW t \in Task,
           Post(t) \/ SubmitPlace(t) \/ SubmitCount(t) \/ SubmitRecord(t) \/ Promote(t) \/ Discard(t)
    PROVE  Accounts'
<1>0. AccountTypes
  BY Numbers
<1>1. CASE Post(t)
  <2>1. UNCHANGED <<buffer, heap, left, dlq, wpc, eng, pool, met>> /\ spc[t] = "new"
    BY <1>1 DEF Post, queues, work, counts
  <2>2. \E s \in {"429", "place", "409", "500"} : Answer(t, s)
    BY <1>1 DEF Post
  <2>3. Posts({"count"})' = Posts({"count"}) /\ Posts({"count", "record"})' = Posts({"count", "record"})
    BY <2>1, <2>2, PostShifts
  <2>4. /\ Shift(0, 0, 0, 0, 0, 0, 0, 0) /\ Waiting' = Waiting /\ Dead' = Dead
        /\ EngMoves(0, 0, 0, 0, 0) /\ PoolMoves(0, 0, 0) /\ MetMoves(0, 0)
    BY <2>1, NoShift, CounterMoves DEF Waiting, Dead
  <2> QED BY SMTT(30), <1>0, <2>3, <2>4 DEF AccountTypes, Accounts, TasksAddUp, RunsAddUp, OutcomesAddUp, EngMoves, PoolMoves, MetMoves, Shift
<1>2. CASE SubmitPlace(t)
  <2>1. /\ UNCHANGED <<left, dlq, wpc, eng, pool, met>> /\ spc[t] = "place"
        /\ \/ heap' = heap \cup {t} /\ Answer(t, "count") /\ UNCHANGED buffer
           \/ buffer' = Append(buffer, t) /\ Answer(t, "count") /\ UNCHANGED heap
           \/ Answer(t, "503") /\ UNCHANGED <<buffer, heap>>
    BY <1>2 DEF SubmitPlace, work, counts
  <2>2. t \notin heap
    BY <2>1 DEF OnePlace
  <2>3. \/ /\ Posts({"count"})' = Posts({"count"}) + 1 /\ Posts({"count", "record"})' = Posts({"count", "record"}) + 1
           /\ Waiting' = Waiting + 1
        \/ /\ Posts({"count"})' = Posts({"count"}) /\ Posts({"count", "record"})' = Posts({"count", "record"})
           /\ Waiting' = Waiting
    <3>1. CASE heap' = heap \cup {t} /\ Answer(t, "count") /\ UNCHANGED buffer
      BY <2>1, <2>2, <3>1, PostShifts, WaitingMoves
    <3>2. CASE buffer' = Append(buffer, t) /\ Answer(t, "count") /\ UNCHANGED heap
      BY <2>1, <3>2, PostShifts, WaitingMoves
    <3>3. CASE Answer(t, "503") /\ UNCHANGED <<buffer, heap>>
      BY <2>1, <3>3, PostShifts DEF Waiting
    <3> QED BY <2>1, <3>1, <3>2, <3>3
  <2>4. /\ Shift(0, 0, 0, 0, 0, 0, 0, 0) /\ Dead' = Dead
        /\ EngMoves(0, 0, 0, 0, 0) /\ PoolMoves(0, 0, 0) /\ MetMoves(0, 0)
    BY <2>1, NoShift, CounterMoves DEF Dead
  <2> QED BY SMTT(30), <1>0, <2>3, <2>4 DEF AccountTypes, Accounts, TasksAddUp, RunsAddUp, OutcomesAddUp, EngMoves, PoolMoves, MetMoves, Shift
<1>3. CASE SubmitCount(t)
  <2>1. /\ UNCHANGED <<buffer, heap, left, dlq, wpc, pool, met>> /\ spc[t] = "count" /\ Answer(t, "record")
        /\ eng' = [eng EXCEPT !.enqueue = @ + 1]
    BY <1>3 DEF SubmitCount, queues, work
  <2>2. Posts({"count"})' = Posts({"count"}) - 1 /\ Posts({"count", "record"})' = Posts({"count", "record"})
    BY <2>1, PostShifts
  <2>3. /\ Shift(0, 0, 0, 0, 0, 0, 0, 0) /\ Waiting' = Waiting /\ Dead' = Dead
        /\ EngMoves(1, 0, 0, 0, 0) /\ PoolMoves(0, 0, 0) /\ MetMoves(0, 0)
    BY <2>1, NoShift, CounterMoves DEF Waiting, Dead
  <2> QED BY SMTT(30), <1>0, <2>2, <2>3 DEF AccountTypes, Accounts, TasksAddUp, RunsAddUp, OutcomesAddUp, EngMoves, PoolMoves, MetMoves, Shift
<1>4. CASE SubmitRecord(t)
  <2>1. /\ UNCHANGED <<buffer, heap, left, dlq, wpc, pool, eng>> /\ spc[t] = "record" /\ Answer(t, "201")
        /\ met' = [met EXCEPT !.enqueue = @ + 1, !.depth = @ + 1]
    BY <1>4 DEF SubmitRecord, queues, work
  <2>2. Posts({"count"})' = Posts({"count"}) /\ Posts({"count", "record"})' = Posts({"count", "record"}) - 1
    BY <2>1, PostShifts
  <2>3. /\ Shift(0, 0, 0, 0, 0, 0, 0, 0) /\ Waiting' = Waiting /\ Dead' = Dead
        /\ EngMoves(0, 0, 0, 0, 0) /\ PoolMoves(0, 0, 0) /\ MetMoves(1, 0)
    BY <2>1, NoShift, CounterMoves DEF Waiting, Dead
  <2> QED BY SMTT(30), <1>0, <2>2, <2>3 DEF AccountTypes, Accounts, TasksAddUp, RunsAddUp, OutcomesAddUp, EngMoves, PoolMoves, MetMoves, Shift
<1>5. CASE Promote(t) \/ Discard(t)
  <2>1. UNCHANGED <<spc, dlq, wpc, eng, pool, met>> /\ t \in heap /\ heap' = heap \ {t}
        /\ \/ buffer' = Append(buffer, t) /\ UNCHANGED left
           \/ left' = left \cup {t} /\ UNCHANGED buffer
    BY <1>5 DEF Promote, Discard, work, counts
  <2>2. t \notin left
    BY <2>1 DEF OnePlace
  <2>3. /\ Waiting' = Waiting /\ Dead' = Dead
        /\ Posts({"count"})' = Posts({"count"}) /\ Posts({"count", "record"})' = Posts({"count", "record"})
    BY <2>1, <2>2, WaitingMoves DEF Posts, Dead
  <2>4. /\ Shift(0, 0, 0, 0, 0, 0, 0, 0)
        /\ EngMoves(0, 0, 0, 0, 0) /\ PoolMoves(0, 0, 0) /\ MetMoves(0, 0)
    BY <2>1, NoShift, CounterMoves
  <2> QED BY SMTT(30), <1>0, <2>3, <2>4 DEF AccountTypes, Accounts, TasksAddUp, RunsAddUp, OutcomesAddUp, EngMoves, PoolMoves, MetMoves, Shift
<1> QED BY <1>1, <1>2, <1>3, <1>4, <1>5

\* A step of a worker keeps the accounts.
LEMMA WorkerAccounts == ASSUME Types, OnePlace, Accounts, NEW w \in Worker, WorkerStep(w) PROVE Accounts'
<1>0. AccountTypes
  BY Numbers
<1>1. UNCHANGED spc
  BY DEF WorkerStep, Dequeue, MarkBusy, RecordDequeue, Exec, CountComplete, CountFail, Settle, ListDead, CountDead, PushRetry,
     CountRetry, RecordOutcome, PoolDone
<1>2. Posts({"count"})' = Posts({"count"}) /\ Posts({"count", "record"})' = Posts({"count", "record"})
  BY <1>1 DEF Posts
<1>3. CASE Dequeue(w)
  <2>1. /\ UNCHANGED <<heap, left, dlq, eng, pool, met>> /\ Goto(w, "idle", "got")
        /\ buffer # <<>> /\ buffer' = Tail(buffer)
    BY <1>3 DEF Dequeue, counts
  <2>2. PICK t \in Task : TRUE
    BY <2>1, TailFacts DEF Types, QueueTypes
  <2>3. Waiting' = Waiting - 1 /\ Dead' = Dead
    BY <2>1, <2>2, WaitingMoves DEF Dead
  <2>4. Shift(1, 1, 0, 0, 0, 0, 0, 0) /\ EngMoves(0, 0, 0, 0, 0) /\ PoolMoves(0, 0, 0) /\ MetMoves(0, 0)
    BY <2>1, Shifts, CounterMoves
  <2> QED BY SMTT(30), <1>0, <1>2, <2>3, <2>4 DEF AccountTypes, Accounts, TasksAddUp, RunsAddUp, OutcomesAddUp, EngMoves, PoolMoves, MetMoves, Shift
<1>4. CASE MarkBusy(w)
  <2>1. /\ UNCHANGED <<buffer, heap, left, dlq, eng, met>>
        /\ Goto(w, "got", "busy") /\ pool' = [pool EXCEPT !.busy = @ + 1]
    BY <1>4 DEF MarkBusy, queues
  <2>2. Waiting' = Waiting /\ Dead' = Dead
    BY <2>1 DEF Waiting, Dead
  <2>3. Shift(0, 0, 0, 0, 0, 0, 1, 0) /\ EngMoves(0, 0, 0, 0, 0) /\ PoolMoves(1, 0, 0) /\ MetMoves(0, 0)
    BY <2>1, Shifts, CounterMoves
  <2> QED BY SMTT(30), <1>0, <1>2, <2>2, <2>3 DEF AccountTypes, Accounts, TasksAddUp, RunsAddUp, OutcomesAddUp, EngMoves, PoolMoves, MetMoves, Shift
<1>5. CASE RecordDequeue(w)
  <2>1. /\ UNCHANGED <<buffer, heap, left, dlq, eng, pool>>
        /\ Goto(w, "busy", "exec") /\ met' = [met EXCEPT !.dequeue = @ + 1, !.depth = @ - 1]
    BY <1>5 DEF RecordDequeue, queues
  <2>2. Waiting' = Waiting /\ Dead' = Dead
    BY <2>1 DEF Waiting, Dead
  <2>3. Shift(0, -1, 0, 0, 0, 0, 0, 0) /\ EngMoves(0, 0, 0, 0, 0) /\ PoolMoves(0, 0, 0) /\ MetMoves(-1, 0)
    BY <2>1, Shifts, CounterMoves
  <2> QED BY SMTT(30), <1>0, <1>2, <2>2, <2>3 DEF AccountTypes, Accounts, TasksAddUp, RunsAddUp, OutcomesAddUp, EngMoves, PoolMoves, MetMoves, Shift
<1>6. CASE Exec(w)
  <2>1. /\ UNCHANGED <<buffer, heap, left, dlq, eng, pool>>
        /\ \/ Goto(w, "exec", "ok") /\ met' = [met EXCEPT !.complete = @ + 1]
           \/ Goto(w, "exec", "err") /\ met' = [met EXCEPT !.fail = @ + 1]
    BY <1>6 DEF Exec, queues
  <2>2. Waiting' = Waiting /\ Dead' = Dead
    BY <2>1 DEF Waiting, Dead
  <2>3. Shift(0, 0, 0, 0, 0, 0, 0, 0) /\ EngMoves(0, 0, 0, 0, 0) /\ PoolMoves(0, 0, 0) /\ MetMoves(0, 0)
    BY <2>1, Shifts, CounterMoves
  <2> QED BY SMTT(30), <1>0, <1>2, <2>2, <2>3 DEF AccountTypes, Accounts, TasksAddUp, RunsAddUp, OutcomesAddUp, EngMoves, PoolMoves, MetMoves, Shift
<1>7. CASE CountComplete(w)
  <2>1. /\ UNCHANGED <<buffer, heap, left, dlq, pool, met>>
        /\ Goto(w, "ok", "okdone") /\ eng' = [eng EXCEPT !.complete = @ + 1]
    BY <1>7 DEF CountComplete, queues
  <2>2. Waiting' = Waiting /\ Dead' = Dead
    BY <2>1 DEF Waiting, Dead
  <2>3. Shift(-1, 0, 0, 0, 0, 1, 0, 0) /\ EngMoves(0, 1, 0, 0, 0) /\ PoolMoves(0, 0, 0) /\ MetMoves(0, 0)
    BY <2>1, Shifts, CounterMoves
  <2>4. TasksAddUp'
    BY SMTT(30), <1>0, <1>2, <2>2, <2>3 DEF AccountTypes, Accounts, TasksAddUp, EngMoves, PoolMoves, MetMoves, Shift
  <2>5. RunsAddUp'
    BY SMTT(30), <1>0, <1>2, <2>2, <2>3 DEF AccountTypes, Accounts, RunsAddUp, EngMoves, PoolMoves, MetMoves, Shift
  <2>6. OutcomesAddUp'
    BY SMTT(30), <1>0, <1>2, <2>2, <2>3 DEF AccountTypes, Accounts, OutcomesAddUp, EngMoves, PoolMoves, MetMoves, Shift
  <2> QED BY <2>4, <2>5, <2>6 DEF Accounts
<1>8. CASE CountFail(w)
  <2>1. /\ UNCHANGED <<buffer, heap, left, dlq, pool, met>>
        /\ Goto(w, "err", "failed") /\ eng' = [eng EXCEPT !.fail = @ + 1]
    BY <1>8 DEF CountFail, queues
  <2>2. Waiting' = Waiting /\ Dead' = Dead
    BY <2>1 DEF Waiting, Dead
  <2>3. Shift(0, 0, 0, 1, 1, 1, 0, 0) /\ EngMoves(0, 0, 1, 0, 0) /\ PoolMoves(0, 0, 0) /\ MetMoves(0, 0)
    BY <2>1, Shifts, CounterMoves
  <2>4. TasksAddUp'
    BY SMTT(30), <1>0, <1>2, <2>2, <2>3 DEF AccountTypes, Accounts, TasksAddUp, EngMoves, PoolMoves, MetMoves, Shift
  <2>5. RunsAddUp'
    BY SMTT(30), <1>0, <1>2, <2>2, <2>3 DEF AccountTypes, Accounts, RunsAddUp, EngMoves, PoolMoves, MetMoves, Shift
  <2>6. OutcomesAddUp'
    BY SMTT(30), <1>0, <1>2, <2>2, <2>3 DEF AccountTypes, Accounts, OutcomesAddUp, EngMoves, PoolMoves, MetMoves, Shift
  <2> QED BY <2>4, <2>5, <2>6 DEF Accounts
<1>9. CASE Settle(w)
  <2>1. /\ UNCHANGED <<buffer, heap, left, dlq, eng, pool, met>>
        /\ \/ Goto(w, "failed", "dlq")
           \/ Goto(w, "failed", "push")
    BY <1>9 DEF Settle, queues, counts
  <2>2. Waiting' = Waiting /\ Dead' = Dead
    BY <2>1 DEF Waiting, Dead
  <2>3. Shift(0, 0, 0, 0, 0, 0, 0, 0) /\ EngMoves(0, 0, 0, 0, 0) /\ PoolMoves(0, 0, 0) /\ MetMoves(0, 0)
    BY <2>1, Shifts, CounterMoves
  <2> QED BY SMTT(30), <1>0, <1>2, <2>2, <2>3 DEF AccountTypes, Accounts, TasksAddUp, RunsAddUp, OutcomesAddUp, EngMoves, PoolMoves, MetMoves, Shift
<1>10. CASE ListDead(w)
  <2>1. /\ UNCHANGED <<buffer, heap, left, eng, pool, met>> /\ Goto(w, "dlq", "dead")
        /\ \E t \in wtask[w] : dlq' = Append(dlq, t)
    BY <1>10 DEF ListDead, queues, counts
  <2>2. PICK t \in Task : dlq' = Append(dlq, t)
    BY <2>1 DEF Types, WorkerTypes
  <2>3. Waiting' = Waiting /\ Dead' = Dead + 1
    BY <2>1, <2>2, AppendFacts DEF Types, ListTypes, Waiting, Dead
  <2>4. Shift(0, 0, 0, 0, 0, 0, 0, 1) /\ EngMoves(0, 0, 0, 0, 0) /\ PoolMoves(0, 0, 0) /\ MetMoves(0, 0)
    BY <2>1, Shifts, CounterMoves
  <2> QED BY SMTT(30), <1>0, <1>2, <2>3, <2>4 DEF AccountTypes, Accounts, TasksAddUp, RunsAddUp, OutcomesAddUp, EngMoves, PoolMoves, MetMoves, Shift
<1>11. CASE CountDead(w)
  <2>1. /\ UNCHANGED <<buffer, heap, left, dlq, pool, met>>
        /\ Goto(w, "dead", "recdead") /\ eng' = [eng EXCEPT !.dead = @ + 1]
    BY <1>11 DEF CountDead, queues
  <2>2. Waiting' = Waiting /\ Dead' = Dead
    BY <2>1 DEF Waiting, Dead
  <2>3. Shift(-1, 0, 0, -1, 0, 0, 0, -1) /\ EngMoves(0, 0, 0, 0, 1) /\ PoolMoves(0, 0, 0) /\ MetMoves(0, 0)
    BY <2>1, Shifts, CounterMoves
  <2> QED BY SMTT(30), <1>0, <1>2, <2>2, <2>3 DEF AccountTypes, Accounts, TasksAddUp, RunsAddUp, OutcomesAddUp, EngMoves, PoolMoves, MetMoves, Shift
<1>12. CASE PushRetry(w)
  <2>1. /\ UNCHANGED <<buffer, left, dlq, eng, pool, met>> /\ Goto(w, "push", "retry")
        /\ heap' = heap \cup wtask[w]
    BY <1>12 DEF PushRetry, counts
  <2>2. PICK t \in Task : wtask[w] = {t}
    BY <2>1 DEF Types, WorkerTypes, Goto
  <2>3. t \notin heap
    BY <2>1, <2>2 DEF OnePlace, Runs, Running, Goto
  <2>4. Waiting' = Waiting + 1 /\ Dead' = Dead
    BY <2>1, <2>2, <2>3, WaitingMoves DEF Dead
  <2>5. Shift(-1, 0, 1, 0, 0, 0, 0, 0) /\ EngMoves(0, 0, 0, 0, 0) /\ PoolMoves(0, 0, 0) /\ MetMoves(0, 0)
    BY <2>1, Shifts, CounterMoves
  <2> QED BY SMTT(30), <1>0, <1>2, <2>4, <2>5 DEF AccountTypes, Accounts, TasksAddUp, RunsAddUp, OutcomesAddUp, EngMoves, PoolMoves, MetMoves, Shift
<1>13. CASE CountRetry(w)
  <2>1. /\ UNCHANGED <<buffer, heap, left, dlq, pool, met>>
        /\ Goto(w, "retry", "recretry") /\ eng' = [eng EXCEPT !.retry = @ + 1]
    BY <1>13 DEF CountRetry, queues
  <2>2. Waiting' = Waiting /\ Dead' = Dead
    BY <2>1 DEF Waiting, Dead
  <2>3. Shift(0, 0, 0, -1, 0, 0, 0, 0) /\ EngMoves(0, 0, 0, 1, 0) /\ PoolMoves(0, 0, 0) /\ MetMoves(0, 0)
    BY <2>1, Shifts, CounterMoves
  <2> QED BY SMTT(30), <1>0, <1>2, <2>2, <2>3 DEF AccountTypes, Accounts, TasksAddUp, RunsAddUp, OutcomesAddUp, EngMoves, PoolMoves, MetMoves, Shift
<1>14. CASE RecordOutcome(w)
  <2>1. /\ UNCHANGED <<buffer, heap, left, dlq, eng, pool>>
        /\ \/ Goto(w, "recdead", "errdone") /\ met' = [met EXCEPT !.dead = @ + 1]
           \/ Goto(w, "recretry", "errdone") /\ met' = [met EXCEPT !.retry = @ + 1]
    BY <1>14 DEF RecordOutcome, queues
  <2>2. Waiting' = Waiting /\ Dead' = Dead
    BY <2>1 DEF Waiting, Dead
  <2>3. \/ Shift(0, 0, 0, 0, 0, 0, 0, 0) /\ EngMoves(0, 0, 0, 0, 0) /\ PoolMoves(0, 0, 0) /\ MetMoves(0, 0)
        \/ Shift(0, 0, -1, 0, 0, 0, 0, 0) /\ EngMoves(0, 0, 0, 0, 0) /\ PoolMoves(0, 0, 0) /\ MetMoves(0, 1)
    BY <2>1, Shifts, CounterMoves
  <2> QED BY SMTT(30), <1>0, <1>2, <2>2, <2>3 DEF AccountTypes, Accounts, TasksAddUp, RunsAddUp, OutcomesAddUp, EngMoves, PoolMoves, MetMoves, Shift
<1>15. CASE PoolDone(w)
  <2>1. /\ UNCHANGED <<buffer, heap, left, dlq, eng, met>>
        /\ \/ Goto(w, "okdone", "idle") /\ pool' = [pool EXCEPT !.busy = @ - 1, !.processed = @ + 1]
           \/ Goto(w, "errdone", "idle") /\ pool' = [pool EXCEPT !.busy = @ - 1, !.processed = @ + 1, !.failed = @ + 1]
    BY <1>15 DEF PoolDone, queues
  <2>2. Waiting' = Waiting /\ Dead' = Dead
    BY <2>1 DEF Waiting, Dead
  <2>3. \/ Shift(0, 0, 0, 0, 0, -1, -1, 0) /\ EngMoves(0, 0, 0, 0, 0) /\ PoolMoves(-1, 1, 0) /\ MetMoves(0, 0)
        \/ Shift(0, 0, 0, 0, -1, -1, -1, 0) /\ EngMoves(0, 0, 0, 0, 0) /\ PoolMoves(-1, 1, 1) /\ MetMoves(0, 0)
    BY <2>1, Shifts, CounterMoves
  <2>4. TasksAddUp'
    BY SMTT(30), <1>0, <1>2, <2>2, <2>3 DEF AccountTypes, Accounts, TasksAddUp, EngMoves, PoolMoves, MetMoves, Shift
  <2>5. RunsAddUp'
    BY SMTT(30), <1>0, <1>2, <2>2, <2>3 DEF AccountTypes, Accounts, RunsAddUp, EngMoves, PoolMoves, MetMoves, Shift
  <2>6. OutcomesAddUp'
    BY SMTT(30), <1>0, <1>2, <2>2, <2>3 DEF AccountTypes, Accounts, OutcomesAddUp, EngMoves, PoolMoves, MetMoves, Shift
  <2> QED BY <2>4, <2>5, <2>6 DEF Accounts
<1> QED BY <1>3, <1>4, <1>5, <1>6, <1>7, <1>8, <1>9, <1>10, <1>11, <1>12, <1>13, <1>14, <1>15 DEF WorkerStep

-----------------------------------------------------------------------------
(* What Stats reads, and the pages of the DLQ *)

\* What Stats has read of the pool fits the engine's counters, which stand still
\* while it holds metricsMu.
SeenAddsUp ==
    stat = "reply" => /\ seen.processed <= Completed + Failed
                      /\ Completed + Failed <= seen.processed + seen.busy
                      /\ seen.failed <= Failed

\* There are no more workers in fewer places.
LEMMA AtMonotone ==
    ASSUME Types, NEW CONSTANT P, NEW CONSTANT Q, P \subseteq Q
    PROVE  At(P) <= At(Q) /\ At(P) <= Cardinality(Worker) /\ Cardinality(Worker) \in Nat
<1> DEFINE A == {w \in Worker : wpc[w] \in P}
           B == {w \in Worker : wpc[w] \in Q}
<1>1. A \subseteq B /\ B \subseteq Worker /\ A \subseteq Worker
  OBVIOUS
<1>2. IsFiniteSet(Worker) /\ IsFiniteSet(B)
  BY <1>1, ServiceAssumption, FS_Subset
<1>3. At(P) = Cardinality(A) /\ At(Q) = Cardinality(B)
  BY DEF At
<1> HIDE DEF A, B
<1> QED BY <1>1, <1>2, <1>3, FS_Subset, FS_CardinalityType

LEMMA NextSeen == ASSUME Types, Accounts, SeenAddsUp, [Next]_vars PROVE SeenAddsUp'
<1>1. CASE StatsPool
  <2>1. seen' = pool /\ UNCHANGED eng
    BY <1>1 DEF StatsPool, counts
  <2>2. seen'.processed = Processed /\ seen'.busy = Busy /\ seen'.failed = Errors /\ Completed' = Completed /\ Failed' = Failed
    BY <2>1 DEF Processed, Busy, Errors, Completed, Failed
  <2>3. Counted \subseteq Working
    BY DEF Working
  <2>4. At(Counted) <= At(Working)
    BY <2>3, AtMonotone
  <2>5. AccountTypes
    BY Numbers
  <2>6. Processed <= Completed + Failed /\ Completed + Failed <= Processed + Busy /\ Errors <= Failed
    BY SMTT(30), <2>4, <2>5 DEF AccountTypes, Accounts, RunsAddUp, OutcomesAddUp
  <2> QED BY <2>2, <2>6 DEF SeenAddsUp
<1>2. CASE ~StatsPool
  <2>1. \/ stat' # "reply"
        \/ stat' = stat /\ seen' = seen /\ eng' = eng
    <3>1. CASE UNCHANGED vars \/ Clock \/ PostInvalid \/ GetDLQ
      BY <3>1 DEF vars, Clock, PostInvalid, GetDLQ, counts, reader
    <3>2. CASE StatsLock \/ StatsReturn
      BY <3>2 DEF StatsLock, StatsReturn
    <3>3. ASSUME NEW t \in Task, Post(t) \/ SubmitPlace(t) \/ SubmitRecord(t) \/ Promote(t) \/ Discard(t)
          PROVE  stat' = stat /\ seen' = seen /\ eng' = eng
      BY <3>3 DEF Post, SubmitPlace, SubmitRecord, Promote, Discard, counts, reader
    <3>4. ASSUME NEW t \in Task, SubmitCount(t) PROVE stat' # "reply"
      BY <3>4 DEF SubmitCount, MetricsMuFree, reader
    <3>5. ASSUME NEW w \in Worker, CountComplete(w) \/ CountFail(w) \/ CountDead(w) \/ CountRetry(w) PROVE stat' # "reply"
      BY <3>5 DEF CountComplete, CountFail, CountDead, CountRetry, MetricsMuFree, reader
    <3>6. ASSUME NEW w \in Worker,
                 \/ Dequeue(w) \/ MarkBusy(w) \/ RecordDequeue(w) \/ Exec(w) \/ Settle(w) \/ ListDead(w)
                 \/ PushRetry(w) \/ RecordOutcome(w) \/ PoolDone(w)
          PROVE  stat' = stat /\ seen' = seen /\ eng' = eng
      BY <3>6 DEF Dequeue, MarkBusy, RecordDequeue, Exec, Settle, ListDead, PushRetry, RecordOutcome, PoolDone, counts, reader
    <3> QED BY <1>2, <3>1, <3>2, <3>3, <3>4, <3>5, <3>6 DEF Next, WorkerStep
  <2>2. eng' = eng => Completed' = Completed /\ Failed' = Failed
    BY DEF Completed, Failed
  <2> QED BY <2>1, <2>2 DEF SeenAddsUp
<1> QED BY <1>1, <1>2

LEMMA NextPages == ASSUME Types, PagesInOrder, [Next]_vars PROVE PagesInOrder'
<1>1. dlq \in Seq(Task) /\ pages \in Seq(Task) /\ Len(pages) \in Nat /\ Len(dlq) \in Nat
  BY SMTT(30) DEF Types, ListTypes
<1>2. Len(pages) <= Len(dlq) /\ \A i \in 1 .. Len(pages) : pages[i] = dlq[i]
  <2>1. DOMAIN pages = 1 .. Len(pages)
    BY SMTT(30), <1>1
  <2> QED BY <2>1 DEF PagesInOrder
<1>3. CASE GetDLQ
  <2> DEFINE end == IF Len(pages) + PageSize > Len(dlq) THEN Len(dlq) ELSE Len(pages) + PageSize
             page == SubSeq(dlq, Len(pages) + 1, end)
  <2>1. pages' = pages \o page /\ UNCHANGED dlq
    BY <1>3 DEF GetDLQ, ListDLQ
  <2>2. PageSize \in Nat
    BY ServiceAssumption
  <2>3. end \in Nat /\ Len(pages) <= end /\ end <= Len(dlq)
    BY SMTT(30), <1>1, <1>2, <2>2
  <2> HIDE DEF end
  <2>4. page \in Seq(Task) /\ Len(page) = end - Len(pages) /\ \A i \in 1 .. end - Len(pages) : page[i] = dlq[Len(pages) + i]
    BY SMTT(30), <1>1, <2>3
  <2> HIDE DEF page
  <2>5. /\ pages \o page \in Seq(Task) /\ Len(pages \o page) = end
        /\ \A i \in 1 .. end : (pages \o page)[i] = IF i <= Len(pages) THEN pages[i] ELSE page[i - Len(pages)]
    BY SMTT(30), <1>1, <2>3, <2>4
  <2>6. \A i \in 1 .. end : (pages \o page)[i] = dlq[i]
    BY SMTT(30), <1>1, <1>2, <2>3, <2>4, <2>5
  <2>7. DOMAIN (pages \o page) = 1 .. end
    BY SMTT(30), <2>5
  <2> QED BY <2>1, <2>3, <2>5, <2>6, <2>7 DEF PagesInOrder
<1>4. ASSUME NEW w \in Worker, ListDead(w) PROVE PagesInOrder'
  <2>1. UNCHANGED pages /\ \E t \in wtask[w] : dlq' = Append(dlq, t)
    BY <1>4 DEF ListDead
  <2>2. PICK t \in Task : dlq' = Append(dlq, t)
    BY <2>1 DEF Types, WorkerTypes
  <2>3. /\ Append(dlq, t) \in Seq(Task) /\ Len(pages) <= Len(Append(dlq, t))
        /\ \A i \in 1 .. Len(pages) : pages[i] = Append(dlq, t)[i]
    BY SMTT(30), <1>1, <1>2
  <2>4. DOMAIN pages = 1 .. Len(pages)
    BY SMTT(30), <1>1
  <2> QED BY <2>1, <2>2, <2>3, <2>4 DEF PagesInOrder
<1>5. CASE UNCHANGED vars \/ Clock \/ PostInvalid \/ StatsLock \/ StatsReturn \/ StatsPool
  BY <1>5 DEF vars, Clock, PostInvalid, StatsLock, StatsReturn, StatsPool, PagesInOrder
<1>6. ASSUME NEW t \in Task, Post(t) \/ SubmitPlace(t) \/ SubmitCount(t) \/ SubmitRecord(t) \/ Promote(t) \/ Discard(t)
      PROVE  PagesInOrder'
  BY <1>6 DEF Post, SubmitPlace, SubmitCount, SubmitRecord, Promote, Discard, PagesInOrder
<1>7. ASSUME NEW w \in Worker, WorkerStep(w), ~ListDead(w) PROVE PagesInOrder'
  BY <1>7 DEF WorkerStep, Dequeue, MarkBusy, RecordDequeue, Exec, CountComplete, CountFail, Settle, CountDead, PushRetry,
     CountRetry, RecordOutcome, PoolDone, PagesInOrder
<1> QED BY <1>3, <1>4, <1>5, <1>6, <1>7 DEF Next

-----------------------------------------------------------------------------
(* The theorems on what the service tells its clients *)

Inv == Types /\ OnePlace /\ Accounts /\ SeenAddsUp /\ PagesInOrder

LEMMA NextAccounts == ASSUME Types, OnePlace, Accounts, [Next]_vars PROVE Accounts'
<1>1. CASE UNCHANGED vars \/ Clock \/ PostInvalid \/ StatsLock \/ StatsReturn \/ StatsPool \/ GetDLQ
  <2>1. UNCHANGED <<spc, buffer, heap, left, dlq, wpc, eng, pool, met>>
    BY <1>1 DEF vars, Clock, PostInvalid, StatsLock, StatsReturn, StatsPool, GetDLQ, queues, work, counts
  <2>2. ASSUME NEW CONSTANT P PROVE At(P)' = At(P) /\ Posts(P)' = Posts(P)
    BY <2>1 DEF At, Posts
  <2>3. /\ Waiting' = Waiting /\ Enqueued' = Enqueued /\ Completed' = Completed /\ Failed' = Failed /\ Retried' = Retried
        /\ Died' = Died /\ Busy' = Busy /\ Processed' = Processed /\ Errors' = Errors /\ Depth' = Depth
        /\ Requeued' = Requeued /\ Dead' = Dead
    BY <2>1 DEF Waiting, Enqueued, Completed, Failed, Retried, Died, Busy, Processed, Errors, Depth, Requeued, Dead
  <2> QED BY <2>2, <2>3 DEF Accounts, TasksAddUp, RunsAddUp, OutcomesAddUp
<1> QED BY <1>1, TaskAccounts, WorkerAccounts DEF Next

LEMMA InitInv == Init => Inv
<1> SUFFICES ASSUME Init PROVE Inv
  OBVIOUS
<1>1. /\ spc = [t \in Task |-> "new"] /\ buffer = <<>> /\ heap = {} /\ left = {} /\ dlq = <<>> /\ pages = <<>>
      /\ wpc = [w \in Worker |-> "idle"] /\ wtask = [w \in Worker |-> {}] /\ stat = "idle" /\ seen = Idle /\ pool = Idle
      /\ eng = [enqueue |-> 0, complete |-> 0, fail |-> 0, retry |-> 0, dead |-> 0]
      /\ met = [enqueue |-> 0, dequeue |-> 0, complete |-> 0, fail |-> 0, retry |-> 0, dead |-> 0, depth |-> 0]
  BY DEF Init
<1>2. Types
  <2>1. PostTypes /\ WorkerTypes
    BY <1>1 DEF PostTypes, WorkerTypes, Place
  <2>2. QueueTypes /\ ListTypes
    BY SMTT(30), <1>1 DEF QueueTypes, ListTypes
  <2>3. CountTypes /\ StatTypes
    BY SMTT(30), <1>1 DEF CountTypes, StatTypes, Engs, Pools, Mets, Idle
  <2> QED BY <2>1, <2>2, <2>3 DEF Types
<1>3. OnePlace
  <2>1. Range(buffer) = {} /\ IsInjective(buffer)
    BY SMTT(30), <1>1 DEF Range, IsInjective
  <2> QED BY <1>1, <2>1 DEF OnePlace, Runs, Running
<1>4. Accounts
  <2>1. /\ Enqueued = 0 /\ Completed = 0 /\ Failed = 0 /\ Retried = 0 /\ Died = 0 /\ Busy = 0 /\ Processed = 0 /\ Errors = 0
        /\ Depth = 0 /\ Requeued = 0
    BY <1>1 DEF Enqueued, Completed, Failed, Retried, Died, Busy, Processed, Errors, Depth, Requeued, Idle
  <2>2. Waiting = 0 /\ Dead = 0
    BY SMTT(30), <1>1, FS_EmptySet DEF Waiting, Dead
  <2>3. ASSUME NEW CONSTANT P, "idle" \notin P PROVE At(P) = 0
    <3>1. {w \in Worker : wpc[w] \in P} = {}
      BY <1>1, <2>3
    <3> QED BY <3>1, FS_EmptySet DEF At
  <2>4. ASSUME NEW CONSTANT P, "new" \notin P PROVE Posts(P) = 0
    <3>1. {t \in Task : spc[t] \in P} = {}
      BY <1>1, <2>4
    <3> QED BY <3>1, FS_EmptySet DEF Posts
  <2>5. /\ At(Running) = 0 /\ At(Fresh) = 0 /\ At(Pushed) = 0 /\ At(Unsettled) = 0 /\ At(Failing) = 0 /\ At(Counted) = 0
        /\ At(Working) = 0 /\ At(Listed) = 0
    BY <2>3 DEF Running, Fresh, Pushed, Unsettled, Failing, Counted, Working, Listed
  <2>6. Posts({"count"}) = 0 /\ Posts({"count", "record"}) = 0
    BY <2>4
  <2> QED BY SMTT(30), <2>1, <2>2, <2>5, <2>6 DEF Accounts, TasksAddUp, RunsAddUp, OutcomesAddUp
<1>5. SeenAddsUp
  BY <1>1 DEF SeenAddsUp
<1>6. PagesInOrder
  BY SMTT(30), <1>1 DEF PagesInOrder
<1> QED BY <1>2, <1>3, <1>4, <1>5, <1>6 DEF Inv

LEMMA NextInv == Inv /\ [Next]_vars => Inv'
BY NextTypes, NextOnePlace, NextAccounts, NextSeen, NextPages DEF Inv

LEMMA AlwaysInv == Spec => []Inv
BY InitInv, NextInv, PTL DEF Spec

\* Every counted submission is in exactly one account, for any number of tasks and
\* workers: Submit, the workers and the scheduler neither lose nor double one.
THEOREM ServiceConservation == Spec => []Conservation
<1>1. Inv => Conservation
  BY DEF Inv, Accounts, TasksAddUp, Conservation, Enqueued, Completed, Died, Waiting, Running
<1> QED BY <1>1, AlwaysInv, PTL

\* The gauge of RecordEnqueue and RecordDequeue is the number of tasks that wait, less
\* the retries that were pushed.
THEOREM ServiceDepthMissesRetries == Spec => []DepthMissesRetries
<1>1. Inv => DepthMissesRetries
  BY DEF Inv, Accounts, TasksAddUp, DepthMissesRetries, Depth, Requeued, Waiting, Pushed, Fresh
<1> QED BY <1>1, AlwaysInv, PTL

\* One answer of Stats is consistent in itself, although it reads the counters of
\* three locks one after the other.
THEOREM ServiceStatsConsistent == Spec => []StatsConsistent
<1>1. ASSUME Inv PROVE StatsConsistent
  <2>1. Types /\ Accounts /\ SeenAddsUp /\ AccountTypes
    BY <1>1, Numbers DEF Inv
  <2>2. At(Listed) <= Cardinality(Worker) /\ Cardinality(Worker) \in Nat
    BY <2>1, AtMonotone
  <2>3. Retried + Died <= Failed /\ Died <= Dead /\ Dead <= Died + Cardinality(Worker)
    BY SMTT(30), <2>1, <2>2 DEF Accounts, OutcomesAddUp, AccountTypes
  <2> QED BY <2>1, <2>3 DEF SeenAddsUp, StatsConsistent, Completed, Failed, Retried, Died, Dead
<1> QED BY <1>1, AlwaysInv, PTL

\* A client that pages through ListDLQ sees a prefix of the DLQ.
THEOREM ServicePagesInOrder == Spec => []PagesInOrder
<1>1. Inv => PagesInOrder
  BY DEF Inv
<1> QED BY <1>1, AlwaysInv, PTL

===============================================================================
