----------------------------- MODULE SchedulerProofs -----------------------------
(***************************************************************************)
(* The scheduler of delayed tasks, for every set of tasks and every delay. *)
(***************************************************************************)
EXTENDS Scheduler, FiniteSetTheorems, TLAPS

-----------------------------------------------------------------------------
(* Sequences *)

\* A non-empty sequence is its head and its tail; of an injective one the head
\* is not in the tail.
LEMMA TailFacts ==
    ASSUME NEW S, NEW s \in Seq(S), s # <<>>
    PROVE  /\ Head(s) \in S
           /\ Tail(s) \in Seq(S)
           /\ Len(Tail(s)) = Len(s) - 1
           /\ Range(s) = Range(Tail(s)) \cup {Head(s)}
           /\ IsInjective(s) => IsInjective(Tail(s)) /\ Head(s) \notin Range(Tail(s))
<1> DEFINE t == Tail(s)
<1>1. /\ Head(s) = s[1] /\ s[1] \in S /\ t \in Seq(S)
      /\ Len(s) \in Nat \ {0} /\ Len(t) = Len(s) - 1
      /\ DOMAIN s = 1 .. Len(s) /\ DOMAIN t = 1 .. Len(s) - 1
      /\ \A i \in 1 .. Len(s) - 1 : t[i] = s[i + 1]
  OBVIOUS
<1> HIDE DEF t
<1>2. /\ 1 \in DOMAIN s
      /\ \A i \in DOMAIN t : i + 1 \in DOMAIN s /\ i + 1 # 1 /\ t[i] = s[i + 1]
      /\ \A i \in DOMAIN s \ {1} : i - 1 \in DOMAIN t /\ t[i - 1] = s[i]
      /\ \A i, j \in DOMAIN t : i + 1 = j + 1 => i = j
  BY <1>1
<1>3. Range(s) = Range(t) \cup {s[1]}
  BY <1>2 DEF Range
<1>4. IsInjective(s) => IsInjective(t) /\ s[1] \notin Range(t)
  BY <1>2 DEF Range, IsInjective
<1> QED BY <1>1, <1>3, <1>4 DEF t

Types == /\ DOMAIN stage = Task /\ DOMAIN due = Task
         /\ heap \subseteq Task
         /\ notifiers \in Nat
         /\ ready \in Seq(Task)

\* What PromoteReady returned is no longer in the heap, and comes up once; nobody
\* else has such a task, or one in the heap, so nobody moves its deadline.
InOnePlace == /\ \A t \in heap \cup Range(ready) : stage[t] = "sched"
              /\ heap \cap Range(ready) = {}
              /\ IsInjective(ready)

\* A deadline is only ever set while its task is out of the heap, so NoOversleep
\* is inductive together with InOnePlace.
IInv == Types /\ InOnePlace /\ NoOversleep

-----------------------------------------------------------------------------
\* PromoteReady returns the tasks that are due, each once.
LEMMA ReadyFacts ==
    ASSUME Types, NEW s \in SetToSeqs(Due)
    PROVE  s \in Seq(Task) /\ Range(s) \subseteq Due /\ IsInjective(s)
<1>1. Due \subseteq Task /\ IsFiniteSet(Due)
  BY TaskAssumption, FS_Subset DEF Types, Due
<1>2. Cardinality(Due) \in Nat
  BY <1>1, FS_CardinalityType
<1>3. s \in [1 .. Cardinality(Due) -> Due] /\ \A i, j \in 1 .. Cardinality(Due) : i # j => s[i] # s[j]
  BY DEF SetToSeqs
<1>4. s \in Seq(Due)
  BY <1>2, <1>3
<1>5. s \in Seq(Task)
  BY <1>1, <1>2, <1>3
<1> QED
  BY <1>2, <1>3, <1>5 DEF Range, IsInjective

LEMMA InitHolds == Init => IInv
BY DEF Init, IInv, Types, InOnePlace, NoOversleep, Range, IsInjective

-----------------------------------------------------------------------------
(* The goroutines around the scheduler *)

LEMMA OutsideSteps ==
    ASSUME IInv, \/ Tick \/ Notify \/ Shutdown
                 \/ \E t \in Task : Stamp(t) \/ Push(t) \/ RemoveTask(t) \/ Take(t)
    PROVE  IInv'
<1> USE DEF IInv, Types, InOnePlace, NoOversleep
<1>1. CASE Tick
  BY <1>1 DEF Tick
<1>2. CASE Notify
  BY <1>2 DEF Notify
<1>3. CASE Shutdown
  BY <1>3 DEF Shutdown
<1>4. ASSUME NEW t \in Task, Stamp(t) PROVE IInv'
  <2>1. /\ UNCHANGED <<heap, notifiers, wake, pc, ready, timer>>
        /\ stage[t] = "out" /\ stage' = [stage EXCEPT ![t] = "stamped"]
        /\ \A u \in Task : u # t => due'[u] = due[u]
        /\ DOMAIN due' = Task
    BY <1>4 DEF Stamp
  <2>2. t \notin heap /\ t \notin Range(ready)
    BY <2>1
  <2>3. \A u \in heap \cup Range(ready) : stage'[u] = stage[u]
    BY <2>1, <2>2 DEF Range
  <2> QED
    BY <2>1, <2>2, <2>3
<1>5. ASSUME NEW t \in Task, Push(t) PROVE IInv'
  BY <1>5 DEF Push, Range
<1>6. ASSUME NEW t \in Task, RemoveTask(t) PROVE IInv'
  BY <1>6 DEF RemoveTask, Range
<1>7. ASSUME NEW t \in Task, Take(t) PROVE IInv'
  <2>1. t \notin heap /\ t \notin Range(ready)
    BY <1>7 DEF Take
  <2> QED
    BY <1>7, <2>1 DEF Take, Range
<1> QED
  BY <1>1, <1>2, <1>3, <1>4, <1>5, <1>6, <1>7

-----------------------------------------------------------------------------
(* Run *)

LEMMA RunSteps == ASSUME IInv, SchedStep PROVE IInv'
<1> USE DEF IInv, Types, InOnePlace, NoOversleep
<1>1. CASE Promote
  <2>1. ready' \in SetToSeqs(Due) /\ heap' = heap \ Due
        /\ pc' = "place" /\ UNCHANGED <<stage, due, notifiers>>
    BY <1>1 DEF Promote
  <2>2. ready' \in Seq(Task) /\ Range(ready') \subseteq Due /\ IsInjective(ready')
    BY <2>1, ReadyFacts
  <2>3. Due \subseteq heap
    BY DEF Due
  <2> QED
    BY <2>1, <2>2, <2>3
<1>2. ASSUME ready # <<>>
      PROVE  /\ Head(ready) \in Task /\ Tail(ready) \in Seq(Task)
             /\ Range(ready) = Range(Tail(ready)) \cup {Head(ready)}
             /\ IsInjective(Tail(ready)) /\ Head(ready) \notin Range(Tail(ready))
  BY <1>2, TailFacts
<1>3. CASE Place
  <2>1. ready # <<>> /\ UNCHANGED <<due, heap, notifiers>> /\ pc' \in {"place", "exit"}
    BY <1>3 DEF Place
  <2>2. CASE ready' = Tail(ready) /\ \E x \in {"gone", "queued"} : stage' = [stage EXCEPT ![Head(ready)] = x]
    BY <1>2, <2>1, <2>2
  <2>3. CASE ready' = <<>> /\ stage' = [t \in Task |-> IF t \in Range(ready) THEN "gone" ELSE stage[t]]
    <3>1. ready' \in Seq(Task) /\ Range(ready') = {} /\ IsInjective(ready')
      BY <2>3 DEF Range, IsInjective
    <3> QED
      BY <2>1, <2>3, <3>1
  <2> QED
    BY <1>3, <2>2, <2>3 DEF Place
<1>4. CASE PlaceBack
  BY <1>2, <1>4 DEF PlaceBack
<1>5. CASE Placed
  BY <1>5 DEF Placed
<1>6. CASE NextDeadline
  BY <1>6 DEF NextDeadline
<1>7. CASE Sleep
  BY <1>7 DEF Sleep
<1>8. CASE Awake
  BY <1>8 DEF Awake
<1> QED
  BY <1>1, <1>3, <1>4, <1>5, <1>6, <1>7, <1>8 DEF SchedStep

-----------------------------------------------------------------------------
\* The scheduler never sleeps past the deadline of a task in the heap without a
\* signal on its way, and a promoted task is out of the heap until the scheduler
\* is done with it.
THEOREM SchedulerNeverOversleeps == Spec => [](NoOversleep /\ InOnePlace)
<1>1. Init => IInv
  BY InitHolds
<1>2. IInv /\ [Next]_vars => IInv'
  <2>1. CASE UNCHANGED vars
    BY <2>1 DEF vars, IInv, Types, InOnePlace, NoOversleep
  <2> QED
    BY <2>1, OutsideSteps, RunSteps DEF Next
<1>3. IInv => NoOversleep /\ InOnePlace
  BY DEF IInv
<1> QED
  BY <1>1, <1>2, <1>3, PTL DEF Spec
=================================================================================
