---------------------------- MODULE RingBufferProofs ----------------------------
(***************************************************************************)
(* RingBuffer for every capacity, policy and set of goroutines.            *)
(***************************************************************************)
EXTENDS RingBuffer, FiniteSetTheorems, SequenceTheorems, TLAPS

-----------------------------------------------------------------------------
(* Sequences *)

\* Appending adds one element to the range, and keeps an injective sequence
\* injective when the element is new.
LEMMA AppendFacts ==
    ASSUME NEW S, NEW s \in Seq(S), NEW x \in S
    PROVE  /\ Append(s, x) \in Seq(S)
           /\ Append(s, x) # <<>>
           /\ Len(Append(s, x)) = Len(s) + 1
           /\ Range(Append(s, x)) = Range(s) \cup {x}
           /\ IsInjective(s) /\ x \notin Range(s) => IsInjective(Append(s, x))
<1> DEFINE a == Append(s, x)
<1>1. /\ a \in Seq(S) /\ a # <<>> /\ Len(a) = Len(s) + 1
      /\ DOMAIN a = DOMAIN s \cup {Len(s) + 1}
      /\ \A i \in DOMAIN s : a[i] = s[i]
      /\ a[Len(s) + 1] = x
  OBVIOUS
<1> HIDE DEF a
<1>2. Range(a) = Range(s) \cup {x}
  BY <1>1 DEF Range
<1>3. IsInjective(s) /\ x \notin Range(s) => IsInjective(a)
  BY <1>1 DEF Range, IsInjective
<1> QED BY <1>1, <1>2, <1>3 DEF a

\* A non-empty sequence is its head and its tail; of an injective one the head
\* is not in the tail.
LEMMA TailFacts ==
    ASSUME NEW S, NEW s \in Seq(S), s # <<>>
    PROVE  /\ Head(s) \in S
           /\ Tail(s) \in Seq(S)
           /\ Len(Tail(s)) = Len(s) - 1
           /\ Range(s) = Range(Tail(s)) \cup {Head(s)}
           /\ IsInjective(s) => IsInjective(Tail(s)) /\ Head(s) \notin Range(Tail(s))
<1> DEFINE t == Tail(s)
<1>1. /\ Head(s) = s[1] /\ s[1] \in S /\ t \in Seq(S)
      /\ Len(s) \in Nat \ {0} /\ Len(t) = Len(s) - 1
      /\ DOMAIN s = 1 .. Len(s) /\ DOMAIN t = 1 .. Len(s) - 1
      /\ \A i \in 1 .. Len(s) - 1 : t[i] = s[i + 1]
  OBVIOUS
<1> HIDE DEF t
<1>2. /\ 1 \in DOMAIN s
      /\ \A i \in DOMAIN t : i + 1 \in DOMAIN s /\ i + 1 # 1 /\ t[i] = s[i + 1]
      /\ \A i \in DOMAIN s \ {1} : i - 1 \in DOMAIN t /\ t[i - 1] = s[i]
      /\ \A i, j \in DOMAIN t : i + 1 = j + 1 => i = j
  BY <1>1
<1>3. Range(s) = Range(t) \cup {s[1]}
  BY <1>2 DEF Range
<1>4. IsInjective(s) => IsInjective(t) /\ s[1] \notin Range(t)
  BY <1>2 DEF Range, IsInjective
<1> QED BY <1>1, <1>3, <1>4 DEF t

-----------------------------------------------------------------------------
(* Indices *)

\* Wrapping an index below 2 * Cap subtracts Cap at most once.
LEMMA Wrap ==
    ASSUME NEW a \in Int, NEW b \in Int, a + b >= 0, a + b < 2 * Cap
    PROVE  (a + b) % Cap = IF a + b < Cap THEN a + b ELSE a + b - Cap
BY CapAssumption, Z3

-----------------------------------------------------------------------------
(* The condition variable *)

\* waitq holds the waiting goroutines, each once.
WaitersQueued == /\ \A i \in DOMAIN waitq : pc[waitq[i]] = "wait"
                 /\ \A p \in Proc : pc[p] = "wait" => p \in Range(waitq)
                 /\ IsInjective(waitq)

WaitTypes == /\ waitq \in Seq(Proc)
             /\ pc \in [Proc -> {"idle", "call", "wait"}]

\* Signal moves the first waiter, if there is one, to "call", makes the caller
\* idle and touches nobody else.
LEMMA SignalFacts ==
    ASSUME WaitTypes, WaitersQueued, NEW p \in Proc, pc[p] # "wait", SignalAndReturn(p)
    PROVE  /\ WaitTypes'
           /\ WaitersQueued'
           /\ pc'[p] = "idle"
           /\ waitq = <<>> => waitq' = <<>> /\ \A q \in Proc \ {p} : pc'[q] = pc[q]
           /\ waitq # <<>> => /\ Head(waitq) \in Proc \ {p}
                              /\ pc[Head(waitq)] = "wait"
                              /\ pc'[Head(waitq)] = "call"
                              /\ \A q \in Proc \ {p, Head(waitq)} : pc'[q] = pc[q]
<1>1. CASE waitq = <<>>
  BY <1>1 DEF WaitTypes, WaitersQueued, SignalAndReturn, Range, IsInjective
<1>2. CASE waitq # <<>>
  <2> DEFINE h == Head(waitq)
  <2>1. /\ h \in Proc /\ Tail(waitq) \in Seq(Proc)
        /\ Range(waitq) = Range(Tail(waitq)) \cup {h}
        /\ IsInjective(Tail(waitq)) /\ h \notin Range(Tail(waitq))
    BY <1>2, TailFacts DEF WaitTypes, WaitersQueued
  <2>2. pc[h] = "wait"
    BY <2>1 DEF WaitersQueued, Range
  <2>3. /\ waitq' = Tail(waitq)
        /\ pc' = [pc EXCEPT ![p] = "idle", ![h] = "call"]
    BY <1>2 DEF SignalAndReturn
  <2> HIDE DEF h
  <2>4. h # p
    BY <2>2
  <2>5. WaitTypes' /\ pc'[p] = "idle" /\ pc'[h] = "call" /\ \A q \in Proc \ {p, h} : pc'[q] = pc[q]
    BY <2>1, <2>3, <2>4 DEF WaitTypes
  <2>6. ASSUME NEW i \in DOMAIN waitq' PROVE pc'[waitq'[i]] = "wait"
    <3>1. waitq'[i] \in Range(waitq) /\ waitq'[i] # h
      BY <2>1, <2>3 DEF Range
    <3>2. waitq'[i] \in Proc /\ pc[waitq'[i]] = "wait"
      BY <3>1 DEF WaitTypes, WaitersQueued, Range
    <3> QED BY <3>1, <3>2, <2>5
  <2>7. ASSUME NEW q \in Proc, pc'[q] = "wait" PROVE q \in Range(waitq')
    <3>1. q # h /\ pc[q] = "wait"
      BY <2>5, <2>7
    <3> QED BY <3>1, <2>1, <2>3 DEF WaitersQueued
  <2>8. WaitersQueued'
    BY <2>1, <2>3, <2>6, <2>7 DEF WaitersQueued
  <2> QED BY <1>2, <2>1, <2>2, <2>4, <2>5, <2>8 DEF h
<1> QED BY <1>1, <1>2

\* Wait puts the caller, who was not waiting, at the end of the queue.
LEMMA WaitFacts ==
    ASSUME WaitTypes, WaitersQueued, NEW p \in Proc, pc[p] = "call", Wait(p)
    PROVE  /\ WaitTypes'
           /\ WaitersQueued'
           /\ pc'[p] = "wait" /\ \A q \in Proc \ {p} : pc'[q] = pc[q]
<1>1. p \notin Range(waitq)
  BY DEF WaitersQueued, Range
<1>2. /\ waitq' \in Seq(Proc) /\ Range(waitq') = Range(waitq) \cup {p} /\ IsInjective(waitq')
  BY <1>1, AppendFacts DEF WaitTypes, WaitersQueued, Wait
<1>3. WaitTypes' /\ pc'[p] = "wait" /\ \A q \in Proc \ {p} : pc'[q] = pc[q]
  BY <1>2 DEF WaitTypes, Wait
<1>4. ASSUME NEW i \in DOMAIN waitq' PROVE pc'[waitq'[i]] = "wait"
  <2>1. waitq'[i] \in Range(waitq) \cup {p}
    BY <1>2 DEF Range
  <2>2. waitq'[i] \in Range(waitq) => waitq'[i] \in Proc /\ pc[waitq'[i]] = "wait"
    BY DEF WaitTypes, WaitersQueued, Range
  <2> QED BY <2>1, <2>2, <1>3
<1>5. \A q \in Proc : pc'[q] = "wait" => q \in Range(waitq')
  BY <1>2, <1>3 DEF WaitersQueued
<1> QED BY <1>2, <1>3, <1>4, <1>5 DEF WaitersQueued

-----------------------------------------------------------------------------
(* The array *)

ArrayTypes == /\ buf \in [Slot -> Task \cup {Nil}]
              /\ head \in Slot /\ tail \in Slot
              /\ size \in 0 .. Cap

\* The slots counted from head are all different, and the successor of one is
\* the next.
LEMMA AtFacts ==
    ASSUME head \in Slot
    PROVE  /\ \A i \in 0 .. Cap : At(i) \in Slot
           /\ \A i, j \in Slot : At(i) = At(j) => i = j
           /\ \A i \in Slot : (At(i) + 1) % Cap = At(i + 1)
           /\ At(0) = head
<1>1. Cap \in Nat /\ Cap > 0 /\ head \in 0 .. Cap - 1
  BY CapAssumption DEF Slot
<1>2. \A i \in 0 .. Cap : At(i) = IF head + i < Cap THEN head + i ELSE head + i - Cap
  <2> TAKE i \in 0 .. Cap
  <2>1. head \in Int /\ i \in Int /\ head + i >= 0 /\ head + i < 2 * Cap
    BY <1>1
  <2> QED BY <2>1, Wrap DEF At
<1>3. \A i \in 0 .. Cap : At(i) \in Slot
  BY <1>1, <1>2 DEF Slot
<1>4. \A i, j \in Slot : At(i) = At(j) => i = j
  BY <1>1, <1>2 DEF Slot
<1>5. ASSUME NEW i \in Slot PROVE (At(i) + 1) % Cap = At(i + 1)
  <2>1. i \in 0 .. Cap /\ i + 1 \in 0 .. Cap
    BY <1>1 DEF Slot
  <2>2. At(i) \in Int /\ At(i) + 1 >= 0 /\ At(i) + 1 < 2 * Cap
    BY <1>1, <1>3, <2>1 DEF Slot
  <2>3. (At(i) + 1) % Cap = IF At(i) + 1 < Cap THEN At(i) + 1 ELSE At(i) + 1 - Cap
    BY <2>2, Wrap
  <2> QED BY <1>1, <1>2, <2>1, <2>3 DEF Slot
<1>6. At(0) = head
  BY <1>1, <1>2
<1> QED BY <1>3, <1>4, <1>5, <1>6

\* Storing a task at tail extends the window of live slots by one.
LEMMA StoreFacts ==
    ASSUME ArrayTypes, LiveWindow, size # Cap, NEW x \in Task,
           buf' = [buf EXCEPT ![tail] = x], tail' = (tail + 1) % Cap,
           size' = size + 1, head' = head
    PROVE  /\ ArrayTypes'
           /\ LiveWindow'
           /\ At(size) = tail
           /\ \A i \in Slot : buf'[At(i)] = IF i = size THEN x ELSE buf[At(i)]
<1>1. Cap \in Nat \ {0} /\ size \in Slot /\ size + 1 \in 0 .. Cap /\ x # Nil /\ head \in Slot
  BY CapAssumption, NilAssumption DEF ArrayTypes, Slot
<1>2. /\ \A i \in 0 .. Cap : At(i) \in Slot
      /\ \A i, j \in Slot : At(i) = At(j) => i = j
      /\ \A i \in Slot : (At(i) + 1) % Cap = At(i + 1)
  BY <1>1, AtFacts
<1>3. tail = At(size) /\ \A i \in Slot : buf[At(i)] # Nil <=> i < size
  BY DEF LiveWindow
<1>4. tail' = At(size + 1)
  BY <1>1, <1>2, <1>3
<1>5. \A i \in Slot : i \in 0 .. Cap
  BY <1>1 DEF Slot
<1>6. \A i \in Slot : buf'[At(i)] = IF i = size THEN x ELSE buf[At(i)]
  BY <1>1, <1>2, <1>3, <1>5 DEF ArrayTypes
<1>7. \A i \in Slot : buf'[At(i)] # Nil <=> i < size + 1
  <2> TAKE i \in Slot
  <2>1. i \in Int /\ size \in Int
    BY <1>1 DEF Slot
  <2> QED BY <1>1, <1>3, <1>6, <2>1
<1>8. ArrayTypes'
  BY <1>1, <1>2, <1>4 DEF ArrayTypes
<1>9. LiveWindow'
  BY <1>4, <1>7 DEF LiveWindow, At
<1> QED BY <1>3, <1>6, <1>8, <1>9

\* Taking the task at head moves the window by one slot and shortens it.
LEMMA TakeFacts ==
    ASSUME ArrayTypes, LiveWindow, size # 0,
           buf' = [buf EXCEPT ![head] = Nil], head' = (head + 1) % Cap,
           size' = size - 1, tail' = tail
    PROVE  /\ ArrayTypes'
           /\ LiveWindow'
           /\ buf[head] \in Task
           /\ \A i \in Slot : i + 1 \in Slot => At(i)' = At(i + 1) /\ buf'[At(i + 1)] = buf[At(i + 1)]
<1>1. Cap \in Nat \ {0} /\ size - 1 \in Slot /\ size \in 0 .. Cap /\ head \in Slot /\ 0 \in Slot
  BY CapAssumption DEF ArrayTypes, Slot
<1>2. /\ \A i \in 0 .. Cap : At(i) \in Slot
      /\ \A i, j \in Slot : At(i) = At(j) => i = j
      /\ \A i \in Slot : (At(i) + 1) % Cap = At(i + 1)
      /\ At(0) = head
  BY <1>1, AtFacts
<1>3. tail = At(size) /\ \A i \in Slot : buf[At(i)] # Nil <=> i < size
  BY DEF LiveWindow
<1>4. head' = At(1) /\ head' \in Slot
  BY <1>1, <1>2
<1>5. \A i \in Slot : At(i)' = IF i + 1 = Cap THEN head ELSE At(i + 1)
  <2> SUFFICES ASSUME NEW i \in Slot
               PROVE  (head' + i) % Cap = IF i + 1 = Cap THEN head ELSE (head + (i + 1)) % Cap
    BY DEF At
  <2>1. head \in 0 .. Cap - 1 /\ head' \in 0 .. Cap - 1 /\ i \in 0 .. Cap - 1
    BY <1>1, <1>4 DEF Slot
  <2>2. head' = IF head + 1 < Cap THEN head + 1 ELSE head + 1 - Cap
    <3>1. head \in Int /\ head + 1 >= 0 /\ head + 1 < 2 * Cap
      BY <1>1, <2>1
    <3> QED BY <3>1, Wrap
  <2>3. (head' + i) % Cap = IF head' + i < Cap THEN head' + i ELSE head' + i - Cap
    <3>1. head' \in Int /\ i \in Int /\ head' + i >= 0 /\ head' + i < 2 * Cap
      BY <1>1, <2>1
    <3> QED BY <3>1, Wrap
  <2>4. (head + (i + 1)) % Cap = IF head + (i + 1) < Cap THEN head + (i + 1) ELSE head + (i + 1) - Cap
    <3>1. head \in Int /\ i + 1 \in Int /\ head + (i + 1) >= 0 /\ head + (i + 1) < 2 * Cap
      BY <1>1, <2>1
    <3> QED BY <3>1, Wrap
  <2> QED BY <1>1, <2>1, <2>2, <2>3, <2>4
<1>6. tail = (head' + (size - 1)) % Cap
  <2>1. size - 1 + 1 = size
    BY <1>1
  <2>2. At(Cap) = head
    <3>1. head \in Int /\ Cap \in Int /\ head >= 0 /\ head + Cap >= 0 /\ head + Cap < 2 * Cap
      BY <1>1 DEF Slot
    <3>2. (head + Cap) % Cap = IF head + Cap < Cap THEN head + Cap ELSE head + Cap - Cap
      BY <3>1, Wrap
    <3>3. (head + Cap) % Cap = head
      BY <3>1, <3>2
    <3> QED BY <3>3 DEF At
  <2>3. (head' + (size - 1)) % Cap = IF size = Cap THEN head ELSE At(size)
    BY <1>1, <1>5, <2>1 DEF At
  <2> QED BY <1>3, <2>2, <2>3
<1>7. ASSUME NEW i \in Slot PROVE buf'[At(i)'] # Nil <=> i < size - 1
  <2>1. CASE i + 1 = Cap
    <3>1. buf'[head] = Nil
      BY <1>1 DEF ArrayTypes
    <3>2. ~(i < size - 1)
      BY <1>1, <2>1 DEF Slot
    <3> QED BY <1>5, <2>1, <3>1, <3>2
  <2>2. CASE i + 1 # Cap
    <3>1. i + 1 \in Slot /\ i + 1 \in 0 .. Cap /\ i + 1 # 0
      BY <1>1, <2>2 DEF Slot
    <3>2. At(i + 1) # head /\ At(i + 1) \in Slot
      BY <1>1, <1>2, <3>1
    <3>3. buf'[At(i + 1)] = buf[At(i + 1)]
      BY <3>2 DEF ArrayTypes
    <3>4. buf[At(i + 1)] # Nil <=> i + 1 < size
      BY <1>3, <3>1
    <3>5. i + 1 < size <=> i < size - 1
      BY <1>1 DEF Slot
    <3> QED BY <1>5, <2>2, <3>3, <3>4, <3>5
  <2> QED BY <2>1, <2>2
<1>8. buf[head] \in Task
  <2>1. buf[At(0)] # Nil
    BY <1>1, <1>3 DEF Slot
  <2> QED BY <1>1, <1>2, <2>1 DEF ArrayTypes
<1>9. ArrayTypes'
  BY <1>1, <1>4 DEF ArrayTypes, Slot
<1>10. LiveWindow'
  BY <1>6, <1>7 DEF LiveWindow, At
<1>11. ASSUME NEW i \in Slot, i + 1 \in Slot
       PROVE  At(i)' = At(i + 1) /\ buf'[At(i + 1)] = buf[At(i + 1)]
  <2>1. i + 1 # Cap /\ i + 1 # 0 /\ i + 1 \in 0 .. Cap
    BY <1>1, <1>11 DEF Slot
  <2>2. At(i + 1) # head /\ At(i + 1) \in Slot
    BY <1>1, <1>2, <1>11, <2>1
  <2> QED BY <1>5, <2>1, <2>2 DEF ArrayTypes
<1> QED BY <1>8, <1>9, <1>10, <1>11

-----------------------------------------------------------------------------
(* The inductive invariant *)

\* A producer inside Enqueue has a task to store.
ProducersHaveTask == \A p \in Producer : pc[p] # "idle" => item[p] \in Task

\* Under the reject policy only Dequeue waits.
OnlyConsumersWait == policy = "reject" => \A p \in Producer : pc[p] # "wait"

Inv == /\ TypeOK
       /\ WaitersQueued
       /\ LiveWindow
       /\ CloseReleasesAll
       /\ ProducersHaveTask
       /\ OnlyConsumersWait
       /\ NoLostWakeup

LEMMA InitInv == Init => Inv
<1> SUFFICES ASSUME Init PROVE Inv
  OBVIOUS
<1> USE DEF Init
<1>1. Cap \in Nat \ {0} /\ 0 \in Slot /\ 0 \in 0 .. Cap
  BY CapAssumption DEF Slot
<1>2. TypeOK
  <2>1. buf \in [Slot -> Task \cup {Nil}] /\ item \in [Proc -> Task \cup {Nil}]
    OBVIOUS
  <2>2. /\ waitq \in Seq(Proc)
        /\ pc \in [Proc -> {"idle", "call", "wait"}]
        /\ ret \in [Proc -> {"none", "ok", "full", "closed", "empty"}]
    OBVIOUS
  <2> QED BY <1>1, <2>1, <2>2 DEF TypeOK
<1>3. WaitersQueued
  BY DEF WaitersQueued, IsInjective, Range
<1>4. LiveWindow
  <2>1. At(0) = 0 /\ \A i \in Slot : i \in 0 .. Cap /\ ~(i < 0)
    BY <1>1, AtFacts DEF Slot
  <2>2. \A i \in Slot : buf[At(i)] = Nil
    BY <1>1, <2>1, AtFacts
  <2> QED BY <2>1, <2>2 DEF LiveWindow
<1>5. CloseReleasesAll /\ ProducersHaveTask /\ OnlyConsumersWait /\ NoLostWakeup
  BY DEF CloseReleasesAll, ProducersHaveTask, OnlyConsumersWait, NoLostWakeup, Proc
<1> QED BY <1>2, <1>3, <1>4, <1>5 DEF Inv

\* What a Signal does to the count of awake workers: it goes up by the worker
\* that is released and down by the caller, if that was one of them.
LEMMA AwakeAfterSignal ==
    ASSUME WaitTypes, WaitersQueued, NEW p \in Proc, pc[p] # "wait", SignalAndReturn(p),
           waitq # <<>>, Head(waitq) \in Consumer
    PROVE  /\ Cardinality(AwakeConsumers) \in Nat /\ Cardinality(AwakeConsumers') \in Nat
           /\ Cardinality(AwakeConsumers') >= Cardinality(AwakeConsumers)
           /\ p \notin AwakeConsumers => Cardinality(AwakeConsumers') = Cardinality(AwakeConsumers) + 1
<1> DEFINE h == Head(waitq)
<1>1. /\ h \in Proc \ {p} /\ pc[h] = "wait" /\ pc'[h] = "call" /\ pc'[p] = "idle"
      /\ \A q \in Proc \ {p, h} : pc'[q] = pc[q]
  BY SignalFacts
<1>2. AwakeConsumers' = (AwakeConsumers \ {p}) \cup {h}
  BY <1>1 DEF AwakeConsumers, Proc
<1>3. IsFiniteSet(AwakeConsumers)
  BY ProcAssumption, FS_Subset DEF AwakeConsumers, Proc
<1>4. /\ IsFiniteSet(AwakeConsumers \ {p})
      /\ Cardinality(AwakeConsumers \ {p}) =
            IF p \in AwakeConsumers THEN Cardinality(AwakeConsumers) - 1 ELSE Cardinality(AwakeConsumers)
  BY <1>3, FS_RemoveElement
<1>5. h \notin AwakeConsumers \ {p}
  BY <1>1 DEF AwakeConsumers
<1>6. Cardinality(AwakeConsumers') = Cardinality(AwakeConsumers \ {p}) + 1
  BY <1>2, <1>4, <1>5, FS_AddElement
<1>7. Cardinality(AwakeConsumers) \in Nat /\ Cardinality(AwakeConsumers \ {p}) \in Nat
  BY <1>3, <1>4, FS_CardinalityType
<1> QED BY <1>4, <1>6, <1>7

LEMMA CallInv ==
    ASSUME Inv, NEW p \in Proc, NEW x \in Task \cup {Nil}, p \in Producer => x \in Task, Call(p, x)
    PROVE  Inv'
<1> USE DEF Inv, Call
<1>1. TypeOK'
  BY DEF TypeOK
<1>2. \A q \in Proc : pc'[q] = "wait" <=> pc[q] = "wait"
  BY DEF TypeOK
<1>3. WaitersQueued'
  BY <1>2 DEF WaitersQueued, TypeOK
<1>4. LiveWindow' /\ CloseReleasesAll' /\ OnlyConsumersWait'
  BY <1>2 DEF LiveWindow, At, CloseReleasesAll, OnlyConsumersWait, Proc
<1>5. ProducersHaveTask'
  BY DEF ProducersHaveTask, TypeOK, Proc
<1>6. NoLostWakeup'
  <2>1. IsFiniteSet(AwakeConsumers')
    BY ProcAssumption, FS_Subset DEF AwakeConsumers, Proc
  <2>2. AwakeConsumers \subseteq AwakeConsumers'
    BY DEF AwakeConsumers, TypeOK, Proc
  <2>3. /\ IsFiniteSet(AwakeConsumers)
        /\ Cardinality(AwakeConsumers) <= Cardinality(AwakeConsumers')
    BY <2>1, <2>2, FS_Subset
  <2>4. Cardinality(AwakeConsumers) \in Nat /\ Cardinality(AwakeConsumers') \in Nat
    BY <2>1, <2>3, FS_CardinalityType
  <2> QED BY <2>3, <2>4 DEF NoLostWakeup, TypeOK
<1> QED BY <1>1, <1>3, <1>4, <1>5, <1>6

LEMMA ClosedNobodyQueued ==
    ASSUME Inv, closed
    PROVE  waitq = <<>>
<1> SUFFICES ASSUME waitq # <<>> PROVE FALSE
  OBVIOUS
<1>1. 1 \in DOMAIN waitq /\ waitq[1] \in Proc
  BY DEF Inv, TypeOK
<1> QED BY <1>1 DEF Inv, WaitersQueued, CloseReleasesAll

LEMMA ReturnOnlyInv ==
    ASSUME Inv, NEW p \in Proc, NEW x \in Task \cup {Nil},
           NEW r \in {"none", "ok", "full", "closed", "empty"},
           pc[p] # "wait", p \in Consumer => pc[p] = "idle" \/ closed,
           ReturnOnly(p, x, r)
    PROVE  Inv'
<1> USE DEF Inv, ReturnOnly
<1>1. TypeOK'
  BY DEF TypeOK
<1>2. \A q \in Proc : pc'[q] = "wait" <=> pc[q] = "wait"
  BY DEF TypeOK
<1>3. WaitersQueued'
  BY <1>2 DEF WaitersQueued, TypeOK
<1>4. LiveWindow' /\ CloseReleasesAll' /\ OnlyConsumersWait'
  BY <1>2 DEF LiveWindow, At, CloseReleasesAll, OnlyConsumersWait, Proc
<1>5. ProducersHaveTask'
  BY DEF ProducersHaveTask, TypeOK, Proc
<1>6. NoLostWakeup'
  <2>1. CASE closed
    BY <2>1, ClosedNobodyQueued DEF NoLostWakeup
  <2>2. CASE ~closed
    <3>1. AwakeConsumers' = AwakeConsumers
      BY <2>2, ProcAssumption DEF AwakeConsumers, TypeOK, Proc
    <3> QED BY <3>1 DEF NoLostWakeup
  <2> QED BY <2>1, <2>2
<1> QED BY <1>1, <1>3, <1>4, <1>5, <1>6

LEMMA WaitInv ==
    ASSUME Inv, NEW p \in Proc, pc[p] = "call", ~closed, Wait(p),
           p \in Producer => policy = "block", p \in Consumer => size = 0
    PROVE  Inv'
<1> USE DEF Inv
<1>1. WaitTypes' /\ WaitersQueued' /\ pc'[p] = "wait" /\ \A q \in Proc \ {p} : pc'[q] = pc[q]
  BY WaitFacts DEF WaitTypes, TypeOK
<1>2. TypeOK'
  BY <1>1 DEF TypeOK, WaitTypes, Wait
<1>3. LiveWindow' /\ CloseReleasesAll'
  BY DEF LiveWindow, At, CloseReleasesAll, Wait
<1>4. ProducersHaveTask'
  BY <1>1 DEF ProducersHaveTask, Wait, Proc
<1>5. OnlyConsumersWait'
  BY <1>1 DEF OnlyConsumersWait, Proc, Wait
<1>6. NoLostWakeup'
  <2>1. Cardinality(AwakeConsumers') \in Nat
    BY ProcAssumption, FS_Subset, FS_CardinalityType DEF AwakeConsumers, Proc
  <2>2. policy' = policy /\ (policy = "reject" => size' = 0)
    BY DEF Wait, Proc
  <2> QED BY <2>1, <2>2 DEF NoLostWakeup
<1> QED BY <1>1, <1>2, <1>3, <1>4, <1>5, <1>6

\* What every call that ends with a Signal preserves.
LEMMA SignalInv ==
    ASSUME Inv, NEW p \in Proc, pc[p] # "wait", SignalAndReturn(p), UNCHANGED policy
    PROVE  /\ waitq' \in Seq(Proc) /\ pc' \in [Proc -> {"idle", "call", "wait"}]
           /\ WaitersQueued'
           /\ closed' = closed => CloseReleasesAll'
           /\ OnlyConsumersWait'
           /\ \A q \in Proc : pc'[q] # "idle" => pc[q] # "idle" /\ q # p
           /\ waitq' # <<>> => waitq # <<>>
           /\ policy = "reject" /\ waitq # <<>> => Head(waitq) \in Consumer
<1> USE DEF Inv
<1>1. WaitTypes
  BY DEF WaitTypes, TypeOK
<1>2. /\ WaitTypes' /\ WaitersQueued' /\ pc'[p] = "idle"
      /\ waitq = <<>> => waitq' = <<>> /\ \A q \in Proc \ {p} : pc'[q] = pc[q]
      /\ waitq # <<>> => /\ Head(waitq) \in Proc \ {p}
                         /\ pc[Head(waitq)] = "wait"
                         /\ pc'[Head(waitq)] = "call"
                         /\ \A q \in Proc \ {p, Head(waitq)} : pc'[q] = pc[q]
  BY <1>1, SignalFacts
<1>3. \A q \in Proc : /\ pc'[q] = "wait" => pc[q] = "wait"
                      /\ pc'[q] # "idle" => pc[q] # "idle" /\ q # p
  BY <1>2
<1>4. closed' = closed => CloseReleasesAll'
  BY <1>3 DEF CloseReleasesAll
<1>5. OnlyConsumersWait'
  BY <1>3 DEF OnlyConsumersWait, Proc
<1>6. policy = "reject" /\ waitq # <<>> => Head(waitq) \in Consumer
  BY <1>2 DEF OnlyConsumersWait, Proc
<1> QED BY <1>2, <1>3, <1>4, <1>5, <1>6 DEF WaitTypes

LEMMA EnqueueStoreInv ==
    ASSUME Inv, NEW p \in Producer, EnqueueStore(p)
    PROVE  Inv'
<1> USE DEF Inv, EnqueueStore
<1>1. p \in Proc /\ p \notin Consumer /\ item[p] \in Task /\ size # Cap
  BY ProcAssumption DEF Proc, ProducersHaveTask, Full
<1>2. ArrayTypes' /\ LiveWindow'
  <2>1. ArrayTypes
    BY DEF ArrayTypes, TypeOK
  <2> QED BY <1>1, <2>1, StoreFacts
<1>3. /\ waitq' \in Seq(Proc) /\ pc' \in [Proc -> {"idle", "call", "wait"}]
      /\ WaitersQueued' /\ CloseReleasesAll' /\ OnlyConsumersWait'
      /\ \A q \in Proc : pc'[q] # "idle" => pc[q] # "idle" /\ q # p
      /\ waitq' # <<>> => waitq # <<>>
      /\ policy = "reject" /\ waitq # <<>> => Head(waitq) \in Consumer
  BY <1>1, SignalInv
<1>4. TypeOK'
  BY <1>2, <1>3 DEF TypeOK, ArrayTypes
<1>5. ProducersHaveTask'
  BY <1>3 DEF ProducersHaveTask, Proc
<1>6. NoLostWakeup'
  <2> SUFFICES ASSUME policy = "reject", waitq # <<>>
               PROVE  size + 1 <= Cardinality(AwakeConsumers')
    BY <1>3 DEF NoLostWakeup
  <2>1. WaitTypes /\ p \notin AwakeConsumers
    BY <1>1 DEF WaitTypes, TypeOK, AwakeConsumers
  <2>2. /\ Cardinality(AwakeConsumers) \in Nat
        /\ Cardinality(AwakeConsumers') = Cardinality(AwakeConsumers) + 1
    BY <1>1, <1>3, <2>1, AwakeAfterSignal
  <2> QED BY <2>2 DEF NoLostWakeup, TypeOK
<1> QED BY <1>2, <1>3, <1>4, <1>5, <1>6

LEMMA TakeHeadInv ==
    ASSUME Inv, NEW c \in Consumer, pc[c] # "wait", size # 0, TakeHead(c)
    PROVE  Inv'
<1> USE DEF Inv, TakeHead
<1>1. c \in Proc /\ c \notin Producer
  BY ProcAssumption DEF Proc
<1>2. ArrayTypes' /\ LiveWindow' /\ buf[head] \in Task
  <2>1. ArrayTypes
    BY DEF ArrayTypes, TypeOK
  <2> QED BY <2>1, TakeFacts
<1>3. /\ waitq' \in Seq(Proc) /\ pc' \in [Proc -> {"idle", "call", "wait"}]
      /\ WaitersQueued' /\ CloseReleasesAll' /\ OnlyConsumersWait'
      /\ \A q \in Proc : pc'[q] # "idle" => pc[q] # "idle" /\ q # c
      /\ waitq' # <<>> => waitq # <<>>
      /\ policy = "reject" /\ waitq # <<>> => Head(waitq) \in Consumer
  BY <1>1, SignalInv
<1>4. TypeOK'
  BY <1>2, <1>3 DEF TypeOK, ArrayTypes
<1>5. ProducersHaveTask'
  BY <1>1, <1>3 DEF ProducersHaveTask, Proc, TypeOK
<1>6. NoLostWakeup'
  <2> SUFFICES ASSUME policy = "reject", waitq # <<>>
               PROVE  size - 1 <= Cardinality(AwakeConsumers')
    BY <1>3 DEF NoLostWakeup
  <2>1. WaitTypes
    BY DEF WaitTypes, TypeOK
  <2>2. /\ Cardinality(AwakeConsumers) \in Nat /\ Cardinality(AwakeConsumers') \in Nat
        /\ Cardinality(AwakeConsumers') >= Cardinality(AwakeConsumers)
    BY <1>1, <1>3, <2>1, AwakeAfterSignal
  <2> QED BY <2>2 DEF NoLostWakeup, TypeOK
<1> QED BY <1>2, <1>3, <1>4, <1>5, <1>6

LEMMA CloseInv == Inv /\ Close => Inv'
<1> SUFFICES ASSUME Inv, Close PROVE Inv'
  OBVIOUS
<1> USE DEF Inv, Close
<1>1. \A q \in Proc : pc'[q] # "wait" /\ (pc'[q] # "idle" => pc[q] # "idle")
  BY DEF TypeOK
<1>2. waitq' \in Seq(Proc) /\ pc' \in [Proc -> {"idle", "call", "wait"}]
  BY DEF TypeOK
<1>3. TypeOK'
  BY <1>2 DEF TypeOK
<1>4. WaitersQueued'
  <2>1. DOMAIN waitq' = {}
    OBVIOUS
  <2> QED BY Zenon, <1>1, <2>1 DEF WaitersQueued, IsInjective
<1>5. LiveWindow' /\ CloseReleasesAll' /\ OnlyConsumersWait' /\ ProducersHaveTask' /\ NoLostWakeup'
  BY <1>1 DEF LiveWindow, At, CloseReleasesAll, OnlyConsumersWait, ProducersHaveTask, NoLostWakeup, Proc
<1> QED BY <1>3, <1>4, <1>5

\* One step per action of Next.
LEMMA NextInv == Inv /\ [Next]_vars => Inv'
<1> SUFFICES ASSUME Inv, [Next]_vars PROVE Inv'
  OBVIOUS
<1>1. \A p \in Proc : pc[p] \in {"idle", "call", "wait"} /\ item[p] \in Task \cup {Nil}
  BY DEF Inv, TypeOK
<1>2. ASSUME NEW p \in Producer, NEW x \in Task, Call(p, x) PROVE Inv'
  BY <1>2, CallInv DEF Proc
<1>3. ASSUME NEW p \in Producer, EnqueueFull(p) PROVE Inv'
  <2>1. p \in Proc /\ p \notin Consumer
    BY ProcAssumption DEF Proc
  <2>2. CASE ReturnOnly(p, item[p], "full")
    BY <1>1, <1>3, <2>1, <2>2, ReturnOnlyInv DEF EnqueueFull
  <2>3. CASE policy = "block" /\ Wait(p)
    BY <1>3, <2>1, <2>3, WaitInv DEF EnqueueFull
  <2> QED BY <1>3, <2>2, <2>3 DEF EnqueueFull
<1>4. ASSUME NEW p \in Producer, EnqueueClosed(p) PROVE Inv'
  BY <1>1, <1>4, ReturnOnlyInv DEF EnqueueClosed, Proc
<1>5. ASSUME NEW p \in Producer, EnqueueStore(p) PROVE Inv'
  BY <1>5, EnqueueStoreInv
<1>6. ASSUME NEW c \in Consumer, Call(c, Nil) PROVE Inv'
  BY <1>6, CallInv, ProcAssumption DEF Proc
<1>7. ASSUME NEW c \in Consumer, Dequeue(c) PROVE Inv'
  <2>1. c \in Proc /\ c \notin Producer /\ pc[c] = "call"
    BY <1>7, ProcAssumption DEF Proc, Dequeue
  <2>2. CASE size = 0 /\ ~closed /\ Wait(c)
    BY <2>1, <2>2, WaitInv
  <2>3. CASE closed /\ ReturnOnly(c, Nil, "closed")
    BY <2>1, <2>3, ReturnOnlyInv
  <2>4. CASE size # 0 /\ TakeHead(c)
    BY <2>1, <2>4, TakeHeadInv
  <2> QED BY <1>7, <2>2, <2>3, <2>4 DEF Dequeue
<1>8. ASSUME NEW c \in Consumer, TryDequeue(c) PROVE Inv'
  <2>1. c \in Proc /\ pc[c] = "idle"
    BY <1>8 DEF Proc, TryDequeue
  <2>2. CASE ReturnOnly(c, Nil, "empty")
    BY <2>1, <2>2, ReturnOnlyInv
  <2>3. CASE size # 0 /\ TakeHead(c)
    BY <2>1, <2>3, TakeHeadInv
  <2> QED BY <1>8, <2>2, <2>3 DEF TryDequeue
<1>9. CASE Close
  BY <1>9, CloseInv
<1>10. CASE UNCHANGED vars
  BY <1>10 DEF vars, Inv, TypeOK, WaitersQueued, LiveWindow, At, CloseReleasesAll,
              ProducersHaveTask, OnlyConsumersWait, NoLostWakeup, AwakeConsumers
<1> QED
  BY <1>2, <1>3, <1>4, <1>5, <1>6, <1>7, <1>8, <1>9, <1>10 DEF Next, Enqueue

LEMMA AlwaysInv == Spec => []Inv
BY InitInv, NextInv, PTL DEF Spec

-----------------------------------------------------------------------------
(* The theorems *)

\* For every capacity, either policy and any goroutines, the fields of the ring
\* buffer keep their types: indices stay inside the array and size inside 0..cap.
THEOREM RingBufferTypes == Spec => []TypeOK
<1>1. Inv => TypeOK
  BY DEF Inv
<1> QED BY <1>1, AlwaysInv, PTL

\* The live slots are always the size slots after head, tail follows them and
\* all others are nil, however Enqueue, Dequeue and TryDequeue interleave.
THEOREM RingBufferLiveWindow == Spec => []LiveWindow
<1>1. Inv => LiveWindow
  BY DEF Inv
<1> QED BY <1>1, AlwaysInv, PTL

\* Nobody waits on a closed buffer.
THEOREM RingBufferCloseReleases == Spec => []CloseReleasesAll
<1>1. Inv => CloseReleasesAll
  BY DEF Inv
<1> QED BY <1>1, AlwaysInv, PTL

\* Under the reject policy no Signal is ever lost: while some worker sleeps in
\* Dequeue, there are at least as many awake workers as queued tasks.
THEOREM RingBufferNoLostWakeup == Spec => []NoLostWakeup
<1>1. Inv => NoLostWakeup
  BY DEF Inv
<1> QED BY <1>1, AlwaysInv, PTL

-----------------------------------------------------------------------------
(* RingBuffer implements BoundedFIFO *)

Open == {p \in Proc : pc[p] # "idle"}

ContentsOK == /\ Contents \in Seq(Task)
              /\ Len(Contents) = size
              /\ \A i \in 1 .. size : Contents[i] = buf[(head + (i - 1)) % Cap]

LEMMA ContentsType == ArrayTypes /\ LiveWindow => ContentsOK
<1> SUFFICES ASSUME ArrayTypes, LiveWindow PROVE ContentsOK
  OBVIOUS
<1>1. Cap \in Nat \ {0} /\ size \in Nat /\ size <= Cap
  BY CapAssumption DEF ArrayTypes
<1>2. ASSUME NEW i \in 1 .. size PROVE buf[At(i - 1)] \in Task
  <2>1. i - 1 \in Slot /\ i - 1 < size /\ i - 1 \in 0 .. Cap
    BY <1>1 DEF Slot
  <2>2. buf[At(i - 1)] # Nil
    BY <2>1 DEF LiveWindow
  <2>3. At(i - 1) \in Slot
    BY <2>1, AtFacts DEF ArrayTypes
  <2> QED BY <2>2, <2>3 DEF ArrayTypes
<1>3. Contents \in [1 .. size -> Task]
  BY <1>2 DEF Contents
<1> QED BY <1>1, <1>3 DEF Contents, ContentsOK, At

\* The same of the next state.
LEMMA ContentsTypeNext == ArrayTypes' /\ LiveWindow' => ContentsOK'
BY ContentsType, PTL

\* Enqueue appends to the contents.
LEMMA StoreAppends ==
    ASSUME Inv, NEW p \in Producer, EnqueueStore(p)
    PROVE  Contents' = Append(Contents, item[p])
<1>1. ArrayTypes /\ LiveWindow /\ size # Cap /\ item[p] \in Task
  BY DEF Inv, TypeOK, ArrayTypes, EnqueueStore, Full, ProducersHaveTask
<1>2. /\ ArrayTypes' /\ LiveWindow' /\ size' = size + 1 /\ head' = head
      /\ \A i \in Slot : buf'[At(i)] = IF i = size THEN item[p] ELSE buf[At(i)]
  BY <1>1, StoreFacts DEF EnqueueStore
<1>3. Contents \in Seq(Task) /\ Len(Contents) = size /\ \A i \in 1 .. size : Contents[i] = buf[At(i - 1)]
  BY <1>1, ContentsType DEF ContentsOK, At
<1>4. /\ Contents' \in Seq(Task) /\ Len(Contents') = size + 1
      /\ \A i \in 1 .. size + 1 : Contents'[i] = buf'[At(i - 1)]
  <2>1. /\ Contents' \in Seq(Task) /\ Len(Contents') = size'
        /\ \A i \in 1 .. size' : Contents'[i] = buf'[(head' + (i - 1)) % Cap]
    BY <1>2, ContentsTypeNext DEF ContentsOK
  <2> QED BY <1>2, <2>1 DEF At
<1>5. /\ Append(Contents, item[p]) \in Seq(Task) /\ Len(Append(Contents, item[p])) = size + 1
      /\ \A i \in 1 .. size : Append(Contents, item[p])[i] = Contents[i]
      /\ Append(Contents, item[p])[size + 1] = item[p]
  BY <1>1, <1>3, AppendProperties
<1>6. ASSUME NEW i \in 1 .. size + 1 PROVE Contents'[i] = Append(Contents, item[p])[i]
  <2>1. size \in Nat /\ Cap \in Nat /\ size < Cap
    BY <1>1, CapAssumption DEF ArrayTypes
  <2>2. i - 1 \in Slot
    BY <2>1 DEF Slot
  <2>3. CASE i = size + 1
    <3>1. i - 1 = size
      BY <2>1, <2>3
    <3> QED BY <1>2, <1>4, <1>5, <2>2, <2>3, <3>1
  <2>4. CASE i # size + 1
    <3>1. i \in 1 .. size /\ i - 1 # size
      BY <2>1, <2>4
    <3> QED BY <1>2, <1>3, <1>4, <1>5, <2>2, <3>1
  <2> QED BY <2>3, <2>4
<1> QED BY <1>4, <1>5, <1>6, SeqEqual

\* Dequeue takes the first of the contents and leaves the rest.
LEMMA TakeIsHead ==
    ASSUME Inv, NEW c \in Consumer, size # 0, TakeHead(c)
    PROVE  Contents # <<>> /\ buf[head] = Head(Contents) /\ Contents' = Tail(Contents)
<1>1. ArrayTypes /\ LiveWindow
  BY DEF Inv, TypeOK, ArrayTypes
<1>2. /\ ArrayTypes' /\ LiveWindow' /\ size' = size - 1
      /\ \A i \in Slot : i + 1 \in Slot => At(i)' = At(i + 1) /\ buf'[At(i + 1)] = buf[At(i + 1)]
  BY <1>1, TakeFacts DEF TakeHead
<1>3. Contents \in Seq(Task) /\ Len(Contents) = size /\ \A i \in 1 .. size : Contents[i] = buf[At(i - 1)]
  BY <1>1, ContentsType DEF ContentsOK, At
<1>4. size \in Nat \ {0} /\ Cap \in Nat /\ size <= Cap /\ At(0) = head
  BY <1>1, AtFacts, CapAssumption DEF ArrayTypes
<1>5. Contents # <<>> /\ Head(Contents) = Contents[1]
  BY <1>3, <1>4
<1>6. buf[head] = Head(Contents)
  <2>1. Contents[1] = buf[At(1 - 1)]
    BY <1>3, <1>4
  <2> QED BY <1>4, <1>5, <2>1
<1>7. /\ Contents' \in Seq(Task) /\ Len(Contents') = size - 1
      /\ \A i \in 1 .. size - 1 : Contents'[i] = buf'[(head' + (i - 1)) % Cap]
  <2>1. /\ Contents' \in Seq(Task) /\ Len(Contents') = size'
        /\ \A i \in 1 .. size' : Contents'[i] = buf'[(head' + (i - 1)) % Cap]
    BY <1>2, ContentsTypeNext DEF ContentsOK
  <2> QED BY <1>2, <2>1
<1>8. /\ Tail(Contents) \in Seq(Task) /\ Len(Tail(Contents)) = size - 1
      /\ \A i \in 1 .. size - 1 : Tail(Contents)[i] = Contents[i + 1]
  BY <1>3, <1>5, HeadTailProperties
<1>9. ASSUME NEW i \in 1 .. size - 1 PROVE Contents'[i] = Tail(Contents)[i]
  <2>1. /\ i - 1 \in Slot /\ (i - 1) + 1 \in Slot /\ (i - 1) + 1 = i
        /\ i + 1 \in 1 .. size /\ (i + 1) - 1 = i
    BY <1>4 DEF Slot
  <2>2. (head' + (i - 1)) % Cap = At(i) /\ buf'[At(i)] = buf[At(i)]
    BY <1>2, <2>1 DEF At
  <2>3. Tail(Contents)[i] = buf[At(i)]
    BY <1>3, <1>8, <2>1
  <2> QED BY <1>7, <2>2, <2>3
<1> QED BY <1>5, <1>6, <1>7, <1>8, <1>9, SeqEqual

LEMMA InitRefines == Init => FIFO!Init
<1> SUFFICES ASSUME Init PROVE FIFO!Init
  OBVIOUS
<1>1. Contents = <<>>
  BY DEF Init, Contents
<1>2. Open = {}
  BY DEF Init, Open
<1> QED BY <1>1, <1>2 DEF Init, FIFO!Init, FIFO!Proc, Proc, Open

\* SignalAndReturn ends the caller's call and nobody else's.
LEMMA SignalEnds ==
    ASSUME Inv, NEW p \in Proc, pc[p] # "wait", SignalAndReturn(p)
    PROVE  Open' = Open \ {p}
<1>1. WaitTypes /\ WaitersQueued
  BY DEF Inv, WaitTypes, TypeOK
<1>2. /\ pc'[p] = "idle"
      /\ waitq = <<>> => waitq' = <<>> /\ \A q \in Proc \ {p} : pc'[q] = pc[q]
      /\ waitq # <<>> => /\ Head(waitq) \in Proc \ {p}
                         /\ pc[Head(waitq)] = "wait"
                         /\ pc'[Head(waitq)] = "call"
                         /\ \A q \in Proc \ {p, Head(waitq)} : pc'[q] = pc[q]
  BY <1>1, SignalFacts
<1>3. \A q \in Proc : pc'[q] # "idle" <=> pc[q] # "idle" /\ q # p
  BY <1>2
<1> QED BY <1>3 DEF Open

LEMMA NextRefines == Inv /\ [Next]_vars => [FIFO!Next]_(FIFO!vars)
<1> SUFFICES ASSUME Inv, [Next]_vars PROVE FIFO!Next \/ UNCHANGED FIFO!vars
  BY DEF FIFO!vars
<1> USE DEF Inv
<1>1. ContentsOK /\ size \in 0 .. Cap /\ Cap \in Nat
  BY ContentsType, CapAssumption DEF TypeOK, ArrayTypes
<1>2. (Contents = <<>> <=> size = 0) /\ Len(Contents) = size
  BY <1>1 DEF ContentsOK
<1>3. UNCHANGED <<buf, head, size>> => Contents' = Contents
  BY DEF Contents, At
<1>4. \A p \in Proc : p \in Open <=> pc[p] # "idle"
  BY DEF Open
<1>5. ASSUME NEW p \in Proc, NEW x, Call(p, x) PROVE FIFO!Call(p, x)
  <2>1. Open' = Open \cup {p} /\ p \notin Open
    BY <1>5 DEF Call, Open, TypeOK
  <2> QED BY <1>3, <1>5, <2>1 DEF Call, FIFO!Call, Open
<1>6. ASSUME NEW p \in Proc, NEW x, NEW r, pc[p] # "wait", ReturnOnly(p, x, r)
      PROVE  /\ Open' = Open \ {p}
             /\ item' = [item EXCEPT ![p] = x] /\ ret' = [ret EXCEPT ![p] = r]
             /\ UNCHANGED <<policy, Contents, closed>>
  <2>1. Open' = Open \ {p}
    BY <1>6 DEF ReturnOnly, Open, TypeOK
  <2> QED BY <1>3, <1>6, <2>1 DEF ReturnOnly
<1>7. ASSUME NEW p \in Proc, pc[p] = "call", Wait(p) PROVE UNCHANGED FIFO!vars
  <2>1. Open' = Open
    BY <1>7 DEF Wait, Open, TypeOK
  <2> QED BY <1>3, <1>7, <2>1 DEF Wait, FIFO!vars, Open
<1>8. ASSUME NEW p \in Producer, EnqueueFull(p) PROVE FIFO!Refuse(p) \/ UNCHANGED FIFO!vars
  <2>1. p \in Proc /\ pc[p] = "call" /\ size = Cap /\ ~closed
    BY <1>8 DEF EnqueueFull, Full, Proc
  <2>2. CASE policy = "reject" /\ ReturnOnly(p, item[p], "full")
    BY <1>2, <1>4, <1>6, <2>1, <2>2 DEF FIFO!Refuse, FIFO!Return, Open
  <2>3. CASE Wait(p)
    BY <1>7, <2>1, <2>3
  <2> QED BY <1>8, <2>2, <2>3 DEF EnqueueFull
<1>9. ASSUME NEW p \in Producer, EnqueueClosed(p) PROVE FIFO!Refuse(p)
  <2>1. p \in Proc /\ pc[p] = "call" /\ closed /\ ReturnOnly(p, item[p], "closed")
    BY <1>9 DEF EnqueueClosed, Proc
  <2> QED BY <1>4, <1>6, <2>1 DEF FIFO!Refuse, FIFO!Return, Open
<1>10. ASSUME NEW p \in Producer, EnqueueStore(p) PROVE FIFO!Put(p)
  <2>1. p \in Proc /\ pc[p] = "call" /\ size < Cap /\ ~closed
    <3>1. p \in Proc /\ pc[p] = "call" /\ size # Cap /\ ~closed
      BY Zenon, <1>10 DEF EnqueueStore, Full, Proc
    <3>2. size < Cap
      <4> HIDE DEF Inv
      <4> QED BY <1>1, <3>1
    <3> QED BY Zenon, <3>1, <3>2
  <2>2. Contents' = Append(Contents, item[p])
    BY <1>10, StoreAppends
  <2>3. Open' = Open \ {p}
    BY <1>10, <2>1, SignalEnds DEF EnqueueStore
  <2>4. /\ item' = [item EXCEPT ![p] = item[p]] /\ ret' = [ret EXCEPT ![p] = "ok"]
        /\ UNCHANGED <<policy, closed>>
    BY <1>10, <2>1 DEF EnqueueStore, TypeOK
  <2> QED BY <1>2, <1>4, <2>1, <2>2, <2>3, <2>4 DEF FIFO!Put, FIFO!Return, Open
<1>11. ASSUME NEW c \in Consumer, pc[c] # "wait", size # 0, TakeHead(c)
       PROVE  /\ Contents # <<>> /\ Contents' = Tail(Contents)
              /\ item' = [item EXCEPT ![c] = Head(Contents)]
              /\ ret' = [ret EXCEPT ![c] = "ok"] /\ UNCHANGED <<policy, closed>>
              /\ Open' = Open \ {c}
  <2>1. Open' = Open \ {c}
    BY <1>11, SignalEnds DEF TakeHead, Proc
  <2> QED BY <1>11, <2>1, TakeIsHead DEF TakeHead
<1>12. ASSUME NEW c \in Consumer, Dequeue(c)
       PROVE  FIFO!Get(c) \/ FIFO!Drained(c) \/ UNCHANGED FIFO!vars
  <2>1. c \in Proc /\ pc[c] = "call"
    BY <1>12 DEF Dequeue, Proc
  <2>2. CASE size = 0 /\ ~closed /\ Wait(c)
    BY <1>7, <2>1, <2>2
  <2>3. CASE size = 0 /\ closed /\ ReturnOnly(c, Nil, "closed")
    BY <1>2, <1>4, <1>6, <2>1, <2>3 DEF FIFO!Drained, FIFO!Return, Open
  <2>4. CASE size # 0 /\ TakeHead(c)
    BY <1>4, <1>11, <2>1, <2>4 DEF FIFO!Get, FIFO!Return, Open
  <2> QED BY <1>12, <2>2, <2>3, <2>4 DEF Dequeue
<1>13. ASSUME NEW c \in Consumer, TryDequeue(c) PROVE FIFO!TryGet(c)
  <2>1. c \in Proc /\ pc[c] = "idle" /\ c \notin Open
    BY <1>13 DEF TryDequeue, Proc, Open
  <2>2. CASE size = 0 /\ ReturnOnly(c, Nil, "empty")
    BY <1>2, <1>6, <2>1, <2>2 DEF FIFO!TryGet, Open
  <2>3. CASE size # 0 /\ TakeHead(c)
    BY <1>11, <2>1, <2>3 DEF FIFO!TryGet, Open
  <2> QED BY <1>13, <2>2, <2>3 DEF TryDequeue
<1>14. CASE Close
  <2>1. Open' = Open
    BY <1>14 DEF Close, Open, TypeOK
  <2> QED BY <1>3, <1>14, <2>1 DEF Close, FIFO!Next, FIFO!Shut, Open
<1>15. CASE UNCHANGED vars
  BY <1>3, <1>15 DEF vars, FIFO!vars
<1> QED
  <2>1. ASSUME NEW p \in Producer, NEW x \in Task, Call(p, x) PROVE FIFO!Next
    BY <1>5, <2>1 DEF FIFO!Next, Proc
  <2>2. ASSUME NEW c \in Consumer, Call(c, Nil) PROVE FIFO!Next
    BY <1>5, <2>2 DEF FIFO!Next, Proc
  <2>3. ASSUME NEW p \in Producer, Enqueue(p) PROVE FIFO!Next \/ UNCHANGED FIFO!vars
    BY <1>8, <1>9, <1>10, <2>3 DEF FIFO!Next, Enqueue
  <2>4. ASSUME NEW c \in Consumer, Dequeue(c) \/ TryDequeue(c) PROVE FIFO!Next \/ UNCHANGED FIFO!vars
    BY <1>12, <1>13, <2>4 DEF FIFO!Next
  <2> QED BY <1>14, <1>15, <2>1, <2>2, <2>3, <2>4 DEF Next

\* The ring buffer implements the bounded FIFO: through any interleaving of
\* Enqueue, Dequeue, TryDequeue and Close, tasks leave in the order in which
\* they were accepted, each once, and every call returns what the FIFO justifies.
THEOREM RingBufferImplementsFIFO == Spec => ImplementsFIFO
BY InitRefines, NextRefines, AlwaysInv, PTL DEF Spec, ImplementsFIFO, FIFO!Spec
=================================================================================
