------------------------------- MODULE RingBuffer -------------------------------
(***************************************************************************)
(* internal/queue.RingBuffer: a fixed array with head, tail and size,      *)
(* guarded by one mutex and ONE condition variable on which blocked        *)
(* consumers and blocked producers wait together.                          *)
(*                                                                         *)
(* Everything between taking the mutex and either waiting or returning is  *)
(* one step.  A goroutine that Wait() releases goes back to the head of    *)
(* its loop, so it is again in the state "call".  sync.Cond wakes waiters  *)
(* in the order in which they began to wait, hence the sequence waitq; a   *)
(* woken goroutine still competes for the mutex with everybody else.       *)
(***************************************************************************)
EXTENDS Integers, Sequences, FiniteSets, Functions

CONSTANTS Task,      \* what is queued
          Producer,  \* goroutines that enqueue: API handlers and the scheduler
          Consumer,  \* goroutines that dequeue: the workers
          Cap,       \* capacity of the buffer
          Nil        \* Go's nil

Proc == Producer \cup Consumer

ASSUME CapAssumption == Cap \in Nat \ {0}
ASSUME ProcAssumption == Producer \cap Consumer = {} /\ IsFiniteSet(Proc)
ASSUME NilAssumption == Nil \notin Task

VARIABLES policy,   \* OverflowPolicy: "reject" or "block", fixed when the buffer is made
          buf,      \* the array, indexed from 0
          head,     \* index of the next element to dequeue
          tail,     \* index of the next empty slot
          size,     \* number of elements
          closed,   \* Close has been called
          waitq,    \* goroutines in cond.Wait(), longest-waiting first
          pc,       \* "idle": outside; "call": inside, about to take the mutex; "wait"
          item,     \* Enqueue's argument, Dequeue's result
          ret       \* what the last call returned

vars == <<policy, buf, head, tail, size, closed, waitq, pc, item, ret>>

Slot == 0 .. Cap - 1

\* NewRingBuffer
Init == /\ policy \in {"reject", "block"}
        /\ buf = [i \in Slot |-> Nil]
        /\ head = 0
        /\ tail = 0
        /\ size = 0
        /\ closed = FALSE
        /\ waitq = <<>>
        /\ pc = [p \in Proc |-> "idle"]
        /\ item = [p \in Proc |-> Nil]
        /\ ret = [p \in Proc |-> "none"]

-----------------------------------------------------------------------------
(* The condition variable, and the two ways out of a call. *)

\* (mutant) the Signal is forgotten
ReturnSilently(p) == /\ waitq' = waitq
                     /\ pc' = [pc EXCEPT ![p] = "idle"]

\* cond.Signal() and return: the longest waiter, if any, is released.
SignalAndReturn(p) ==
    IF waitq = <<>>
    THEN /\ waitq' = waitq
         /\ pc' = [pc EXCEPT ![p] = "idle"]
    ELSE /\ waitq' = Tail(waitq)
         /\ pc' = [pc EXCEPT ![p] = "idle", ![Head(waitq)] = "call"]

\* cond.Wait()
Wait(p) == /\ waitq' = Append(waitq, p)
           /\ pc' = [pc EXCEPT ![p] = "wait"]
           /\ UNCHANGED <<policy, buf, head, tail, size, closed, item, ret>>

\* return without touching the buffer
ReturnOnly(p, x, r) == /\ pc' = [pc EXCEPT ![p] = "idle"]
                       /\ item' = [item EXCEPT ![p] = x]
                       /\ ret' = [ret EXCEPT ![p] = r]
                       /\ UNCHANGED <<policy, buf, head, tail, size, closed, waitq>>

-----------------------------------------------------------------------------
(* Enqueue *)

\* (mutant) rb.size > rb.cap
FullOffByOne == size > Cap

Full == size = Cap

Call(p, x) == /\ pc[p] = "idle"
              /\ pc' = [pc EXCEPT ![p] = "call"]
              /\ item' = [item EXCEPT ![p] = x]
              /\ ret' = [ret EXCEPT ![p] = "none"]
              /\ UNCHANGED <<policy, buf, head, tail, size, closed, waitq>>

EnqueueFull(p) == /\ pc[p] = "call"
                  /\ Full /\ ~closed
                  /\ \/ policy = "reject" /\ ReturnOnly(p, item[p], "full")
                     \/ policy = "block" /\ Wait(p)

EnqueueClosed(p) == /\ pc[p] = "call"
                    /\ closed
                    /\ ReturnOnly(p, item[p], "closed")

EnqueueStore(p) == /\ pc[p] = "call"
                   /\ ~Full /\ ~closed
                   /\ buf' = [buf EXCEPT ![tail] = item[p]]
                   /\ tail' = (tail + 1) % Cap
                   /\ size' = size + 1
                   /\ SignalAndReturn(p)
                   /\ ret' = [ret EXCEPT ![p] = "ok"]
                   /\ UNCHANGED <<policy, head, closed, item>>

Enqueue(p) == EnqueueFull(p) \/ EnqueueClosed(p) \/ EnqueueStore(p)

-----------------------------------------------------------------------------
(* Dequeue, TryDequeue, Close *)

\* (mutant) the slot is not cleared
TakeHeadKeepsSlot(c) == /\ item' = [item EXCEPT ![c] = buf[head]]
                        /\ head' = (head + 1) % Cap
                        /\ size' = size - 1
                        /\ SignalAndReturn(c)
                        /\ ret' = [ret EXCEPT ![c] = "ok"]
                        /\ UNCHANGED <<policy, buf, tail, closed>>

\* the element at head is taken out and its slot cleared
TakeHead(c) == /\ item' = [item EXCEPT ![c] = buf[head]]
               /\ buf' = [buf EXCEPT ![head] = Nil]
               /\ head' = (head + 1) % Cap
               /\ size' = size - 1
               /\ SignalAndReturn(c)
               /\ ret' = [ret EXCEPT ![c] = "ok"]
               /\ UNCHANGED <<policy, tail, closed>>

\* (mutant) closed is looked at before size
DequeueClosedFirst(c) == /\ pc[c] = "call"
                         /\ \/ closed /\ ReturnOnly(c, Nil, "closed")
                            \/ size = 0 /\ ~closed /\ Wait(c)
                            \/ size # 0 /\ ~closed /\ TakeHead(c)

Dequeue(c) == /\ pc[c] = "call"
              /\ \/ size = 0 /\ ~closed /\ Wait(c)
                 \/ size = 0 /\ closed /\ ReturnOnly(c, Nil, "closed")
                 \/ size # 0 /\ TakeHead(c)

TryDequeue(c) == /\ pc[c] = "idle"
                 /\ \/ size = 0 /\ ReturnOnly(c, Nil, "empty")
                    \/ size # 0 /\ TakeHead(c)

\* (mutant) Signal instead of Broadcast
CloseSignals == /\ closed' = TRUE
                /\ IF waitq = <<>>
                   THEN UNCHANGED <<waitq, pc>>
                   ELSE waitq' = Tail(waitq) /\ pc' = [pc EXCEPT ![Head(waitq)] = "call"]
                /\ UNCHANGED <<policy, buf, head, tail, size, item, ret>>

\* cond.Broadcast() releases every waiter
Close == /\ closed' = TRUE
         /\ waitq' = <<>>
         /\ pc' = [p \in Proc |-> IF pc[p] = "wait" THEN "call" ELSE pc[p]]
         /\ UNCHANGED <<policy, buf, head, tail, size, item, ret>>

Next == \/ \E p \in Producer : (\E x \in Task : Call(p, x)) \/ Enqueue(p)
        \/ \E c \in Consumer : Call(c, Nil) \/ Dequeue(c) \/ TryDequeue(c)
        \/ Close

Spec == Init /\ [][Next]_vars

\* A goroutine that can run eventually runs, and a worker that has finished
\* with a task comes back for the next one (worker.go, the loop of worker);
\* nobody has to produce anything, call TryDequeue or close the buffer.
Fairness == /\ \A p \in Producer : WF_vars(Enqueue(p))
            /\ \A c \in Consumer : WF_vars(Dequeue(c)) /\ WF_vars(Call(c, Nil))

FairSpec == Spec /\ Fairness

-----------------------------------------------------------------------------
(* Properties *)

TypeOK == /\ policy \in {"reject", "block"}
          /\ buf \in [Slot -> Task \cup {Nil}]
          /\ head \in Slot
          /\ tail \in Slot
          /\ size \in 0 .. Cap
          /\ closed \in BOOLEAN
          /\ waitq \in Seq(Proc)
          /\ pc \in [Proc -> {"idle", "call", "wait"}]
          /\ item \in [Proc -> Task \cup {Nil}]
          /\ ret \in [Proc -> {"none", "ok", "full", "closed", "empty"}]

\* the i-th slot counted from head
At(i) == (head + i) % Cap

\* The slots in use are the size slots that follow head, tail comes right after
\* them, and every other slot has been set back to nil: Enqueue and Dequeue
\* agree on which slots are live however often the indices have wrapped.
LiveWindow == /\ tail = At(size)
              /\ \A i \in Slot : buf[At(i)] # Nil <=> i < size

\* Close releases everyone for good: nobody waits on a closed buffer, neither a
\* goroutine that was waiting when Close broadcast nor one that comes later.
CloseReleasesAll == closed => \A p \in Proc : pc[p] # "wait"

\* No wakeup is lost under the reject policy, where only consumers wait: while a
\* worker sleeps in Dequeue there are at least as many awake workers on their way
\* to the mutex as there are queued tasks, so no task sits in the buffer for want
\* of a Signal.
AwakeConsumers == {c \in Consumer : pc[c] = "call"}
NoLostWakeup == (policy = "reject" /\ waitq # <<>>) => size <= Cardinality(AwakeConsumers)

\* As long as the workers keep coming back, the task at the front of the buffer
\* is always taken out eventually.  (Only under the reject policy: a producer that
\* Enqueue blocks may swallow the Signal meant for a worker.)
HeadTaken == \A i \in Slot : (policy = "reject" /\ size > 0 /\ head = i) ~> (head # i)

\* The array and its indices implement the bounded FIFO of BoundedFIFO: every
\* Enqueue, Dequeue and Close takes effect at one step, in FIFO order, and
\* returns what that step justifies.
Contents == [i \in 1 .. size |-> buf[At(i - 1)]]
FIFO == INSTANCE BoundedFIFO WITH queue <- Contents,
                                  open <- {p \in Proc : pc[p] # "idle"}
ImplementsFIFO == FIFO!Spec
=================================================================================
