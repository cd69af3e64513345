------------------------------- MODULE Scheduler -------------------------------
(***************************************************************************)
(* internal/queue/scheduler.go: the goroutine that moves delayed tasks to  *)
(* the ring buffer, with its timer and its wake channel, the goroutines    *)
(* that push tasks (Submit, handleFailure with the backoff of              *)
(* internal/retry) and a bounded clock.  The delayed heap is the set that  *)
(* DelayedHeap implements; the ring buffer rejects when full.              *)
(***************************************************************************)
EXTENDS Integers, SequencesExt

CONSTANTS Task,
          Capacity,                 \* queue.capacity
          Delays,                   \* delays that clients ask for
          BaseDelay, Multiplier, MaxDelay, JitterPercent, MaxRetries,  \* the retry section
          PollInterval,             \* defaultPollInterval
          FullDelay,                \* the 100 ms of a task that found the buffer full
          MaxTime                   \* bound on the clock

ASSUME TaskAssumption == IsFiniteSet(Task)
ASSUME TimesAssumption == /\ Delays \subseteq Nat /\ MaxTime \in Nat
                          /\ PollInterval \in Nat \ {0} /\ FullDelay \in Nat \ {0}

VARIABLES now,
          stage,       \* "out": with Submit or a worker, "stamped": ScheduledAt is set,
                       \* "sched": heap or scheduler, "queued": ring buffer, "gone"
          due,         \* task.ScheduledAt
          tries,       \* how often ScheduledAt was set from outside
          heap,        \* the delayed heap
          notifiers,   \* goroutines between heap.Push and NotifyNewTask
          wake,        \* there is a token in Scheduler.wake
          pc,          \* where Run is: "promote", "place", "calc", "arm", "sleep", "exit"
          ready,       \* what PromoteReady returned, as far as it is not placed yet
          timer,       \* when the timer fires
          stop         \* "no", "cancel" (ctx is done), "closed" (and the buffer closed)

vars == <<now, stage, due, tries, heap, notifiers, wake, pc, ready, timer, stop>>

-----------------------------------------------------------------------------
(* retry.NextDelay *)

\* min(base * mult^attempt, max), plus or minus the jitter, in ticks
NextDelay(attempt) ==
    LET full   == BaseDelay * Multiplier ^ attempt
        capped == IF full > MaxDelay THEN MaxDelay ELSE full
        jitter == (capped * JitterPercent) \div 100
    IN  {IF d < 0 THEN BaseDelay ELSE d : d \in (capped - jitter) .. (capped + jitter)}

-----------------------------------------------------------------------------
\* rebuildQueues may have filled the heap before Run starts, without a signal.
Init == /\ now = 0 /\ notifiers = 0 /\ wake = FALSE
        /\ pc = "promote" /\ ready = <<>> /\ timer = 0 /\ stop = "no"
        /\ heap \in SUBSET Task
        /\ stage = [t \in Task |-> IF t \in heap THEN "sched" ELSE "out"]
        /\ \E d \in Delays : due = [t \in Task |-> IF t \in heap THEN d ELSE 0]
        /\ tries = [t \in Task |-> IF t \in heap THEN 1 ELSE 0]

Tick == /\ now < MaxTime /\ now' = now + 1
        /\ UNCHANGED <<stage, due, tries, heap, notifiers, wake, pc, ready, timer, stop>>

\* Submit with a delay, or handleFailure: ScheduledAt is set some time before the
\* push, with an append to the log in between.
Stamp(t) ==
    /\ stage[t] = "out" /\ tries[t] <= MaxRetries
    /\ \E d \in IF tries[t] = 0 THEN Delays ELSE NextDelay(tries[t] - 1) :
         due' = [due EXCEPT ![t] = now + d]
    /\ tries' = [tries EXCEPT ![t] = @ + 1]
    /\ stage' = [stage EXCEPT ![t] = "stamped"]
    /\ UNCHANGED <<now, heap, notifiers, wake, pc, ready, timer, stop>>

Push(t) ==
    /\ stage[t] = "stamped"
    /\ heap' = heap \cup {t}
    /\ stage' = [stage EXCEPT ![t] = "sched"]
    /\ notifiers' = notifiers + 1
    /\ UNCHANGED <<now, due, tries, wake, pc, ready, timer, stop>>

\* (mutant) the channel has no buffer: only a scheduler in its select gets the signal
NotifyAsleep ==
    /\ notifiers > 0
    /\ notifiers' = notifiers - 1
    /\ wake' = (wake \/ pc = "sleep")
    /\ UNCHANGED <<now, stage, due, tries, heap, pc, ready, timer, stop>>

\* NotifyNewTask: a full channel already has the signal.
Notify ==
    /\ notifiers > 0
    /\ notifiers' = notifiers - 1
    /\ wake' = TRUE
    /\ UNCHANGED <<now, stage, due, tries, heap, pc, ready, timer, stop>>

\* DelayedHeap.Remove, when CancelTask finds the task in the heap
RemoveTask(t) ==
    /\ t \in heap
    /\ heap' = heap \ {t}
    /\ stage' = [stage EXCEPT ![t] = "gone"]
    /\ UNCHANGED <<now, due, tries, notifiers, wake, pc, ready, timer, stop>>

\* A worker takes a task, and either has done with it or will retry it.
Take(t) ==
    /\ stage[t] = "queued"
    /\ stage' \in {[stage EXCEPT ![t] = "out"], [stage EXCEPT ![t] = "gone"]}
    /\ UNCHANGED <<now, due, tries, heap, notifiers, wake, pc, ready, timer, stop>>

\* Engine.Shutdown
Shutdown ==
    /\ stop # "closed"
    /\ stop' = IF stop = "no" THEN "cancel" ELSE "closed"
    /\ UNCHANGED <<now, stage, due, tries, heap, notifiers, wake, pc, ready, timer>>

-----------------------------------------------------------------------------
(* Run *)

\* what PromoteReady takes from the heap, earliest deadline first
Due == {t \in heap : due[t] <= now}
ByDeadline(s) == \A i, j \in DOMAIN s : i < j => due[s[i]] <= due[s[j]]

Promote ==
    /\ pc = "promote" /\ pc' = "place"
    /\ ready' \in {s \in SetToSeqs(Due) : ByDeadline(s)}
    /\ heap' = heap \ Due
    /\ UNCHANGED <<now, stage, due, tries, notifiers, wake, timer, stop>>

Full == Cardinality({t \in Task : stage[t] = "queued"}) >= Capacity

\* The loop over ready: the task at its head is cancelled or expired, or it is
\* placed in the buffer, or the buffer is closed and Run returns.
Place ==
    /\ pc = "place" /\ ready # <<>>
    /\ \/ /\ ready' = Tail(ready)
          /\ \/ stage' = [stage EXCEPT ![Head(ready)] = "gone"]
             \/ stop # "closed" /\ ~Full /\ stage' = [stage EXCEPT ![Head(ready)] = "queued"]
          /\ UNCHANGED pc
       \/ /\ stop = "closed"
          /\ ready' = <<>> /\ pc' = "exit"
          /\ stage' = [t \in Task |-> IF t \in Range(ready) THEN "gone" ELSE stage[t]]
    /\ UNCHANGED <<now, due, tries, heap, notifiers, wake, timer, stop>>

\* A full buffer: the task goes back to the heap with a small delay.
PlaceBack ==
    /\ pc = "place" /\ ready # <<>> /\ stop # "closed" /\ Full
    /\ due' = [due EXCEPT ![Head(ready)] = now + FullDelay]
    /\ heap' = heap \cup {Head(ready)}
    /\ ready' = Tail(ready)
    /\ UNCHANGED <<now, stage, tries, notifiers, wake, pc, timer, stop>>

Placed == /\ pc = "place" /\ ready = <<>> /\ pc' = "calc"
          /\ UNCHANGED <<now, stage, due, tries, heap, notifiers, wake, ready, timer, stop>>

\* (mutant) the timer is always set to the poll interval
NextDeadlinePoll ==
    /\ pc = "calc" /\ pc' = "arm" /\ timer' = now + PollInterval
    /\ UNCHANGED <<now, stage, due, tries, heap, notifiers, wake, ready, stop>>

\* NextDeadline and NewTimer: loop at once when the earliest task is due, else set
\* the timer for it, or for the poll interval when the heap is empty.
NextDeadline ==
    /\ pc = "calc"
    /\ \/ heap = {} /\ pc' = "arm" /\ timer' = now + PollInterval
       \/ Due # {} /\ pc' = "promote" /\ UNCHANGED timer
       \/ \E first \in heap : /\ \A t \in heap : due[first] <= due[t]
                             /\ due[first] > now
                             /\ pc' = "arm" /\ timer' = due[first]
    /\ UNCHANGED <<now, stage, due, tries, heap, notifiers, wake, ready, stop>>

\* Run comes to the select; tasks may have been pushed since NextDeadline.
Sleep ==
    /\ pc = "arm" /\ pc' = "sleep"
    /\ UNCHANGED <<now, stage, due, tries, heap, notifiers, wake, ready, timer, stop>>

\* (mutant) no case for ctx.Done()
AwakeNoCtx ==
    /\ pc = "sleep" /\ pc' = "promote"
    /\ \/ wake /\ wake' = FALSE
       \/ timer <= now /\ UNCHANGED wake
    /\ timer' = 0
    /\ UNCHANGED <<now, stage, due, tries, heap, notifiers, ready, stop>>

\* the select
Awake ==
    /\ pc = "sleep"
    /\ \/ stop # "no" /\ pc' = "exit" /\ UNCHANGED wake
       \/ wake /\ wake' = FALSE /\ pc' = "promote"
       \/ timer <= now /\ pc' = "promote" /\ UNCHANGED wake
    /\ timer' = 0
    /\ UNCHANGED <<now, stage, due, tries, heap, notifiers, ready, stop>>

-----------------------------------------------------------------------------
SchedStep == Promote \/ Place \/ PlaceBack \/ Placed \/ NextDeadline \/ Sleep \/ Awake

Next == \/ Tick \/ Notify \/ Shutdown \/ SchedStep
        \/ \E t \in Task : Stamp(t) \/ Push(t) \/ RemoveTask(t) \/ Take(t)

Spec == Init /\ [][Next]_vars

\* Goroutines run and timers fire; nothing makes clients, workers or the clock move.
FairSpec == Spec /\ WF_vars(Notify) /\ WF_vars(SchedStep)

-----------------------------------------------------------------------------
\* The scheduler never sleeps past a deadline: if a task in the heap is due before
\* the timer fires, there is a signal in the channel, or a goroutine that has
\* pushed a task and is about to send one.
NoOversleep == pc \in {"arm", "sleep"} => \/ wake \/ notifiers > 0
                                           \/ \A t \in heap : timer <= due[t]

\* A delayed task that is due leaves the heap, unless the engine stops, and however
\* long the buffer stays full.
DueIsPromoted == \A t \in Task : (t \in heap /\ due[t] <= now) ~> (t \notin heap \/ due[t] > now \/ stop # "no")

\* When the engine stops, Run returns: whatever wakes it, it finds the context done.
StopEnds == stop # "no" ~> pc = "exit"
=================================================================================
