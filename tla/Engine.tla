--------------------------------- MODULE Engine ---------------------------------
(***************************************************************************)
(* internal/engine with the worker pool, the delayed-task scheduler and    *)
(* the periodic checkpoint it starts, the write-ahead log and snapshot it  *)
(* recovers from, and the shutdown sequence of cmd/server.                 *)
(*                                                                         *)
(* A task is one submission (generateID never repeats an ID), so the API   *)
(* handler that runs Submit, and the one that runs CancelTask, are named   *)
(* by the task they are about.  A step is a critical section or a call     *)
(* whose effect other goroutines can see.  Time is abstract: any delayed   *)
(* task may be due, any deadline may have passed.  The ring buffer is the  *)
(* FIFO that RingBuffer implements.                                        *)
(*                                                                         *)
(* The log is opened with sync_policy "every", so Append is durable when   *)
(* it returns; a crash is a SIGKILL and loses memory, not files.           *)
(***************************************************************************)
EXTENDS Integers, Sequences, FiniteSets, Functions

CONSTANTS Task,            \* the tasks that clients submit
          Key,             \* idempotency keys
          None,            \* Go's nil, or the empty key
          KeyOf,           \* KeyOf[t]: the idempotency key t is submitted with
          Delayed,         \* tasks submitted with a delay
          Expiring,        \* tasks submitted with an expiry
          Cancellable,     \* tasks a client may cancel
          Worker,          \* worker goroutines
          Capacity,        \* queue.capacity
          Policy,          \* queue.overflow_policy, "reject" or "block"
          MaxRetries,      \* retry.max_retries
          Outcomes,        \* what the handler may return: "ok", "err", "fatal"
          Checkpointing,   \* checkpoint.interval > 0
          IOFaults,        \* a checkpoint's file operations may fail
          TimeoutsExpire,  \* the shutdown timeouts may run out
          MaxCrashes,      \* bound on the number of crashes
          MaxStops,        \* bound on the number of shutdown requests
          MaxEnds          \* bound on crashes and shutdown requests together

ASSUME KeyAssumption == KeyOf \in [Task -> Key \cup {None}]
ASSUME NoneAssumption == None \notin Task /\ None \notin Key
ASSUME SetsAssumption == Delayed \subseteq Task /\ Expiring \subseteq Task /\ Cancellable \subseteq Task
ASSUME OutcomesAssumption == Outcomes \subseteq {"ok", "err", "fatal"}
ASSUME NumbersAssumption == Capacity \in Nat \ {0} /\ MaxRetries \in Nat
                            /\ MaxCrashes \in Nat /\ MaxStops \in Nat /\ MaxEnds \in Nat
ASSUME FlagsAssumption == Checkpointing \in BOOLEAN /\ IOFaults \in BOOLEAN /\ TimeoutsExpire \in BOOLEAN

VARIABLES
    \* the disk
    wal,          \* the records of wal.bin
    walOld,       \* the records of wal.old, which nothing reads
    snap,         \* snapshot.json
    \* the open log
    walSeq,       \* WAL.seq
    walClosed,    \* WAL.closed
    \* the registry
    state,        \* task.State, or "absent" for a task that is not in e.tasks
    retries,      \* task.RetryCount
    expires,      \* the tasks with a non-zero ExpiresAt
    idemp,        \* e.idempKeys
    dlq,          \* e.dlq
    \* the queues
    buffer,       \* the ring buffer's contents, oldest first
    heap,         \* the delayed heap's contents
    everPushed,   \* tasks whose heapIndex is no longer Go's zero value
    \* API handlers
    spc,          \* where the Submit of each task is
    sdata,        \* the State marshalled into the Enqueue record
    cpc,          \* where the CancelTask of each task is
    \* workers
    wpc, wtask,   \* where each worker is, and with which task
    wres,         \* the outcome it has to settle, then the record it has to log
    runs,         \* how often the handler has been called with each task
    \* scheduler
    sched,        \* "run" or "exit"
    ready,        \* promoted tasks still to be looked at
    cur,          \* the promoted task about to be enqueued
    \* checkpoint goroutine
    kpc, kcopy,   \* where it is, and the snapshot it is building
    ktodo,        \* the tasks it still has to copy
    \* the process
    phase,        \* where main is
    rpos, rtodo,  \* recovery: next record to replay, tasks still to be queued
    crashes, stops

disk      == <<wal, walOld, snap>>
log       == <<walSeq, walClosed>>
registry  == <<state, retries, expires, idemp, dlq>>
queues    == <<buffer, heap, everPushed>>
clients   == <<spc, sdata, cpc>>
workers   == <<wpc, wtask, wres, runs>>
scheduler == <<sched, ready, cur>>
ckpt      == <<kpc, kcopy, ktodo>>
process   == <<phase, rpos, rtodo, crashes, stops>>
vars == <<disk, log, registry, queues, clients, workers, scheduler, ckpt, process>>

TaskState == {"Pending", "Scheduled", "Running", "Completed", "Failed", "Dead",
              "Cancelled", "Expired"}

Registered == {t \in Task : state[t] # "absent"}

InFlight == {"marshal", "append", "rollback", "route", "push", "enq"}

\* e.mu: CancelTask holds it between looking at the state and overwriting it,
\* checkpoint holds it for reading while it copies; the other critical
\* sections are single steps.
NoWriter == \A t \in Task : cpc[t] # "set"
MuFree   == NoWriter /\ kpc # "copy"

\* (mutant) the sequence number is assigned before it is incremented
LogPostIncrement(type, t, st, rc) ==
    IF walClosed
    THEN UNCHANGED <<wal, walSeq>>
    ELSE /\ walSeq' = walSeq + 1
         /\ wal' = Append(wal, [seq |-> walSeq, type |-> type, task |-> t, st |-> st, rc |-> rc])

\* WAL.Append with sync_policy "every": ErrClosed, or the record is in the file.
Log(type, t, st, rc) ==
    IF walClosed
    THEN UNCHANGED <<wal, walSeq>>
    ELSE /\ walSeq' = walSeq + 1
         /\ wal' = Append(wal, [seq |-> walSeq + 1, type |-> type, task |-> t, st |-> st, rc |-> rc])

\* (mutant) Shutdown does not close the buffer
BufStaysOpen == FALSE
\* (mutant) rb.size > rb.cap
HasRoomOffByOne == Len(buffer) <= Capacity

\* RingBuffer.Enqueue, seen from its caller; neither of the last two holds
\* while it blocks.
BufClosed  == phase \in {"stop", "final"}
CtxDone    == phase \in {"cancel", "stop", "final"}
HasRoom    == Len(buffer) < Capacity
CanEnqueue == ~BufClosed /\ HasRoom
EnqueueErr == BufClosed \/ (Policy = "reject" /\ ~HasRoom)

\* A request taken before the signal may run until the HTTP server has drained,
\* and after it when the drain times out.
Serving == phase \in {"up", "drain"} \/ (TimeoutsExpire /\ phase \in {"cancel", "stop", "final"})

NoSnapshot == [seq |-> 0, st |-> [t \in Task |-> "absent"], rc |-> [t \in Task |-> 0]]

\* A machine with an empty WAL directory and no process.
Init == /\ wal = <<>> /\ walOld = <<>> /\ snap = NoSnapshot
        /\ walSeq = 0 /\ walClosed = TRUE
        /\ state = [t \in Task |-> "absent"] /\ retries = [t \in Task |-> 0]
        /\ expires = {} /\ idemp = [k \in Key |-> None] /\ dlq = <<>>
        /\ buffer = <<>> /\ heap = {} /\ everPushed = {}
        /\ spc = [t \in Task |-> "new"] /\ sdata = [t \in Task |-> "absent"]
        /\ cpc = [t \in Task |-> "idle"]
        /\ wpc = [w \in Worker |-> "exit"] /\ wtask = [w \in Worker |-> None]
        /\ wres = [w \in Worker |-> "none"] /\ runs = [t \in Task |-> 0]
        /\ sched = "exit" /\ ready = {} /\ cur = None
        /\ kpc = "exit" /\ kcopy = NoSnapshot /\ ktodo = {}
        /\ phase = "down" /\ rpos = 1 /\ rtodo = {}
        /\ crashes = 0 /\ stops = 0

-----------------------------------------------------------------------------
(* Submit *)

\* (mutant) a key is free again when its task has finished
KeyTakenWhileLive(t) ==
    IF KeyOf[t] = None \/ idemp[KeyOf[t]] = None THEN FALSE
    ELSE state[idemp[KeyOf[t]]] \notin {"Completed", "Dead"}

KeyTaken(t) == IF KeyOf[t] = None THEN FALSE ELSE idemp[KeyOf[t]] # None

\* The critical section: refuse a key that is taken, else register the task.
SubmitRegister(t) ==
    /\ Serving /\ spc[t] = "new" /\ MuFree
    /\ \/ /\ KeyTaken(t)
          /\ spc' = [spc EXCEPT ![t] = "duplicate"]
          /\ UNCHANGED <<state, expires, idemp>>
       \/ /\ ~KeyTaken(t)
          /\ spc' = [spc EXCEPT ![t] = "marshal"]
          /\ state' = [state EXCEPT ![t] = IF t \in Delayed THEN "Scheduled" ELSE "Pending"]
          /\ expires' = IF t \in Expiring THEN expires \cup {t} ELSE expires
          /\ idemp' = IF KeyOf[t] = None THEN idemp ELSE [idemp EXCEPT ![KeyOf[t]] = t]
    /\ UNCHANGED <<disk, log, retries, dlq, queues, sdata, cpc, workers, scheduler, ckpt, process>>

\* json.Marshal, outside the lock: the state may have changed already.
SubmitMarshal(t) ==
    /\ spc[t] = "marshal"
    /\ sdata' = [sdata EXCEPT ![t] = state[t]]
    /\ spc' = [spc EXCEPT ![t] = "append"]
    /\ UNCHANGED <<disk, log, registry, queues, cpc, workers, scheduler, ckpt, process>>

SubmitAppend(t) ==
    /\ spc[t] = "append"
    /\ Log("enqueue", t, sdata[t], 0)
    /\ spc' = [spc EXCEPT ![t] = IF walClosed THEN "rollback" ELSE "route"]
    /\ sdata' = [sdata EXCEPT ![t] = "absent"]
    /\ UNCHANGED <<walOld, snap, walClosed, registry, queues, cpc, workers, scheduler, ckpt, process>>

\* The append failed: the registration is taken back.
SubmitRollback(t) ==
    /\ spc[t] = "rollback" /\ MuFree
    /\ state' = [state EXCEPT ![t] = "absent"]
    /\ expires' = expires \ {t}
    /\ idemp' = IF KeyOf[t] = None THEN idemp ELSE [idemp EXCEPT ![KeyOf[t]] = None]
    /\ spc' = [spc EXCEPT ![t] = "failed"]
    /\ UNCHANGED <<disk, log, retries, dlq, queues, sdata, cpc, workers, scheduler, ckpt, process>>

\* if task.State == Scheduled, again without the lock
SubmitRoute(t) ==
    /\ spc[t] = "route"
    /\ spc' = [spc EXCEPT ![t] = IF state[t] = "Scheduled" THEN "push" ELSE "enq"]
    /\ UNCHANGED <<disk, log, registry, queues, sdata, cpc, workers, scheduler, ckpt, process>>

\* Placing the task is the last thing that can fail; Submit then returns the
\* task and the handler answers 201.
SubmitPush(t) ==
    /\ spc[t] = "push"
    /\ heap' = heap \cup {t}
    /\ everPushed' = everPushed \cup {t}
    /\ spc' = [spc EXCEPT ![t] = "acked"]
    /\ UNCHANGED <<disk, log, registry, buffer, sdata, cpc, workers, scheduler, ckpt, process>>

\* An Enqueue error is returned to the client, but the task stays registered.
SubmitEnqueue(t) ==
    /\ spc[t] = "enq"
    /\ \/ /\ CanEnqueue
          /\ buffer' = Append(buffer, t)
          /\ spc' = [spc EXCEPT ![t] = "acked"]
       \/ /\ EnqueueErr
          /\ spc' = [spc EXCEPT ![t] = "failed"]
          /\ UNCHANGED buffer
    /\ UNCHANGED <<disk, log, registry, heap, everPushed, sdata, cpc, workers, scheduler, ckpt, process>>

SubmitStep(t) == SubmitMarshal(t) \/ SubmitAppend(t) \/ SubmitRollback(t)
                 \/ SubmitRoute(t) \/ SubmitPush(t) \/ SubmitEnqueue(t)

-----------------------------------------------------------------------------
(* CancelTask.  A task is cancelled at most once in the life of a process. *)

\* Under e.mu, but workers and the scheduler change task.State without e.mu.
CancelCheck(t) ==
    /\ Serving /\ t \in Cancellable /\ cpc[t] = "idle" /\ MuFree
    /\ state[t] \in {"Pending", "Scheduled"}
    /\ cpc' = [cpc EXCEPT ![t] = "set"]
    /\ UNCHANGED <<disk, log, registry, queues, spc, sdata, workers, scheduler, ckpt, process>>

CancelSet(t) ==
    /\ cpc[t] = "set"
    /\ state' = [state EXCEPT ![t] = "Cancelled"]
    /\ cpc' = [cpc EXCEPT ![t] = "log"]
    /\ UNCHANGED <<disk, log, retries, expires, idemp, dlq, queues, spc, sdata, workers, scheduler, ckpt, process>>

CancelLog(t) ==
    /\ cpc[t] = "log"
    /\ Log("cancel", t, "none", 0)
    /\ cpc' = [cpc EXCEPT ![t] = IF walClosed THEN "done" ELSE "remove"]
    /\ UNCHANGED <<walOld, snap, walClosed, registry, queues, spc, sdata, workers, scheduler, ckpt, process>>

\* heap.Remove(task) goes by heapIndex: right for a task in the heap, -1 for one
\* that has left it, and 0 (the root, whichever task that is) for a task that
\* has never been in it.
CancelRemove(t) ==
    /\ cpc[t] = "remove"
    /\ cpc' = [cpc EXCEPT ![t] = "done"]
    /\ \/ t \in everPushed /\ heap' = heap \ {t}
       \/ t \notin everPushed /\ heap = {} /\ UNCHANGED heap
       \/ t \notin everPushed /\ \E root \in heap : heap' = heap \ {root}
    /\ UNCHANGED <<disk, log, registry, buffer, everPushed, spc, sdata, workers, scheduler, ckpt, process>>

CancelStep(t) == CancelSet(t) \/ CancelLog(t) \/ CancelRemove(t)

-----------------------------------------------------------------------------
(* Workers *)

WorkerLoop(w) ==
    /\ wpc[w] = "loop"
    /\ wpc' = [wpc EXCEPT ![w] = IF CtxDone THEN "exit" ELSE "deq"]
    /\ UNCHANGED <<disk, log, registry, queues, clients, wtask, wres, runs, scheduler, ckpt, process>>

WorkerDequeue(w) ==
    /\ wpc[w] = "deq"
    /\ \/ /\ buffer # <<>>
          /\ buffer' = Tail(buffer)
          /\ wtask' = [wtask EXCEPT ![w] = Head(buffer)]
          /\ wpc' = [wpc EXCEPT ![w] = "got"]
       \/ /\ buffer = <<>> /\ BufClosed
          /\ wpc' = [wpc EXCEPT ![w] = "exit"]
          /\ UNCHANGED <<buffer, wtask>>
    /\ UNCHANGED <<disk, log, registry, heap, everPushed, clients, wres, runs, scheduler, ckpt, process>>

\* The pool's ForceSetState(Running), without e.mu and whatever the state was.
WorkerMark(w) ==
    /\ wpc[w] = "got"
    /\ state' = [state EXCEPT ![wtask[w]] = "Running"]
    /\ wpc' = [wpc EXCEPT ![w] = "start"]
    /\ UNCHANGED <<disk, log, retries, expires, idemp, dlq, queues, clients, wtask, wres, runs, scheduler, ckpt, process>>

\* wrapHandler's critical section
WorkerStart(w) ==
    /\ wpc[w] = "start" /\ MuFree
    /\ state' = [state EXCEPT ![wtask[w]] = "Running"]
    /\ wpc' = [wpc EXCEPT ![w] = "logstart"]
    /\ UNCHANGED <<disk, log, retries, expires, idemp, dlq, queues, clients, wtask, wres, runs, scheduler, ckpt, process>>

\* A failed append is only logged; the handler is called all the same.
WorkerLogStart(w) ==
    /\ wpc[w] = "logstart"
    /\ Log("start", wtask[w], "none", 0)
    /\ wpc' = [wpc EXCEPT ![w] = "exec"]
    /\ runs' = [runs EXCEPT ![wtask[w]] = @ + 1]
    /\ UNCHANGED <<walOld, snap, walClosed, registry, queues, clients, wtask, wres, scheduler, ckpt, process>>

\* The handler returns; a panic or a timeout is an error like any other.
WorkerExec(w) ==
    /\ wpc[w] = "exec"
    /\ \E r \in Outcomes : wres' = [wres EXCEPT ![w] = r]
    /\ wpc' = [wpc EXCEPT ![w] = "settle"]
    /\ UNCHANGED <<disk, log, registry, queues, clients, wtask, runs, scheduler, ckpt, process>>

\* (mutant) RetryCount is compared before it is incremented
ExhaustedLate(w) == wres[w] = "fatal" \/ retries[wtask[w]] > MaxRetries

\* The critical section of handleSuccess or handleFailure.
Exhausted(w) == wres[w] = "fatal" \/ retries[wtask[w]] + 1 > MaxRetries

WorkerSettle(w) ==
    /\ wpc[w] = "settle" /\ MuFree
    /\ \/ /\ wres[w] = "ok"
          /\ state' = [state EXCEPT ![wtask[w]] = "Completed"]
          /\ wres' = [wres EXCEPT ![w] = "complete"]
          /\ UNCHANGED retries
       \/ /\ wres[w] # "ok"
          /\ retries' = [retries EXCEPT ![wtask[w]] = @ + 1]
          /\ state' = [state EXCEPT ![wtask[w]] = IF Exhausted(w) THEN "Dead" ELSE "Scheduled"]
          /\ wres' = [wres EXCEPT ![w] = IF Exhausted(w) THEN "dead" ELSE "retry"]
    /\ wpc' = [wpc EXCEPT ![w] = "log"]
    /\ UNCHANGED <<disk, log, expires, idemp, dlq, queues, clients, wtask, runs, scheduler, ckpt, process>>

\* (mutant) the retry is logged but not pushed to the heap
WorkerLogOnly(w) ==
    /\ wpc[w] = "log"
    /\ Log(wres[w], wtask[w], "none", IF wres[w] = "retry" THEN retries[wtask[w]] ELSE 0)
    /\ dlq' = IF wres[w] = "dead" THEN Append(dlq, wtask[w]) ELSE dlq
    /\ wpc' = [wpc EXCEPT ![w] = "post"]
    /\ UNCHANGED <<walOld, snap, walClosed, state, retries, expires, idemp, queues, clients, wtask, wres, runs, scheduler, ckpt, process>>

\* The record of the outcome and, for a dead task, its entry in the DLQ.
WorkerLog(w) ==
    /\ wpc[w] = "log"
    /\ Log(wres[w], wtask[w], "none", IF wres[w] = "retry" THEN retries[wtask[w]] ELSE 0)
    /\ dlq' = IF wres[w] = "dead" THEN Append(dlq, wtask[w]) ELSE dlq
    /\ wpc' = [wpc EXCEPT ![w] = IF wres[w] = "retry" THEN "push" ELSE "post"]
    /\ UNCHANGED <<walOld, snap, walClosed, state, retries, expires, idemp, queues, clients, wtask, wres, runs, scheduler, ckpt, process>>

WorkerPush(w) ==
    /\ wpc[w] = "push"
    /\ heap' = heap \cup {wtask[w]}
    /\ everPushed' = everPushed \cup {wtask[w]}
    /\ wpc' = [wpc EXCEPT ![w] = "post"]
    /\ UNCHANGED <<disk, log, registry, buffer, clients, wtask, wres, runs, scheduler, ckpt, process>>

\* the end of the worker's loop body: task and execErr go out of scope
WorkerDone(w) == /\ wpc' = [wpc EXCEPT ![w] = "loop"]
                 /\ wtask' = [wtask EXCEPT ![w] = None]
                 /\ wres' = [wres EXCEPT ![w] = "none"]

\* Back in the pool: if the task is still Running ...
WorkerPost(w) ==
    /\ wpc[w] = "post"
    /\ \/ /\ state[wtask[w]] = "Running"
          /\ wpc' = [wpc EXCEPT ![w] = "force"]
          /\ UNCHANGED <<wtask, wres>>
       \/ /\ state[wtask[w]] # "Running"
          /\ WorkerDone(w)
    /\ UNCHANGED <<disk, log, registry, queues, clients, runs, scheduler, ckpt, process>>

\* ... the pool sets the outcome itself, whatever the state is by now.
WorkerForce(w) ==
    /\ wpc[w] = "force"
    /\ state' = [state EXCEPT ![wtask[w]] = IF wres[w] = "complete" THEN "Completed" ELSE "Failed"]
    /\ WorkerDone(w)
    /\ UNCHANGED <<disk, log, retries, expires, idemp, dlq, queues, clients, runs, scheduler, ckpt, process>>

WorkerStep(w) == \/ WorkerLoop(w) \/ WorkerDequeue(w) \/ WorkerMark(w) \/ WorkerStart(w)
                 \/ WorkerLogStart(w) \/ WorkerExec(w) \/ WorkerSettle(w)
                 \/ WorkerLog(w) \/ WorkerPush(w) \/ WorkerPost(w) \/ WorkerForce(w)

-----------------------------------------------------------------------------
(* Scheduler.Run *)

\* (mutant) PromoteReady only peeks at the heap
SchedPromotePeek ==
    /\ sched = "run" /\ ready = {} /\ cur = None
    /\ \E due \in (SUBSET heap) \ {{}} :
         /\ ready' = due
         /\ state' = [t \in Task |-> IF t \in due THEN "Pending" ELSE state[t]]
    /\ UNCHANGED <<disk, log, retries, expires, idemp, dlq, queues, clients, workers, sched, cur, ckpt, process>>

\* PromoteReady takes the tasks that are due and makes them Pending.
SchedPromote ==
    /\ sched = "run" /\ ready = {} /\ cur = None
    /\ \E due \in (SUBSET heap) \ {{}} :
         /\ heap' = heap \ due
         /\ ready' = due
         /\ state' = [t \in Task |-> IF t \in due THEN "Pending" ELSE state[t]]
    /\ UNCHANGED <<disk, log, retries, expires, idemp, dlq, buffer, everPushed, clients, workers, sched, cur, ckpt, process>>

\* A promoted task is skipped when cancelled, dropped when expired.
SchedCheck ==
    /\ cur = None
    /\ \E t \in ready :
         /\ ready' = ready \ {t}
         /\ \/ state[t] = "Cancelled" /\ UNCHANGED <<state, cur>>
            \/ /\ state[t] # "Cancelled" /\ t \in expires
               /\ state' = [state EXCEPT ![t] = "Expired"]
               /\ UNCHANGED cur
            \/ state[t] # "Cancelled" /\ cur' = t /\ UNCHANGED state
    /\ UNCHANGED <<disk, log, retries, expires, idemp, dlq, queues, clients, workers, sched, ckpt, process>>

\* On a full buffer the task goes back to the heap; on a closed one the
\* scheduler returns and forgets what it had promoted.
SchedEnqueue ==
    /\ cur # None
    /\ cur' = None
    /\ \/ /\ CanEnqueue
          /\ buffer' = Append(buffer, cur)
          /\ UNCHANGED <<state, heap, everPushed, ready, sched>>
       \/ /\ EnqueueErr /\ BufClosed
          /\ ready' = {}
          /\ sched' = "exit"
          /\ UNCHANGED <<state, buffer, heap, everPushed>>
       \/ /\ EnqueueErr /\ ~BufClosed
          /\ state' = [state EXCEPT ![cur] = "Scheduled"]
          /\ heap' = heap \cup {cur}
          /\ everPushed' = everPushed \cup {cur}
          /\ UNCHANGED <<buffer, ready, sched>>
    /\ UNCHANGED <<disk, log, retries, expires, idemp, dlq, clients, workers, ckpt, process>>

SchedExit ==
    /\ sched = "run" /\ ready = {} /\ cur = None /\ CtxDone
    /\ sched' = "exit"
    /\ UNCHANGED <<disk, log, registry, queues, clients, workers, ready, cur, ckpt, process>>

SchedStep == SchedPromote \/ SchedCheck \/ SchedEnqueue \/ SchedExit

-----------------------------------------------------------------------------
(* checkpoint and rotateWAL, by the checkpoint goroutine or by Shutdown *)

\* where the goroutine goes when checkpoint returns
CkptReturn == kpc' = IF phase = "final" THEN "exit" ELSE "idle"

\* (mutant) finished tasks are left out of the snapshot
CkptTasksUnfinished == {t \in Registered : state[t] \notin {"Completed", "Dead"}}

CkptTasks == Registered

\* LastSeq is read before the tasks are copied.
CkptBegin ==
    /\ kpc = "idle" /\ NoWriter
    /\ kpc' = "copy"
    /\ kcopy' = [NoSnapshot EXCEPT !.seq = walSeq]
    /\ ktodo' = CkptTasks
    /\ UNCHANGED <<disk, log, registry, queues, clients, workers, scheduler, process>>

CkptCopy ==
    /\ kpc = "copy"
    /\ \E t \in ktodo :
         /\ ktodo' = ktodo \ {t}
         /\ kcopy' = [kcopy EXCEPT !.st[t] = state[t], !.rc[t] = retries[t]]
    /\ UNCHANGED <<disk, log, registry, queues, clients, workers, scheduler, kpc, process>>

CkptUnlock ==
    /\ kpc = "copy" /\ ktodo = {}
    /\ kpc' = "write"
    /\ UNCHANGED <<disk, log, registry, queues, clients, workers, scheduler, kcopy, ktodo, process>>

\* (mutant) LastSeq is read when the snapshot is written
CkptWriteLateSeq ==
    /\ kpc = "write"
    /\ snap' = [kcopy EXCEPT !.seq = walSeq]
    /\ kcopy' = NoSnapshot
    /\ kpc' = "close"
    /\ UNCHANGED <<wal, walOld, log, registry, queues, clients, workers, scheduler, ktodo, process>>

\* WriteSnapshot: the rename makes the new snapshot appear in one step.
CkptWrite ==
    /\ kpc = "write"
    /\ snap' = kcopy
    /\ kcopy' = NoSnapshot
    /\ kpc' = "close"
    /\ UNCHANGED <<wal, walOld, log, registry, queues, clients, workers, scheduler, ktodo, process>>

CkptClose ==
    /\ kpc = "close"
    /\ walClosed' = TRUE
    /\ kpc' = "rename"
    /\ UNCHANGED <<disk, walSeq, registry, queues, clients, workers, scheduler, kcopy, ktodo, process>>

\* (mutant) wal.bin is removed, not renamed
CkptRemove ==
    /\ kpc = "rename"
    /\ walOld' = <<>>
    /\ wal' = <<>>
    /\ kpc' = "open"
    /\ UNCHANGED <<snap, log, registry, queues, clients, workers, scheduler, kcopy, ktodo, process>>

\* wal.old is removed and wal.bin takes its name
CkptRename ==
    /\ kpc = "rename"
    /\ walOld' = wal
    /\ wal' = <<>>
    /\ kpc' = "open"
    /\ UNCHANGED <<snap, log, registry, queues, clients, workers, scheduler, kcopy, ktodo, process>>

\* Open a fresh wal.bin, SetSeq(old LastSeq), publish it as e.walLog.
CkptOpen ==
    /\ kpc = "open"
    /\ walClosed' = FALSE
    /\ CkptReturn
    /\ UNCHANGED <<disk, walSeq, registry, queues, clients, workers, scheduler, kcopy, ktodo, process>>

\* A file operation fails and checkpoint returns: the snapshot may not have
\* been written; from Close on the log stays closed until the next checkpoint.
CkptFault ==
    /\ IOFaults
    /\ \/ kpc = "write" /\ UNCHANGED <<walClosed, walOld>>
       \/ kpc \in {"close", "open"} /\ walClosed' = TRUE /\ UNCHANGED walOld
       \/ kpc = "rename" /\ walOld' = <<>> /\ UNCHANGED walClosed
    /\ kcopy' = NoSnapshot
    /\ CkptReturn
    /\ UNCHANGED <<wal, snap, walSeq, registry, queues, clients, workers, scheduler, ktodo, process>>

\* checkpointLoop sees ctx.Done()
CkptExit ==
    /\ kpc = "idle" /\ phase \in {"cancel", "stop"}
    /\ kpc' = "exit"
    /\ UNCHANGED <<disk, log, registry, queues, clients, workers, scheduler, kcopy, ktodo, process>>

CkptStep == CkptCopy \/ CkptUnlock \/ CkptWrite \/ CkptClose \/ CkptRename \/ CkptOpen \/ CkptFault

-----------------------------------------------------------------------------
(* Recover and Start *)

\* ReadSnapshot.  Two tasks of the snapshot with one key leave the key with
\* either.  ExpiresAt is not in the snapshot.
LoadSnapshot ==
    /\ phase = "down"
    /\ phase' = "replay" /\ rpos' = 1
    /\ state' = snap.st
    /\ retries' = snap.rc
    /\ \E keys \in [Key -> Task \cup {None}] :
         /\ \A k \in Key :
              LET holders == {t \in Task : snap.st[t] # "absent" /\ KeyOf[t] = k}
              IN  keys[k] \in IF holders = {} THEN {None} ELSE holders
         /\ idemp' = keys
    /\ UNCHANGED <<disk, log, expires, dlq, queues, clients, workers, scheduler, ckpt, rtodo, crashes, stops>>

\* (mutant) applyEntry has no case for Complete records
StateAfterNoComplete(r) == CASE r.type = "enqueue"  -> r.st
                             [] r.type \in {"start", "complete"} -> "Running"
                             [] r.type = "retry"    -> "Scheduled"
                             [] r.type = "dead"     -> "Dead"
                             [] r.type = "cancel"   -> "Cancelled"

\* (mutant) applyEntry has no case for Dead records
StateAfterNoDead(r) == CASE r.type = "enqueue"  -> r.st
                         [] r.type \in {"start", "dead"} -> "Running"
                         [] r.type = "complete" -> "Completed"
                         [] r.type = "retry"    -> "Scheduled"
                         [] r.type = "cancel"   -> "Cancelled"

\* applyEntry: the state that each type of record leads to; nothing writes Fail
\* records.
StateAfter(r) == CASE r.type = "enqueue"  -> r.st
                   [] r.type = "start"    -> "Running"
                   [] r.type = "complete" -> "Completed"
                   [] r.type = "retry"    -> "Scheduled"
                   [] r.type = "dead"     -> "Dead"
                   [] r.type = "cancel"   -> "Cancelled"

\* (mutant) Dead records do not rebuild the DLQ
DLQUnchanged(r) == dlq

DLQAfter(r) == IF r.type = "dead" THEN Append(dlq, r.task) ELSE dlq

\* A record that the snapshot covers is skipped, and so is a record other
\* than Enqueue about an unknown task.
ApplyEntry(r) ==
    IF r.seq <= snap.seq \/ (r.type # "enqueue" /\ state[r.task] = "absent")
    THEN UNCHANGED registry
    ELSE /\ state' = [state EXCEPT ![r.task] = StateAfter(r)]
         /\ retries' = IF r.type \in {"enqueue", "retry"} THEN [retries EXCEPT ![r.task] = r.rc] ELSE retries
         /\ expires' = IF r.type = "enqueue" /\ r.task \in Expiring THEN expires \cup {r.task} ELSE expires
         /\ idemp' = IF r.type = "enqueue" /\ KeyOf[r.task] # None
                     THEN [idemp EXCEPT ![KeyOf[r.task]] = r.task] ELSE idemp
         /\ dlq' = DLQAfter(r)

ReplayEntry ==
    /\ phase = "replay" /\ rpos \in DOMAIN wal
    /\ ApplyEntry(wal[rpos])
    /\ rpos' = rpos + 1
    /\ UNCHANGED <<disk, log, queues, clients, workers, scheduler, ckpt, phase, rtodo, crashes, stops>>

\* Open; SetSeq(lastSeq) if lastSeq > 0, lastSeq being that of the last record.
OpenWAL ==
    /\ phase = "replay" /\ rpos = Len(wal) + 1
    /\ walClosed' = FALSE
    /\ walSeq' = IF wal = <<>> THEN 0 ELSE wal[Len(wal)].seq
    /\ phase' = "rebuild"
    /\ rtodo' = Registered
    /\ UNCHANGED <<disk, registry, queues, clients, workers, scheduler, ckpt, rpos, crashes, stops>>

\* rebuildQueues, one task of the map after the other, before any worker runs:
\* an Enqueue error is only logged, and a full buffer blocks for ever under
\* the block policy.
RebuildTask(t) ==
    /\ phase = "rebuild" /\ t \in rtodo
    /\ rtodo' = rtodo \ {t}
    /\ \/ /\ state[t] \in {"Pending", "Running"}
          /\ \/ CanEnqueue /\ buffer' = Append(buffer, t)
             \/ EnqueueErr /\ UNCHANGED buffer
          /\ state' = [state EXCEPT ![t] = "Pending"]
          /\ retries' = IF state[t] = "Running" THEN [retries EXCEPT ![t] = @ + 1] ELSE retries
          /\ UNCHANGED <<heap, everPushed>>
       \/ /\ state[t] = "Scheduled"
          /\ heap' = heap \cup {t}
          /\ everPushed' = everPushed \cup {t}
          /\ UNCHANGED <<state, retries, buffer>>
       \/ /\ state[t] \notin {"Pending", "Running", "Scheduled"}
          /\ UNCHANGED <<state, retries, queues>>
    /\ UNCHANGED <<disk, log, expires, idemp, dlq, clients, workers, scheduler, ckpt, phase, rpos, crashes, stops>>

Start ==
    /\ phase = "rebuild" /\ rtodo = {}
    /\ phase' = "up"
    /\ wpc' = [w \in Worker |-> "loop"]
    /\ sched' = "run"
    /\ kpc' = IF Checkpointing THEN "idle" ELSE "exit"
    /\ UNCHANGED <<disk, log, registry, queues, clients, wtask, wres, runs, ready, cur, kcopy, ktodo,
                   rpos, rtodo, crashes, stops>>

RecoverStep == LoadSnapshot \/ ReplayEntry \/ OpenWAL \/ (\E t \in Task : RebuildTask(t)) \/ Start

-----------------------------------------------------------------------------
(* The end of the process: files stay, memory goes, clients that were      *)
(* waiting for an answer get none.                                         *)

ProcessEnds ==
    /\ phase' = "down" /\ rpos' = 1 /\ rtodo' = {}
    /\ walSeq' = 0 /\ walClosed' = TRUE
    /\ state' = [t \in Task |-> "absent"] /\ retries' = [t \in Task |-> 0]
    /\ expires' = {} /\ idemp' = [k \in Key |-> None] /\ dlq' = <<>>
    /\ buffer' = <<>> /\ heap' = {} /\ everPushed' = {}
    /\ spc' = [t \in Task |-> IF spc[t] \in InFlight THEN "failed" ELSE spc[t]]
    /\ sdata' = [t \in Task |-> "absent"] /\ cpc' = [t \in Task |-> "idle"]
    /\ wpc' = [w \in Worker |-> "exit"] /\ wtask' = [w \in Worker |-> None]
    /\ wres' = [w \in Worker |-> "none"]
    /\ sched' = "exit" /\ ready' = {} /\ cur' = None
    /\ kpc' = "exit" /\ kcopy' = NoSnapshot /\ ktodo' = {}
    /\ UNCHANGED <<disk, runs>>

Crash ==
    /\ phase # "down" /\ crashes < MaxCrashes /\ crashes + stops < MaxEnds
    /\ crashes' = crashes + 1
    /\ ProcessEnds
    /\ UNCHANGED stops

\* SIGTERM: the HTTP server takes no new requests ...
StopHTTP ==
    /\ phase = "up" /\ stops < MaxStops /\ crashes + stops < MaxEnds
    /\ phase' = "drain" /\ stops' = stops + 1
    /\ UNCHANGED <<disk, log, registry, queues, clients, workers, scheduler, ckpt, rpos, rtodo, crashes>>

RequestsDone == \A t \in Task : spc[t] \notin InFlight /\ cpc[t] \in {"idle", "done"}

\* ... and Engine.Shutdown begins when the open ones are answered or time is up.
CancelContext ==
    /\ phase = "drain" /\ (RequestsDone \/ TimeoutsExpire)
    /\ phase' = "cancel"
    /\ UNCHANGED <<disk, log, registry, queues, clients, workers, scheduler, ckpt, rpos, rtodo, crashes, stops>>

CloseBuffer ==
    /\ phase = "cancel"
    /\ phase' = "stop"
    /\ UNCHANGED <<disk, log, registry, queues, clients, workers, scheduler, ckpt, rpos, rtodo, crashes, stops>>

\* (mutant) Shutdown does not wait for the pool
WorkersIgnored == TRUE

WorkersStopped == \A w \in Worker : wpc[w] = "exit"

\* pool.Stop() and wg.Wait() have returned: the final checkpoint
FinalCheckpoint ==
    /\ phase = "stop" /\ WorkersStopped /\ sched = "exit" /\ kpc = "exit"
    /\ phase' = "final"
    /\ kpc' = "idle"
    /\ UNCHANGED <<disk, log, registry, queues, clients, workers, scheduler, kcopy, ktodo, rpos, rtodo, crashes, stops>>

\* Shutdown returns, early on a timeout or after closing the log; so does main.
ShutdownReturns ==
    /\ \/ phase = "final" /\ kpc = "exit"
       \/ phase = "stop" /\ WorkersStopped /\ TimeoutsExpire
    /\ ProcessEnds
    /\ UNCHANGED <<crashes, stops>>

ShutdownStep == CancelContext \/ CloseBuffer \/ FinalCheckpoint \/ ShutdownReturns

Next == \/ \E t \in Task : SubmitRegister(t) \/ SubmitStep(t) \/ CancelCheck(t) \/ CancelStep(t)
        \/ \E w \in Worker : WorkerStep(w)
        \/ SchedStep
        \/ CkptBegin \/ CkptStep \/ CkptExit
        \/ RecoverStep
        \/ Crash \/ StopHTTP \/ ShutdownStep

Spec == Init /\ [][Next]_vars

\* Goroutines are scheduled, file operations and handlers return, delays elapse
\* and somebody restarts the server.  Nothing makes clients submit or cancel,
\* the process crash, or the checkpoint timer fire.
Fairness == /\ \A t \in Task : WF_vars(SubmitStep(t)) /\ WF_vars(CancelStep(t))
            /\ \A w \in Worker : WF_vars(WorkerStep(w))
            /\ WF_vars(SchedStep) /\ WF_vars(CkptStep) /\ WF_vars(CkptExit)
            /\ WF_vars(RecoverStep) /\ WF_vars(ShutdownStep)
            /\ WF_vars(phase = "final" /\ CkptBegin)

FairSpec == Spec /\ Fairness

-----------------------------------------------------------------------------
(* Types *)

RecordType == {"enqueue", "start", "complete", "retry", "dead", "cancel"}
Record == [seq : Nat, type : RecordType, task : Task, st : TaskState \cup {"absent", "none"}, rc : Nat]
Snapshot == [seq : Nat, st : [Task -> TaskState \cup {"absent"}], rc : [Task -> Nat]]

TypeOK ==
    /\ wal \in Seq(Record) /\ walOld \in Seq(Record) /\ snap \in Snapshot
    /\ walSeq \in Nat /\ walClosed \in BOOLEAN
    /\ state \in [Task -> TaskState \cup {"absent"}] /\ retries \in [Task -> Nat]
    /\ expires \subseteq Task /\ idemp \in [Key -> Task \cup {None}] /\ dlq \in Seq(Task)
    /\ buffer \in Seq(Task) /\ Len(buffer) <= Capacity /\ heap \subseteq Task /\ everPushed \subseteq Task
    /\ spc \in [Task -> InFlight \cup {"new", "duplicate", "failed", "acked"}]
    /\ sdata \in [Task -> TaskState \cup {"absent"}]
    /\ cpc \in [Task -> {"idle", "set", "log", "remove", "done"}]
    /\ wpc \in [Worker -> {"exit", "loop", "deq", "got", "start", "logstart", "exec", "settle",
                          "log", "push", "post", "force"}]
    /\ wtask \in [Worker -> Task \cup {None}]
    /\ wres \in [Worker -> {"none", "ok", "err", "fatal", "complete", "retry", "dead"}]
    /\ runs \in [Task -> Nat]
    /\ sched \in {"run", "exit"} /\ ready \subseteq Task /\ cur \in Task \cup {None}
    /\ kpc \in {"idle", "copy", "write", "close", "rename", "open", "exit"}
    /\ kcopy \in Snapshot /\ ktodo \subseteq Task
    /\ phase \in {"down", "replay", "rebuild", "up", "drain", "cancel", "stop", "final"}
    /\ rpos \in Nat \ {0} /\ rtodo \subseteq Task
    /\ crashes \in Nat /\ stops \in Nat

-----------------------------------------------------------------------------
(* Who holds a task *)

\* the Submit that will place it
SubmitHeld == {t \in Task : spc[t] \in InFlight}
\* the scheduler, between heap and buffer
SchedHeld == ready \cup ({cur} \ {None})
\* a worker, until it has logged the final outcome or pushed the retry
WorkerHeld(w) == IF wpc[w] \in {"got", "start", "logstart", "exec", "settle", "log", "push"}
                 THEN {wtask[w]} ELSE {}

Owned == SubmitHeld \cup Range(buffer) \cup heap \cup SchedHeld
         \cup UNION {WorkerHeld(w) : w \in Worker}

\* Every task is in at most one place at a time: held by its Submit, once in the
\* ring buffer, in the delayed heap, in the scheduler's hands or with one worker.
\* So no two workers ever execute the same task at the same time, through
\* retries, cancellations, checkpoints, crashes and recoveries.
ExclusiveOwnership ==
    /\ IsInjective(buffer)
    /\ SubmitHeld \cap (Range(buffer) \cup heap \cup SchedHeld) = {}
    /\ Range(buffer) \cap (heap \cup SchedHeld) = {}
    /\ heap \cap SchedHeld = {}
    /\ cur \notin ready
    /\ \A w \in Worker : WorkerHeld(w) \cap (SubmitHeld \cup Range(buffer) \cup heap \cup SchedHeld) = {}
    /\ \A v, w \in Worker : v # w => WorkerHeld(v) \cap WorkerHeld(w) = {}

\* A registered task that is waiting to run has somebody who will run it: no
\* Pending or Scheduled task is forgotten while the engine is up.
NoOrphan == phase \in {"up", "drain"} =>
                \A t \in Task : state[t] \in {"Pending", "Scheduled"} => t \in Owned

-----------------------------------------------------------------------------
(* Durability *)

EnqueueRecord(t, records) == {i \in DOMAIN records : records[i].type = "enqueue" /\ records[i].task = t}

\* Recover would bring t back from the snapshot and the log as they are now.
Recoverable(t) == snap.st[t] # "absent" \/ \E i \in EnqueueRecord(t, wal) : wal[i].seq > snap.seq

\* A task whose submission was answered with 201 is recovered by the next
\* Recover, whenever the process is killed ("Tasks must survive SIGKILL without
\* loss", docs/adr/002-wal-vs-embedded-db.md:5).
AckedRecoverable == \A t \in Task : spc[t] = "acked" => Recoverable(t)

\* As long as the process lives, rotation drops nothing that was acknowledged:
\* the task is recoverable, or at least its record is still in wal.old.
AckedOnDisk == \A t \in Task : spc[t] = "acked" => Recoverable(t) \/ EnqueueRecord(t, walOld) # {}

\* Recover may skip the records up to snapshot.LastSeq: each of them is accounted
\* for in the snapshot, although nothing stops appends while it is taken.  Only
\* a Cancel record may be about a task that the snapshot does not have: the
\* Submit of that task was rolled back after CancelTask had found it.
SnapshotCovers ==
    \A i \in DOMAIN wal :
        LET r == wal[i] IN
        r.seq <= snap.seq =>
            /\ r.type # "cancel" => snap.st[r.task] # "absent"
            /\ r.type \in {"complete", "dead"} => snap.st[r.task] \notin {"Pending", "Scheduled", "Running"}
            /\ r.type = "retry" => snap.rc[r.task] >= r.rc

\* An acknowledged task that has reached snapshot.json is in every later one,
\* across crashes and recoveries: checkpoints only add to what they hold of it.
AckedStaysInSnapshot ==
    [][\A t \in Task : (spc[t] = "acked" /\ snap.st[t] # "absent") => snap'.st[t] # "absent"]_vars

\* Once the log holds a task's Complete or Dead record, nobody holds the task:
\* it is never queued or executed again, not even after a crash.
FinishedNotRequeued ==
    \A i \in DOMAIN wal : wal[i].type \in {"complete", "dead"} => wal[i].task \notin Owned

\* A handler is called at most MaxRetries + 1 times for a task, plus once for
\* every crash (which may hit a call whose outcome was not yet logged).
RetryBudget == \A t \in Task : runs[t] <= MaxRetries + 1 + crashes

\* No two submissions with the same idempotency key are both acknowledged, even
\* when a crash comes between them.
UniqueKey == \A t, u \in Task :
                 (t # u /\ spc[t] = "acked" /\ spc[u] = "acked" /\ KeyOf[t] # None) => KeyOf[t] # KeyOf[u]

\* The DLQ lists every dead task, and lists it once, as soon as its worker is
\* done with it and after every recovery.
DLQComplete ==
    phase \notin {"down", "replay", "rebuild"} =>
        /\ IsInjective(dlq)
        /\ \A t \in Task : state[t] = "Dead" => t \in Range(dlq) \cup Owned

-----------------------------------------------------------------------------
(* Shutdown *)

\* When Shutdown has taken its final checkpoint the snapshot is the registry:
\* no worker, scheduler or request changes anything behind its back.
CleanStopSaves == (phase = "final" /\ kpc = "exit") =>
                      /\ wal = <<>>
                      /\ snap.st = state
                      /\ snap.rc = retries

\* A shutdown comes to its end without help from the timeouts.
ShutdownCompletes == phase = "drain" ~> phase = "down"

-----------------------------------------------------------------------------
(* Progress *)

Terminal == {"Completed", "Failed", "Dead", "Cancelled", "Expired"}

\* Every acknowledged task is eventually finished, and stays finished.
AckedFinishes == \A t \in Task : spc[t] = "acked" ~> [](state[t] \in Terminal)
=================================================================================
