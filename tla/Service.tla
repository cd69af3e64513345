-------------------------------- MODULE Service --------------------------------
(***************************************************************************)
(* What the service tells its clients: the answers of POST /tasks, the     *)
(* pages of GET /dlq, and the counters behind GET /stats and GET /metrics. *)
(* The engine counts under metricsMu, the worker pool under its own mutex, *)
(* internal/metrics with atomics, and the tasks move under other locks     *)
(* again; a step is one such critical section.  Log, registry and task     *)
(* states are in Engine, and only their effect on the answers is here.     *)
(***************************************************************************)
EXTENDS TokenBucket, FiniteSets, Functions

CONSTANTS Task,        \* the requests that pass validation, each with its task
          Worker,
          Capacity,    \* queue.capacity
          MaxRetries,  \* retry.max_retries
          PageSize,    \* limit of a GET /dlq
          MaxInvalid   \* bound on the requests without a valid body

ASSUME ServiceAssumption == /\ IsFiniteSet(Task) /\ IsFiniteSet(Worker)
                            /\ {Capacity, PageSize} \subseteq Nat \ {0}
                            /\ {MaxRetries, MaxInvalid} \subseteq Nat

VARIABLES
    spc,       \* where each POST is, or the status it was answered with
    invalid,   \* requests answered with 400
    buffer,    \* the ring buffer
    heap,      \* the delayed heap
    left,      \* tasks that left the heap without running: cancelled or expired
    retries,   \* task.RetryCount
    dlq,       \* e.dlq
    wpc, wtask,
    eng,       \* Engine.enqueueCount, completeCount ... under metricsMu
    pool,      \* Pool.busyWorkers, processed, failed, under the pool's mutex
    met,       \* metrics.Metrics, the latency samples left out
    stat,      \* where Stats is; it holds metricsMu unless it is "idle"
    seen,      \* what Stats has read of the pool
    pages      \* the DLQ as a client has paged through it

queues == <<buffer, heap, left>>
work   == <<retries, wpc, wtask>>
counts == <<eng, pool, met>>
reader == <<stat, seen>>
vars   == <<now, bucket, spc, invalid, queues, work, dlq, counts, reader, pages>>

Idle == [busy |-> 0, processed |-> 0, failed |-> 0]

Init == /\ BucketInit
        /\ spc = [t \in Task |-> "new"] /\ invalid = 0
        /\ buffer = <<>> /\ heap = {} /\ left = {} /\ dlq = <<>>
        /\ retries = [t \in Task |-> 0]
        /\ wpc = [w \in Worker |-> "idle"] /\ wtask = [w \in Worker |-> {}]
        /\ eng = [enqueue |-> 0, complete |-> 0, fail |-> 0, retry |-> 0, dead |-> 0]
        /\ pool = Idle
        /\ met = [enqueue |-> 0, dequeue |-> 0, complete |-> 0, fail |-> 0, retry |-> 0,
                  dead |-> 0, depth |-> 0]
        /\ stat = "idle" /\ seen = Idle
        /\ pages = <<>>

\* (mutant) the counters are not guarded
MetricsMuIgnored == TRUE

MetricsMuFree == stat = "idle"

Clock == Tick /\ UNCHANGED <<spc, invalid, queues, work, dlq, counts, reader, pages>>

-----------------------------------------------------------------------------
(* POST /tasks *)

\* The limiter comes first: a request that is answered with 400 costs a token.
PostInvalid ==
    /\ invalid < MaxInvalid
    /\ \E ok \in BOOLEAN : Allow(ok) /\ invalid' = IF ok THEN invalid + 1 ELSE invalid
    /\ UNCHANGED <<spc, queues, work, dlq, counts, reader, pages>>

Answer(t, status) == spc' = [spc EXCEPT ![t] = status]

\* 429, or Submit registers and logs the task; or it refuses the key (409) or the
\* append fails and the registration is taken back (500).
Post(t) ==
    /\ spc[t] = "new"
    /\ \/ Allow(FALSE) /\ Answer(t, "429")
       \/ Allow(TRUE) /\ \E s \in {"place", "409", "500"} : Answer(t, s)
    /\ UNCHANGED <<invalid, queues, work, dlq, counts, reader, pages>>

\* (mutant) the error of Enqueue is ignored
SubmitPlaceAnyway(t) ==
    /\ spc[t] = "place"
    /\ \/ heap' = heap \cup {t} /\ UNCHANGED buffer
       \/ UNCHANGED heap /\ buffer' = IF Len(buffer) < Capacity THEN Append(buffer, t) ELSE buffer
    /\ Answer(t, "count")
    /\ UNCHANGED <<now, bucket, invalid, left, work, dlq, counts, reader, pages>>

\* into the heap if it is delayed, else the ring buffer, or 503
SubmitPlace(t) ==
    /\ spc[t] = "place"
    /\ \/ heap' = heap \cup {t} /\ Answer(t, "count") /\ UNCHANGED buffer
       \/ Len(buffer) < Capacity /\ buffer' = Append(buffer, t) /\ Answer(t, "count") /\ UNCHANGED heap
       \/ Len(buffer) = Capacity /\ Answer(t, "503") /\ UNCHANGED <<buffer, heap>>
    /\ UNCHANGED <<now, bucket, invalid, left, work, dlq, counts, reader, pages>>

SubmitCount(t) ==
    /\ spc[t] = "count" /\ MetricsMuFree
    /\ eng' = [eng EXCEPT !.enqueue = @ + 1]
    /\ Answer(t, "record")
    /\ UNCHANGED <<now, bucket, invalid, queues, work, dlq, pool, met, reader, pages>>

\* RecordEnqueue
SubmitRecord(t) ==
    /\ spc[t] = "record"
    /\ met' = [met EXCEPT !.enqueue = @ + 1, !.depth = @ + 1]
    /\ Answer(t, "201")
    /\ UNCHANGED <<now, bucket, invalid, queues, work, dlq, eng, pool, reader, pages>>

\* The scheduler moves a due task to the buffer when there is room.
Promote(t) ==
    /\ t \in heap /\ Len(buffer) < Capacity
    /\ heap' = heap \ {t} /\ buffer' = Append(buffer, t)
    /\ UNCHANGED <<now, bucket, spc, invalid, left, work, dlq, counts, reader, pages>>

\* A DELETE takes a task out of the heap, or the scheduler drops it as cancelled
\* or expired: nothing counts it.
Discard(t) ==
    /\ t \in heap
    /\ heap' = heap \ {t} /\ left' = left \cup {t}
    /\ UNCHANGED <<now, bucket, spc, invalid, buffer, work, dlq, counts, reader, pages>>

-----------------------------------------------------------------------------
(* A worker's turn, from Dequeue to the pool's bookkeeping *)

Goto(w, here, next) == wpc[w] = here /\ wpc' = [wpc EXCEPT ![w] = next]

Dequeue(w) ==
    /\ buffer # <<>> /\ Goto(w, "idle", "got")
    /\ buffer' = Tail(buffer)
    /\ wtask' = [wtask EXCEPT ![w] = {Head(buffer)}]
    /\ UNCHANGED <<now, bucket, spc, invalid, heap, left, retries, dlq, counts, reader, pages>>

MarkBusy(w) ==
    /\ Goto(w, "got", "busy")
    /\ pool' = [pool EXCEPT !.busy = @ + 1]
    /\ UNCHANGED <<now, bucket, spc, invalid, queues, retries, wtask, dlq, eng, met, reader, pages>>

\* (mutant) only a task's first run is recorded as a dequeue
RecordDequeueOnce(w) ==
    /\ Goto(w, "busy", "exec")
    /\ met' = IF \A t \in wtask[w] : retries[t] = 0
              THEN [met EXCEPT !.dequeue = @ + 1, !.depth = @ - 1] ELSE met
    /\ UNCHANGED <<now, bucket, spc, invalid, queues, retries, wtask, dlq, eng, pool, reader, pages>>

RecordDequeue(w) ==
    /\ Goto(w, "busy", "exec")
    /\ met' = [met EXCEPT !.dequeue = @ + 1, !.depth = @ - 1]
    /\ UNCHANGED <<now, bucket, spc, invalid, queues, retries, wtask, dlq, eng, pool, reader, pages>>

\* The handler returns, and RecordComplete or RecordFail.
Exec(w) ==
    /\ \/ Goto(w, "exec", "ok") /\ met' = [met EXCEPT !.complete = @ + 1]
       \/ Goto(w, "exec", "err") /\ met' = [met EXCEPT !.fail = @ + 1]
    /\ UNCHANGED <<now, bucket, spc, invalid, queues, retries, wtask, dlq, eng, pool, reader, pages>>

CountComplete(w) ==
    /\ MetricsMuFree /\ Goto(w, "ok", "okdone")
    /\ eng' = [eng EXCEPT !.complete = @ + 1]
    /\ UNCHANGED <<now, bucket, spc, invalid, queues, retries, wtask, dlq, pool, met, reader, pages>>

CountFail(w) ==
    /\ MetricsMuFree /\ Goto(w, "err", "failed")
    /\ eng' = [eng EXCEPT !.fail = @ + 1]
    /\ UNCHANGED <<now, bucket, spc, invalid, queues, retries, wtask, dlq, pool, met, reader, pages>>

\* handleFailure counts the attempt; it was the last, or the error is not
\* retryable, or there will be a retry.
Settle(w) ==
    /\ \E t \in wtask[w] :
         /\ retries' = [retries EXCEPT ![t] = @ + 1]
         /\ \/ Goto(w, "failed", "dlq")
            \/ retries[t] + 1 <= MaxRetries /\ Goto(w, "failed", "push")
    /\ UNCHANGED <<now, bucket, spc, invalid, queues, wtask, dlq, counts, reader, pages>>

\* (mutant) the newest dead task is listed first
ListDeadFirst(w) ==
    /\ Goto(w, "dlq", "dead")
    /\ \E t \in wtask[w] : dlq' = <<t>> \o dlq
    /\ UNCHANGED <<now, bucket, spc, invalid, queues, retries, wtask, counts, reader, pages>>

ListDead(w) ==
    /\ Goto(w, "dlq", "dead")
    /\ \E t \in wtask[w] : dlq' = Append(dlq, t)
    /\ UNCHANGED <<now, bucket, spc, invalid, queues, retries, wtask, counts, reader, pages>>

CountDead(w) ==
    /\ MetricsMuFree /\ Goto(w, "dead", "recdead")
    /\ eng' = [eng EXCEPT !.dead = @ + 1]
    /\ UNCHANGED <<now, bucket, spc, invalid, queues, retries, wtask, dlq, pool, met, reader, pages>>

PushRetry(w) ==
    /\ Goto(w, "push", "retry")
    /\ heap' = heap \cup wtask[w]
    /\ UNCHANGED <<now, bucket, spc, invalid, buffer, left, retries, wtask, dlq, counts, reader, pages>>

CountRetry(w) ==
    /\ MetricsMuFree /\ Goto(w, "retry", "recretry")
    /\ eng' = [eng EXCEPT !.retry = @ + 1]
    /\ UNCHANGED <<now, bucket, spc, invalid, queues, retries, wtask, dlq, pool, met, reader, pages>>

\* RecordDead, RecordRetry
RecordOutcome(w) ==
    /\ \/ Goto(w, "recdead", "errdone") /\ met' = [met EXCEPT !.dead = @ + 1]
       \/ Goto(w, "recretry", "errdone") /\ met' = [met EXCEPT !.retry = @ + 1]
    /\ UNCHANGED <<now, bucket, spc, invalid, queues, retries, wtask, dlq, eng, pool, reader, pages>>

\* back in the pool
PoolDone(w) ==
    /\ \/ /\ Goto(w, "okdone", "idle")
          /\ pool' = [pool EXCEPT !.busy = @ - 1, !.processed = @ + 1]
       \/ /\ Goto(w, "errdone", "idle")
          /\ pool' = [pool EXCEPT !.busy = @ - 1, !.processed = @ + 1, !.failed = @ + 1]
    /\ wtask' = [wtask EXCEPT ![w] = {}]
    /\ UNCHANGED <<now, bucket, spc, invalid, queues, retries, dlq, eng, met, reader, pages>>

WorkerStep(w) == \/ Dequeue(w) \/ MarkBusy(w) \/ RecordDequeue(w) \/ Exec(w) \/ CountComplete(w)
                 \/ CountFail(w) \/ Settle(w) \/ ListDead(w) \/ CountDead(w) \/ PushRetry(w)
                 \/ CountRetry(w) \/ RecordOutcome(w) \/ PoolDone(w)

-----------------------------------------------------------------------------
(* GET /stats and GET /dlq *)

StatsLock ==
    /\ stat = "idle" /\ stat' = "pool"
    /\ UNCHANGED <<now, bucket, spc, invalid, queues, work, dlq, counts, seen, pages>>

StatsPool ==
    /\ stat = "pool" /\ stat' = "reply"
    /\ seen' = pool
    /\ UNCHANGED <<now, bucket, spc, invalid, queues, work, dlq, counts, pages>>

StatsReturn ==
    /\ stat = "reply" /\ stat' = "idle"
    /\ seen' = Idle
    /\ UNCHANGED <<now, bucket, spc, invalid, queues, work, dlq, counts, pages>>

\* ListDLQ: the slice dlq[offset : min(offset + limit, total)]
ListDLQ(limit, offset) ==
    LET end == IF offset + limit > Len(dlq) THEN Len(dlq) ELSE offset + limit
    IN  SubSeq(dlq, offset + 1, end)

\* A client asks for the page that starts where its last one ended.
GetDLQ ==
    /\ ListDLQ(PageSize, Len(pages)) # <<>>
    /\ pages' = pages \o ListDLQ(PageSize, Len(pages))
    /\ UNCHANGED <<now, bucket, spc, invalid, queues, work, dlq, counts, reader>>

Next == \/ Clock \/ PostInvalid
        \/ \E t \in Task : Post(t) \/ SubmitPlace(t) \/ SubmitCount(t) \/ SubmitRecord(t)
                           \/ Promote(t) \/ Discard(t)
        \/ \E w \in Worker : WorkerStep(w)
        \/ StatsLock \/ StatsPool \/ StatsReturn \/ GetDLQ

Spec == Init /\ [][Next]_vars

-----------------------------------------------------------------------------
At(places) == Cardinality({w \in Worker : wpc[w] \in places})
Posts(places) == Cardinality({t \in Task : spc[t] \in places})

\* Every submission that was counted is in exactly one account: waiting, with a
\* worker, discarded, completed or dead; retries neither add nor lose one.
Conservation ==
    eng.enqueue + Posts({"count"}) =
        Len(buffer) + Cardinality(heap) + Cardinality(left) + eng.complete + eng.dead
        + At({"got", "busy", "exec", "ok", "err", "failed", "dlq", "dead", "push"})

\* One answer of Stats is consistent in itself, although its numbers are kept under
\* three locks and read one after the other: nothing is processed that is neither
\* completed nor failed, what is missing is with a busy worker, and the DLQ holds
\* every task that is counted dead and at most one more per worker.
StatsConsistent ==
    stat = "reply" =>
        /\ seen.processed <= eng.complete + eng.fail
        /\ eng.complete + eng.fail <= seen.processed + seen.busy
        /\ seen.failed <= eng.fail
        /\ eng.retry + eng.dead <= eng.fail
        /\ eng.dead <= Len(dlq) /\ Len(dlq) <= eng.dead + Cardinality(Worker)

\* The gauge taskqueue_depth counts the tasks that wait, less one for every retry
\* that was ever pushed: RecordDequeue counts each run, RecordEnqueue only the first.
DepthMissesRetries ==
    met.depth + met.retry + At({"retry", "recretry"}) + Posts({"count", "record"}) =
        Len(buffer) + Cardinality(heap) + Cardinality(left) + At({"got", "busy"})

\* A client that pages through the DLQ while workers add to it sees every dead task
\* once and in the order of their death.
PagesInOrder == Len(pages) <= Len(dlq) /\ \A i \in DOMAIN pages : pages[i] = dlq[i]
=================================================================================
