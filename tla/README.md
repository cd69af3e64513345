# Verification of the task queue

TLA+ models of the durable task queue in `src/`, the TLC runs that check them on
small instances, and TLAPS proofs that hold for every instance. `PROJECT.json`
maps each definition to the lines it models and lists runs, mutants, findings,
hazards and theorems.

## The system

One server process. API handlers call `Engine.Submit` and `Engine.CancelTask`; a
task is registered in a map under `e.mu`, appended to the write-ahead log, then
placed in the ring buffer (ready) or the delayed heap (delayed, retried). A
scheduler goroutine moves due tasks from heap to buffer. Worker goroutines dequeue,
run the handler, log the outcome, and push a retry to the heap or a dead task to
the dead-letter queue (DLQ). A checkpoint goroutine copies the registry to
`snapshot.json` and rotates the log. A restart reads the snapshot, replays the log
and fills the queues again.

| Part | Source | Operations that change state | Guarded by | Modelled in |
|---|---|---|---|---|
| Ring buffer | `internal/queue/queue.go` | Enqueue, Dequeue, TryDequeue, Close | one mutex, one condition variable | `RingBuffer`, `BoundedFIFO` |
| Engine | `internal/engine/engine.go` | Submit, CancelTask, wrapHandler, handleSuccess, handleFailure, checkpoint, rotateWAL, Recover, applyEntry, rebuildQueues, Start, Shutdown | `e.mu`, or nothing | `Engine` |
| Engine counters, Stats, ListDLQ | `internal/engine/engine.go` | metricsMu counters, `e.dlq` | `metricsMu`, `dlqMu` | `Service` |
| Worker pool | `internal/worker/worker.go` | worker loop, ForceSetState, Stop; busy, processed, failed | task mutex; pool mutex | `Engine`; `Service` |
| Scheduler | `internal/queue/scheduler.go` | Run, NotifyNewTask | wake channel, timer | `Scheduler`; `Engine` (no timer) |
| Delayed heap | `internal/queue/heap.go` | Push, Pop, PromoteReady, Remove | heap mutex | `DelayedHeap`, `TimedSet`; `Engine` (as a set) |
| Task states | `internal/queue/queue.go` | ForceSetState; SetState is used by tests only | task mutex | `Engine` (the writes) |
| Log | `internal/wal/wal.go` | Append, Flush, Sync, Close, Open, SetSeq, Replay | log mutex | `WAL`, `DurableLog`; `Engine` (whole records) |
| Snapshot | `internal/wal/snapshot.go` | WriteSnapshot, ReadSnapshot | none | `Engine` (atomic) |
| Server | `cmd/server/main.go` | start-up, SIGTERM sequence | - | `Engine` |
| HTTP API | `internal/api/api.go` | submit, cancel, rate limit; GET stats, dlq | bucket mutex | `Service`, `TokenBucket`; `Engine` (as callers) |
| Retry policy | `internal/retry/retry.go` | pure | - | `Scheduler` (`NextDelay`) |
| Metrics | `internal/metrics/metrics.go` | counters, samples | atomics, a mutex | `Service` (counters) |
| Configuration | `internal/config/config.go` | pure | - | constants |
| Logger, load test, example client | | output, or clients of the API | | left out |

## Modules

**`RingBuffer`** follows queue.go slot by slot: `buf`, `head`, `tail`, `size`,
`closed`, and the waiters of the condition variable as a sequence (`sync.Cond` wakes
in FIFO order; a woken goroutine still competes for the mutex). The code between
taking the mutex and waiting or returning is one action. `Call` is a goroutine
entering Enqueue or Dequeue. The overflow policy is chosen at the start.
**`BoundedFIFO`** is the abstract specification: a sequence of at most `Cap` tasks,
calls that are open, and what each may return. `ImplementsFIFO` is the refinement,
with the contents read off the array from `head`.

**`Engine`** composes everything that touches the registry. Each actor has a program
counter: `spc` (a Submit per task), `cpc` (a CancelTask per task), `wpc` (workers),
`sched`, `kpc` (checkpoint), `phase` (main: recovery, serving, the shutdown
sequence). An action is a critical section, or a call whose effect other goroutines
can see; what the code does between an unlock and the next call is a separate
action, so that states read earlier can be stale. `e.mu` is modelled where it is held
over more than one action (`MuFree`, `NoWriter`): CancelTask between check and write,
checkpoint while it copies. The pool and the scheduler change task states without it,
as the code does. The engine uses the ring buffer as the FIFO that `RingBuffer`
implements, the delayed heap as the set that `DelayedHeap` implements, and the log as
the record sequence that `WAL` implements under `sync_policy: every`.

**`WAL`** is the log at file level. A record is three cells, the three reads Replay
makes of it (magic, length, body with its checksum). A cell goes from bufio's buffer
(`buf`) to the page cache (`file`) to the disk (`synced` counts the cells there). A
call has one step per thing it does to the file, so a kill or a power failure may come
in between. The loop of `Replay` goes round `Rounds` times, while it `Reads` a record; the
record that ends it is a torn tail, which is cut off, or `Corrupt`, an error. **`DurableLog`** is
what the log promises: entries are added at the end, a crash cuts off a suffix but
nothing below the durable mark, and an entry is acknowledged only below it.

**`DelayedHeap`** is the array with `heapIndex`; Less, Swap, Push and Pop are the
code's, sifting is container/heap's. **`TimedSet`** is what callers see: due tasks
leave earliest first, Remove takes the task it is given.

**`Scheduler`** is Run step by step (promote, place, compute the deadline, set the
timer, select) against goroutines that push tasks and signal in two separate steps, a
clock, a buffer that fills up and a shutdown. `NextDelay` is the backoff of
`internal/retry` as the set of delays its jitter allows.

**`TokenBucket`** is the limiter with a clock; **`Service`** extends it with what the
clients are told: the status of each POST, the pages of GET /dlq, and the counters of
engine, pool and metrics, each incremented in a step of its own because each has its
own lock. `stat` is a GET /stats that holds `metricsMu` while it reads.

`MCRingBuffer`, `MCEngine` and `MCDelayedHeap` name the small sets and the symmetries.
`RingBufferProofs`, `SchedulerProofs`, `ServiceProofs`, `WALProofs` and four modules on
`Engine` hold the proofs: `EngineRecords` extends `EngineProofs`, and `EngineOutcomes` and
`EngineSnapshots` each extend `EngineRecords`.

Abstractions in `Engine`:

- A task is one submission. `generateID` does not repeat IDs, so handlers are named by
  the task. CancelTask accepts any registered ID, also before the client has its
  answer; that includes every order a real client can produce.
- Time is abstract: any delayed task may be due, any expiry or timeout may have come.
  Only in-process callers of `Submit` can set ExpiresAt; `Expiring` is the set for which
  they do.
- The log runs with `sync_policy: every`, so Append is durable on return. A crash is a
  SIGKILL: memory is lost, files are not.
- Placing a task and answering 201 are one step, and so are a Dead record and its DLQ
  entry. Nothing reads the state in between.
- rotateWAL replaces `e.walLog` without a lock. A goroutine that still has the old
  pointer appends to a closed log; the window between CkptClose and CkptOpen gives the
  same outcome.
- `applyEntry` has a case for Fail records, but nothing writes them.
- A snapshot holds state, retry count and key, and drops ExpiresAt, as the
  conversion in the code does.

Abstractions elsewhere:

- `WAL`: bytes are counted in cells, so a write may stop between two reads of Replay but
  not inside one. Data reach the disk in order: a power failure keeps a prefix of what
  was not synced, and the last body of it may be garbled. A failed fsync leaves the
  data in the page cache. The checksum covers type and payload; damage to
  the sequence number alone, which Replay would not notice, is not in the model. Flush and Sync are in the model
  although the engine never calls them. Batch and none behave alike, as in the code.
  The rotation follows the snapshot; what other goroutines do meanwhile is `Engine`'s.
- `DelayedHeap`: each method is one step under `dh.mu`. `RemoveFresh` says whether Remove is
  called for a task that never was in the heap; the run has FALSE, and the case TRUE is
  what EngineCancelRemoves shows.
- `Scheduler`: ticks instead of nanoseconds; Delays and retry settings are constants.
  Expired and cancelled tasks are a choice. The buffer rejects when it is full.
- `TokenBucket`: exact arithmetic in parts of a token, where the code has float64.
- `Service`: no shutdown, no recovery and no task states, which are `Engine`'s; a duplicate
  key or a failed append is a choice. Several atomics incremented in a row by one call
  of the metrics are one step. Latency samples are left out.


## Runs

Ten runs pass and two show a violation. Each mutant in `PROJECT.json` is a definition
marked `(mutant)` beside the one it replaces.

| Run | Bounds | Shows | Distinct states |
|---|---|---|---|
| RingBuffer | 2 producers, 2 workers, 2 tasks, capacity 2, either policy, fair | `TypeOK`, `LiveWindow`, `CloseReleasesAll`, the refinement `ImplementsFIFO`; under reject no Signal is lost (`NoLostWakeup`) and the front task is taken (`HeadTaken`) | 75,426 |
| EngineCrash | 3 tasks, two with one key, capacity 1, 1 retry, 2 crashes | `TypeOK`, `AckedRecoverable`, `FinishedNotRequeued`, `RetryBudget`, `DLQComplete`, `UniqueKey` | 379,209 |
| EngineCancel | 2 tasks, one cancelled, one delayed and expiring, capacity 1, 1 crash | `ExclusiveOwnership`, `FinishedNotRequeued` | 1,569,593 |
| EngineCheckpoint | 2 tasks with one key, 2 workers, failing handlers, checkpoints with failing file operations | `SnapshotCovers`, `AckedOnDisk`, `UniqueKey` | 955,885 |
| EngineStopRace | 1 task, checkpoints, faults, expiring timeouts, 1 stop, 1 crash | `AckedStaysInSnapshot` | 701,497 |
| EngineRestart | 2 tasks, one delayed and expiring, all outcomes, 1 crash or 1 stop, fair | `CleanStopSaves`, `NoOrphan`, `ShutdownCompletes`, `AckedFinishes` | 159,204 |
| WAL | 3 appends, 3 policies, buffer of 4 cells, faults, 2 crashes, 1 rotation | `AckedDurable`, `SeqIncreasing`, `NeverRefused`, `CloseKeepsAll`, `DamageReported`, `LengthNeverMisread`, the refinement `ImplementsLog` | 27,861 |
| DelayedHeap | 6 tasks, 3 deadlines | `WellFormed`, the refinement `ImplementsSet` | 657 |
| Scheduler | 2 tasks, capacity 1, 1 retry, 3 ticks, fair | `NoOversleep`, `DueIsPromoted`, `StopEnds` | 269,887 |
| Service | 2 tasks, 2 workers, capacity 1, 1 retry, burst 1, half a token per tick, 2 ticks | `RateBound`, `RefusedOnlyAtBound`, `Conservation`, `StatsConsistent`, `DepthMissesRetries`, `PagesInOrder` | 389,169 |
| EngineSequenceReset | 1 stop, then a submission | violates `AckedRecoverable` | |
| EngineCancelRemoves | 2 tasks, one cancelled, the other delayed | violates `NoOrphan` | |

Why the bounds are enough for the questions asked: capacity 2 makes the ring indices
wrap with a full and a partly full array; capacity 1 with two tasks makes every
Enqueue of the engine fail in some behaviour (submission, promotion, recovery); two
workers are enough for a retry to overtake its own worker (EngineCheckpoint, where
handlers fail), and for one worker to be between two counters while the other moves on
(Service); the other runs of the engine have one worker, and the theorems any number;
one retry separates the first, the last and the exhausted attempt; a crash can hit each
step, and a second one the recovery from it, with records of both lives in the log. A buffer of four cells holds one record and a third, so
that the second Append spills a torn record; three appends put a record before and one
after the damaged one; two crashes are a crash, a repair, and a crash of the repaired
log. Six tasks make the smallest heap in which Remove has to sift up. Two ticks per
token and a burst of one give the limiter every fraction it can have, and a refill that
has to be clamped.

The bounds on counters are `MaxCrashes`, `MaxStops` and `MaxEnds` (crashes, SIGTERMs and
both together), `MaxAppends`, `MaxRotations`, `MaxTime` and `MaxInvalid`. One cancellation per
task and process life is a bound too.

Symmetry is used where no property is temporal and the permuted values are alike: the
two tasks with the same key in EngineCrash (`PairSymmetry`), both tasks and the workers in
EngineCheckpoint (`TaskSymmetry`), and the six tasks of DelayedHeap, where `ImplementsSet` is
a step property without fairness.

`CHECK_DEADLOCK FALSE` is set except for RingBuffer and DelayedHeap: each task is submitted once, and
clocks, appends and crashes are bounded, so a model in which all is done has nothing
left to do.

**Fairness** is weak fairness of each goroutine's own steps: the Go runtime schedules
runnable goroutines, handlers run under a timeout, file operations return, delays
elapse, and the server is restarted. No fairness is assumed of clients, of crashes,
of SIGTERM or of the checkpoint timer. In the ring buffer a worker comes back after each
task, which is the loop in worker.go. In `Scheduler` only Run and the goroutines about to
signal are fair, and the clock need not move: `DueIsPromoted` speaks of tasks that are
due already.

## What does not hold

The two violation runs, with the lines that promise otherwise in `findings`:

1. *Sequence numbers after a clean restart.* Shutdown leaves a snapshot with
   LastSeq = n and an empty log. Recover calls SetSeq only if it has read a record, so
   new records are numbered from 1 again, and a recovery after a crash skips those up
   to n as covered by the snapshot. Tasks acknowledged since the restart are lost. Hence
   `AckedRecoverable`, `SnapshotCovers` and `AckedFinishes` are checked with a clean stop or
   with a crash, not with a clean restart followed by a crash.
2. *Cancel.* `heapIndex` is 0 for a task that was never in the heap, so cancelling it
   removes the root, another task. That task stays Scheduled and in no queue.

Met while modelling, visible in the definitions, and the reason for restrictions of
the passing runs:

- *Rotation.* A record appended after the snapshot has been taken and before the old
  log is closed is only in `wal.old`, which recovery does not read (engine.go:739).
  `AckedRecoverable` fails with checkpoints; `AckedOnDisk` is what remains true.
- *Block policy.* Producers and workers share one condition variable and are woken by
  Signal. A Signal can go to the wrong kind of waiter, which goes back to sleep; with
  capacity 1, two producers and two workers all four can sleep beside a queued task or
  beside free space, although queue.go:164 says that Enqueue blocks "until space is
  available". Hence `NoLostWakeup` and `HeadTaken` speak of the reject policy.
- A 503 from a full buffer leaves the task registered and logged; recovery likewise
  drops what does not fit, and blocks for ever under the block policy (`SubmitEnqueue`,
  `RebuildTask`). Hence `NoOrphan` and the fair run have capacity for all tasks.
- A cancelled task in the ring buffer is executed (`WorkerMark`, worker.go:94);
  CancelTask may overwrite Running (`CancelSet`); a late worker may write Failed over the
  state of a retry (`WorkerForce`, worker.go:119).
- A task found Running is queued again without looking at its retry limit
  (`RebuildTask`), so `RetryBudget` allows one more call per crash.
- Dead tasks from a snapshot are not put back in the DLQ (`LoadSnapshot`), so
  `DLQComplete` is checked without checkpoints.
- Workers leave at shutdown with tasks in the buffer (`WorkerLoop`); the final snapshot
  has them, and `AckedFinishes` in EngineRestart shows that they are finished later.
- A damaged length field in the middle of the log that announces more than the file
  holds is taken for a torn tail and cut off without an error, where the comment on
  Replay promises ErrCorrupted. Hence `DamageReported` is about magic and body, and
  `LengthNeverMisread` says what is true of lengths: no wrong record, no gap.
- With sync_policy batch nothing syncs or flushes periodically, as wal.go:27 says it
  would: a kill loses up to a buffer of records, and a power failure more.
  `ImplementsLog` shows that it is a suffix.
- The gauge `taskqueue_depth` falls by one for every retry that is run, so it drifts
  below the number of waiting tasks (`DepthMissesRetries` says by how much); the code
  never updates the gauge `taskqueue_worker_busy`.

## Proofs

All theorems hold for all values of the constants that satisfy the named assumptions
(`CapAssumption`, `ProcAssumption`, `NilAssumption` of `RingBuffer`; `KeyAssumption`,
`NoneAssumption`, `SetsAssumption`, `OutcomesAssumption`, `NumbersAssumption`,
`FlagsAssumption` of `Engine`; `WALAssumption` of `WAL`; `TaskAssumption`, `TimesAssumption` of `Scheduler`;
`BucketAssumption` of `TokenBucket`).

Most leaves are first-order and go to Zenon (`USE ZenonT(20)` at the top of the larger
modules); those that need arithmetic or records say `SMTT`. No theorem below bounds the number of
tasks, keys, workers, retries, crashes or stops: a regime such as `LogOnly` or `FirstLife`
says which behaviours it covers.

**`RingBufferProofs`**

- `[]LiveWindow`, `[]CloseReleasesAll`, `[]NoLostWakeup`. The inductive invariant joins
  them and the types with three facts about waiters: the wait queue holds exactly the
  goroutines in "wait", each once; a producer inside a call has a task; under reject
  only consumers wait. The last is what makes `NoLostWakeup` inductive: a Signal then
  always reaches a consumer, and the number of awake consumers grows with `size`.
- `ImplementsFIFO`. With `LiveWindow`, storing at `tail` is Append on the contents, taking
  at `head` is Tail, and Wait, Signal and Close leave the contents alone.

**`EngineProofs`**: `[]TypeOK`, by groups of variables, and `[]ExclusiveOwnership`. The
latter is not inductive: Submit registers a task that must be nowhere yet, and recovery
may queue only tasks that no Submit is about to place. So the invariant `Own` adds that a
task whose Submit has not started is in no queue, in no worker's hands and in no record
or snapshot on disk (`UnknownInMemory`, `UnknownOnDisk`), and that a process that is down
or recovering has no worker, scheduler or request holding a task (`BootAlone`).

The module then says, action by action, what a step reads and writes (`Kinds` splits Next
into the steps of a running process, of recovery, and its ends), and proves the action
property `AckedStaysInSnapshot` for every configuration. What is inductive (`Kept`): while
a process boots there is neither request nor checkpoint (`BootQuiet`); until a task is
placed only CancelTask changes its state (`Waits`); only a Cancel record can come before
a task's Enqueue record (`LogShape`); and what the snapshot holds of a task that is, or may
still be, acknowledged is in the registry of a process that is up, and in the copy being
taken or still to be copied (`Snapshots`).

**`EngineRecords`** says what the log and the registry know of each other. Its invariant
`Recorded`, relative to `Types`, `Own` and `Kept`, joins `Logged`, `Finished` (below) and
`Retries`: the counts in the Retry records of a task grow, none is above the limit or above
what a registry that has read it says, and a worker about to write one writes a larger
count. **`EngineOutcomes`** (retries, keys, dead
letters) and **`EngineSnapshots`** (checkpoints, shutdown, waiting tasks) build on it. All
theorems with a condition:

| Theorem | Holds | Rests on |
|---|---|---|
| `EngineAckedRecoverable` | while `LogOnly` | `Logged`: between its append and its answer, and ever after, a task has its Enqueue record in the log |
| `EngineFinishedNotRequeued` | while `Regime` | `Finished`: whoever has read a Complete or Dead record has the task in a final state, and nobody holds it; rebuildQueues goes by the state |
| `EngineRetryBudget` | while `Regime` | `Budget`: each task has a number n of retries paid for (`Paid`): n is at most the registry's count, a Retry record says n if the process may lose its memory, and calls are at most n + 1 + crashes, with equality only during a call or after the last |
| `EngineUniqueKey` | while `Regime` | `Keys`: submissions that are, or may still be, acknowledged have different keys, and the registry knows their keys once the log is read |
| `EngineDLQComplete` | while `Regime` | `DLQ`: the list has finished tasks that nobody holds, each once, and during replay only those whose Dead record was read; a dead task is in it or with the worker that is about to add it |
| `EngineSnapshotCovers` | while `Regime` | `Covers`: the same of the copy while it is taken, except for tasks that it still has to come to |
| `EngineAckedOnDisk` | while `Regime` | `OnDisk`: what is only in wal.old is in the registry, and in the copy before the next rename |
| `EngineCleanStopSaves` | if `Quiet` | `Stages`: each stage of Shutdown leaves less that can move; `LastCheckpoint`: what the final copy has taken no longer changes |
| `EngineNoOrphan` | if `Roomy` | `Orphans`: a waiting task has a holder, or rebuildQueues is about to place it, and a worker that lets go has settled it |

`LogOnly` says that no checkpoint has rotated the log (none is configured and no clean stop
has come); `FirstLife` is the first process, up to and including its final checkpoint,
with checkpoints and file errors; `Regime` is either. The theorems say nothing of a
process that recovers from a rotated log because the properties are false there: the
sequence numbers start again (EngineSequenceReset), so recovery skips records, among
them those of acknowledged, finished and retried tasks. The runs have the same limits.
`Quiet` says that no timeout expires and no file operation fails: otherwise Shutdown goes
on with a worker still running, or keeps the old snapshot. `Roomy` says that nobody
cancels, since CancelTask may take another task out of the heap (EngineCancelRemoves), and
that the buffer blocks or has room for any number of different tasks, since a rejected
Enqueue leaves its task registered and in no queue.

**`WALProofs`** proves every property of the WAL run, for every buffer size, policy and
number of appends, crashes and rotations. The inductive invariant `Inv` says what the
cells in the file and the buffer are: whole records one after the other, of which the last
may be cut short (by a failed write, a kill or a power failure) or, while the process is
down, garbled; a torn record is followed by nothing, because the writer's error is sticky.
With that, where Replay stops is known without induction over the file: `Rounds` is the
number of whole records (`RoundsIs`). Further: numbers increase and do not exceed `seq`
while the process is up; an acknowledged entry has a sound body below `synced` (`Held`);
and what was closed without an error is on the disk.

- `AckedDurable`, `SeqIncreasing`, `NeverRefused` and `CloseKeepsAll` follow from `Inv`;
  `DamageReported` and `LengthNeverMisread` compare Replay on such a file and on the same
  file with one cell changed.
- `ImplementsLog`: a successful write is `Write`, a sync is `Harden`, the end of the process
  is `Lose`, a power failure is `Settle`, and the rename of a rotation is `Reset`. A failed write, a flush
  and the truncation by Recover are stutters: the cells they add or cut belong to no
  whole record.

**`SchedulerProofs`**: `[](NoOversleep /\ InOnePlace)`. `NoOversleep` rests on `InOnePlace`
(what PromoteReady returned is out of the heap, and nobody else has it or a task in the
heap): no deadline of a task in the heap moves, because nobody else has such a task, and
whoever pushes one counts as a notifier until the signal is sent.

**`ServiceProofs`**

- `Spec => BucketSpec`: the service is a refinement of the limiter, and `RateBound` and
  `RefusedOnlyAtBound` follow from `BucketSpec`. The invariant says what `tokens` is: no
  more than what the budget of any stretch that starts at an admitted request leaves,
  and equal to it for one such stretch unless the bucket is full.
- `Conservation`, `DepthMissesRetries`, `StatsConsistent`, `PagesInOrder`. The invariant has
  one equation per pair of counters (`Accounts`), each with the number of workers between
  the two increments, and `OnePlace`: a task is in one queue or with one worker, so that
  a step moves exactly one unit from one count to the next. `SeenAddsUp` is about the
  numbers a GET /stats has read so far: the engine's counters stand still while it
  holds `metricsMu`, and those of the pool can only have grown towards them.

Only model-checked:

- the liveness properties (`HeadTaken`, `ShutdownCompletes`, `AckedFinishes`,
  `DueIsPromoted`, `StopEnds`), which need fairness and ENABLED;
- the delayed heap (`WellFormed`, `ImplementsSet`): sifting is recursive, and the order of
  the array follows by induction over its levels.

## Left out

- The snapshot under power failure: snapshot.tmp is renamed without fsync, and what a
  file system keeps then is not the program's to say.
- CanTransitionTo and SetState: only tests call them.
- Latency samples, percentiles and the Prometheus text; configuration loading; logger,
  load test and example client; HTTP routing, JSON and middleware; flags and
  health-check mode of the server. They change no state the properties speak of.
- Negative `limit` and `offset` of GET /dlq, which reach the slice expression unchecked.
- Torn reads of `e.walLog` and of the size of the task map, which the code accesses
  without a lock.
