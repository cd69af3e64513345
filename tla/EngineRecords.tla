---------------------------- MODULE EngineRecords -----------------------------
(***************************************************************************)
(* What the records of the log say of each task, in the executions in which*)
(* the sequence numbers of the log are never reset below a snapshot's.     *)
(***************************************************************************)
EXTENDS EngineProofs

\* Most steps are first-order; those that need arithmetic or records say SMT.
USE ZenonT(20)

-----------------------------------------------------------------------------
(* The regimes in which nothing that matters is lost *)

\* No checkpoint is ever taken, not even a final one: the log holds everything.
LogOnly == ~Checkpointing /\ stops = 0

\* The first process, up to the end of its shutdown: nothing is recovered.
FirstLife == crashes = 0 /\ (stops = 0 \/ (stops = 1 /\ phase \in {"drain", "cancel", "stop", "final"}))

Regime == LogOnly \/ FirstLife

Base == /\ stops = 0 => Booting \/ phase = "up"
        /\ LogOnly => kpc = "exit" /\ snap = NoSnapshot /\ (walClosed <=> phase \in {"down", "replay"})
        /\ FirstLife /\ Booting => snap = NoSnapshot /\ \A t \in Task : spc[t] = "new"

\* Without a checkpoint under way nothing touches the files but appends.
LEMMA NoCheckpoint ==
    ASSUME Types, RunStep, kpc = "exit"
    PROVE  /\ UNCHANGED <<walClosed, snap, walOld>>
           /\ kpc' = "exit" \/ phase = "stop"
<1>1. ASSUME NEW u \in Task, SubmitRegister(u) \/ SubmitStep(u) \/ CancelCheck(u) \/ CancelStep(u)
      PROVE  UNCHANGED <<walClosed, snap, walOld, kpc>>
  BY <1>1, RegisterFacts, SubmitFacts, CancelFacts
<1>2. ASSUME NEW w \in Worker, WorkerStep(w) PROVE UNCHANGED <<walClosed, snap, walOld, kpc>>
  BY <1>2, WorkerFrame
<1>3. ASSUME SchedStep PROVE UNCHANGED <<walClosed, snap, walOld, kpc>>
  BY <1>3, SchedFacts
<1>4. ASSUME CkptBegin \/ CkptStep \/ CkptExit PROVE FALSE
  BY <1>4, CkptFacts
<1>5. ASSUME StopSteps PROVE UNCHANGED <<walClosed, snap, walOld>> /\ (UNCHANGED kpc \/ phase = "stop")
  BY <1>5, StopFacts
<1> QED BY <1>1, <1>2, <1>3, <1>4, <1>5 DEF RunStep

\* A regime that holds has held before.
LEMMA RegimeMoves ==
    ASSUME Types, Own, BootQuiet, Base, [Next]_vars
    PROVE  (LogOnly' => LogOnly) /\ (FirstLife' => FirstLife) /\ (Regime' => Regime)
<1>0. crashes \in Nat /\ stops \in Nat
  BY DEF Types, ProcessTypes
<1>1. CASE UNCHANGED vars
  BY <1>1 DEF vars, process, LogOnly, FirstLife, Regime
<1>2. CASE RunStep
  <2>1. UNCHANGED crashes
    BY <1>2, RunStepAwake
  <2> QED BY SMTT(30), <1>0, <1>2, <2>1, PhaseMoves DEF LogOnly, FirstLife, Regime
<1>3. CASE RecoverStep
  <2>1. UNCHANGED <<crashes, stops>>
    BY <1>3, RecoverFrame
  <2>2. phase' \in {"replay", "rebuild", "up"}
    BY <1>3, LoadFacts, ReplayFacts, OpenFacts, RebuildFacts, StartFacts DEF RecoverStep
  <2> QED BY <2>1, <2>2 DEF LogOnly, FirstLife, Regime
<1>4. CASE Crash \/ ShutdownReturns
  <2>1. phase' = "down" /\ UNCHANGED stops /\ crashes' \in {crashes, crashes + 1}
    BY <1>4, EndFacts
  <2> QED BY SMTT(30), <1>0, <2>1 DEF LogOnly, FirstLife, Regime
<1> QED BY <1>1, <1>2, <1>3, <1>4, Kinds

LEMMA NextBase == Types /\ Own /\ BootQuiet /\ Base /\ [Next]_vars => Base'
<1> SUFFICES ASSUME Types, Own, BootQuiet, Base, [Next]_vars PROVE Base'
  OBVIOUS
<1>0. crashes \in Nat /\ stops \in Nat /\ (LogOnly' => LogOnly) /\ (FirstLife' => FirstLife)
  BY RegimeMoves DEF Types, ProcessTypes
<1>1. CASE UNCHANGED vars
  BY <1>1 DEF vars, process, disk, log, clients, ckpt, LogOnly, FirstLife, Booting, Base
<1>2. CASE RunStep
  <2>1. ~Booting /\ ~Booting'
    BY <1>2, RunStepAwake
  <2>2. stops' = 0 => stops = 0 /\ phase = "up" /\ phase' = "up"
    BY SMTT(30), <1>0, <1>2, <2>1, PhaseMoves DEF Base
  <2>3. ASSUME LogOnly' PROVE kpc' = "exit" /\ snap' = NoSnapshot /\ ~walClosed'
    <3>1. LogOnly /\ phase = "up"
      BY <1>0, <2>2, <2>3 DEF LogOnly
    <3>2. kpc = "exit" /\ snap = NoSnapshot /\ ~walClosed
      BY <3>1 DEF Base
    <3> QED BY SMTT(30), <1>2, <3>1, <3>2, NoCheckpoint
  <2> QED BY <2>1, <2>2, <2>3 DEF Base, Booting
<1>3. CASE RecoverStep
  <2>1. UNCHANGED <<spc, snap, crashes, stops>> /\ Booting
    BY <1>3, RecoverFrame
  <2>2. kpc = "exit" /\ phase' \in {"replay", "rebuild", "up"}
    BY <1>3, <2>1, LoadFacts, ReplayFacts, OpenFacts, RebuildFacts, StartFacts DEF RecoverStep, BootQuiet
  <2>3. ~Checkpointing => kpc' = "exit"
    BY <1>3, <2>2, LoadFacts, ReplayFacts, OpenFacts, RebuildFacts, StartFacts DEF RecoverStep
  <2>4. \/ UNCHANGED walClosed /\ (phase \in {"down", "replay"} <=> phase' \in {"down", "replay"})
        \/ ~walClosed' /\ phase' = "rebuild"
    BY <1>3, LoadFacts, ReplayFacts, OpenFacts, RebuildFacts, StartFacts DEF RecoverStep
  <2> QED BY SMTT(30), <1>0, <2>1, <2>2, <2>3, <2>4 DEF Base, Booting, LogOnly
<1>4. CASE Crash \/ ShutdownReturns
  <2>1. phase' = "down" /\ kpc' = "exit" /\ walClosed' /\ UNCHANGED <<snap, stops>>
    BY <1>4, EndFacts
  <2>2. ASSUME FirstLife' PROVE FALSE
    <3>1. crashes' = 0 /\ stops = 0
      BY <2>1, <2>2 DEF FirstLife
    <3>2. phase \in {"stop", "final"}
      BY SMTT(30), <1>0, <1>4, <3>1, EndFacts
    <3> QED BY <3>1, <3>2 DEF Base, Booting
  <2> QED BY <1>0, <2>1, <2>2 DEF Base, Booting, LogOnly
<1> QED BY <1>1, <1>2, <1>3, <1>4, Kinds

-----------------------------------------------------------------------------
(* Without checkpoints the log has every task *)

Enq(t) == \E i \in DOMAIN wal : wal[i].type = "enqueue" /\ wal[i].task = t

Logged ==
    LogOnly =>
        /\ \A t \in Task : (\/ spc[t] \in {"route", "push", "enq", "acked"}
                            \/ Has(t) /\ spc[t] \notin {"marshal", "append", "rollback"}
                            \/ phase \in {"replay", "rebuild"} /\ state[t] # "absent") => Enq(t)
        /\ \A i \in DOMAIN wal : wal[i].type # "cancel" =>
             \E j \in DOMAIN wal : j <= i /\ wal[j].type = "enqueue" /\ wal[j].task = wal[i].task

\* Appending a record leaves the others in place.
LEMMA LogGrows ==
    ASSUME Types, [Next]_vars, ~(RunStep /\ kpc = "rename" /\ wal' = <<>>)
    PROVE  \A i \in DOMAIN wal : i \in DOMAIN wal' /\ wal'[i] = wal[i]
<1>1. CASE UNCHANGED wal
  BY <1>1
<1>2. ASSUME NEW type, NEW t, NEW st, NEW rc, Wrote(type, t, st, rc)
      PROVE  \A i \in DOMAIN wal : i \in DOMAIN wal' /\ wal'[i] = wal[i]
  BY <1>2 DEF Wrote
<1>3. CASE RunStep
  BY <1>1, <1>2, <1>3, WalMoves
<1>4. CASE RecoverStep \/ Crash \/ ShutdownReturns \/ UNCHANGED vars
  BY <1>1, <1>4, RecoverFrame, EndFacts DEF vars, disk
<1> QED BY <1>3, <1>4, Kinds

LEMMA RunLogged ==
    ASSUME Types, Types', Own, Own', BootQuiet, Waits, LogShape, Base, Logged, RunStep, [Next]_vars, LogOnly, LogOnly'
    PROVE  Logged'
<1>0. ~Booting /\ ~Booting' /\ kpc = "exit"
  BY RunStepAwake DEF Base
<1>1. \A i \in DOMAIN wal : i \in DOMAIN wal' /\ wal'[i] = wal[i]
  BY <1>0, LogGrows
<1>2. \A t \in Task : Enq(t) => Enq(t)'
  BY <1>1 DEF Enq
<1>3. ASSUME NEW t \in Task, SubmitStep(t), spc[t] = "append", spc'[t] = "route" PROVE Enq(t)'
  <2>1. Wrote("enqueue", t, sdata[t], 0)
    BY <1>3, SubmitFacts
  <2> QED BY <2>1 DEF Wrote, Enq
<1>4. ASSUME NEW t \in Task, spc'[t] \in {"route", "push", "enq", "acked"} PROVE Enq(t)'
  <2>1. CASE spc[t] \in {"route", "push", "enq", "acked"}
    BY <1>2, <2>1 DEF Logged
  <2>2. CASE spc[t] \notin {"route", "push", "enq", "acked"}
    <3>1. SubmitStep(t)
      BY <1>4, <2>2, SpcMoves, RegisterFacts
    <3>2. spc[t] = "append" /\ spc'[t] = "route"
      BY <1>4, <2>2, <3>1, SubmitFacts
    <3> QED BY <1>3, <3>1, <3>2
  <2> QED BY <2>1, <2>2
<1>5. ASSUME NEW t \in Task, Has(t)', spc'[t] \notin {"marshal", "append", "rollback"} PROVE Enq(t)'
  <2>1. CASE spc'[t] \in InFlight
    BY <1>4, <1>5, <2>1 DEF InFlight
  <2>2. CASE spc'[t] \notin InFlight /\ ~SubmitRegister(t)
    <3>1. Has(t)
      BY <1>5, <2>2, RunTakes
    <3>2. CASE spc[t] \in {"marshal", "append", "rollback"}
      <4>1. spc[t] = "rollback" /\ spc'[t] = "failed"
        <5>1. SubmitStep(t)
          BY <1>5, <2>2, <3>2, SpcMoves
        <5> QED BY <1>5, <2>2, <3>2, <5>1, SubmitFacts DEF InFlight
      <4> QED BY <1>5, <4>1, RolledBackIsFree
    <3>3. CASE spc[t] \notin {"marshal", "append", "rollback"}
      BY <1>2, <3>1, <3>3 DEF Logged
    <3> QED BY <3>2, <3>3
  <2>3. CASE spc'[t] \notin InFlight /\ SubmitRegister(t)
    <3>1. spc'[t] = "duplicate"
      BY <2>3, RegisterFacts DEF InFlight
    <3>2. t \in New'
      BY <3>1 DEF New
    <3> QED BY <1>5, <2>3, <3>2 DEF Own, UnknownInMemory, Has, Holds
  <2> QED BY <2>1, <2>2, <2>3
<1>6. ASSUME NEW i \in DOMAIN wal', wal'[i].type # "cancel"
      PROVE  \E j \in DOMAIN wal' : j <= i /\ wal'[j].type = "enqueue" /\ wal'[j].task = wal'[i].task
  <2>1. CASE i \in DOMAIN wal
    BY SMTT(30), <1>1, <1>6, <2>1 DEF Logged
  <2>2. ASSUME NEW type, NEW t \in Task, NEW st, NEW rc, Wrote(type, t, st, rc), type # "cancel",
               type = "enqueue" \/ Enq(t), i \notin DOMAIN wal
        PROVE  \E j \in DOMAIN wal' : j <= i /\ wal'[j].type = "enqueue" /\ wal'[j].task = wal'[i].task
    <3>1. i = Len(wal) + 1 /\ i \in Nat /\ wal'[i].task = t /\ wal'[i].type = type
      BY SMTT(30), <1>6, <2>2 DEF Wrote
    <3>2. \A j \in DOMAIN wal : j < i /\ j \in Nat
      BY <2>2, <3>1 DEF Wrote
    <3> QED BY SMTT(30), <1>1, <2>2, <3>1, <3>2 DEF Enq
  <2>3. ASSUME NEW w \in Worker, wtask[w] \in Task, wpc[w] \in Holding PROVE Enq(wtask[w])
    <3>1. Has(wtask[w]) /\ spc[wtask[w]] \notin InFlight
      BY <2>3, NoneAssumption DEF Has, Holds, Waits
    <3> QED BY <2>3, <3>1 DEF Logged, InFlight
  <2>4. ASSUME NEW w \in Worker, NEW type, NEW rc, wtask[w] \in Task, wpc[w] \in {"logstart", "log"},
               type \in {"start", "complete", "retry", "dead"}, Wrote(type, wtask[w], "none", rc), i \notin DOMAIN wal
        PROVE  \E j \in DOMAIN wal' : j <= i /\ wal'[j].type = "enqueue" /\ wal'[j].task = wal'[i].task
    <3>1. Enq(wtask[w]) /\ type # "cancel"
      BY <2>3, <2>4 DEF Holding
    <3> QED BY <2>2, <2>4, <3>1
  <2>5. ASSUME NEW t \in Task, Wrote("cancel", t, "none", 0) PROVE i \in DOMAIN wal
    BY <1>6, <2>5 DEF Wrote
  <2>6. CASE i \notin DOMAIN wal
    <3>1. wal' # wal /\ wal' # <<>>
      BY SMTT(30), <1>6, <2>6
    <3> QED BY <1>0, <2>2, <2>4, <2>5, <2>6, <3>1, WalMoves
  <2> QED BY <2>1, <2>6
<1> QED BY <1>0, <1>4, <1>5, <1>6 DEF Logged, Booting

LEMMA RecoverLogged ==
    ASSUME Types, Own, Base, Logged, RecoverStep, LogOnly, LogOnly'
    PROVE  Logged'
<1>0. UNCHANGED <<wal, spc, snap>> /\ snap = NoSnapshot
  BY RecoverFrame DEF Base
<1>1. \A t \in Task : Enq(t)' <=> Enq(t)
  BY <1>0 DEF Enq
<1>2. ASSUME NEW t \in Task, phase' \in {"replay", "rebuild"}, state'[t] # "absent" PROVE Enq(t)
  <2>1. CASE LoadSnapshot
    <3>1. state'[t] = "absent"
      BY <1>0, <2>1, LoadFacts DEF NoSnapshot
    <3> QED BY <1>2, <3>1
  <2>2. CASE ReplayEntry
    <3>1. phase = "replay" /\ rpos \in DOMAIN wal /\ ApplyEntry(wal[rpos])
      BY <2>2, ReplayFacts
    <3>2. CASE state[t] # "absent"
      BY <3>1, <3>2 DEF Logged
    <3>3. CASE state[t] = "absent"
      <4>1. wal[rpos].task = t /\ wal[rpos].type = "enqueue"
        BY <1>2, <3>1, <3>3 DEF ApplyEntry, registry, Types, RegistryTypes
      <4> QED BY <3>1, <4>1 DEF Enq
    <3> QED BY <3>2, <3>3
  <2>3. CASE OpenWAL \/ Start
    BY <1>2, <2>3, OpenFacts, StartFacts DEF Logged
  <2>4. ASSUME NEW u \in Task, RebuildTask(u) PROVE Enq(t)
    BY <1>2, <2>4, RebuildFacts DEF Logged
  <2> QED BY <2>1, <2>2, <2>3, <2>4 DEF RecoverStep
<1>3. ASSUME NEW t \in Task, Has(t)', spc'[t] \notin {"marshal", "append", "rollback"} PROVE Enq(t)
  BY <1>0, <1>3, RecoverTakes, RebuildFacts DEF Logged
<1> QED BY <1>0, <1>1, <1>2, <1>3 DEF Logged

LEMMA NextLogged ==
    Types /\ Types' /\ Own /\ Own' /\ Kept /\ Base /\ Logged /\ [Next]_vars => Logged'
<1> SUFFICES ASSUME Types, Types', Own, Own', Kept, Base, Logged, [Next]_vars, LogOnly' PROVE Logged'
  BY DEF Logged
<1>0. LogOnly
  BY RegimeMoves DEF Kept
<1>1. CASE UNCHANGED vars
  <2>1. UNCHANGED <<spc, buffer, heap, ready, cur, wpc, wtask, state, wal, phase>>
    BY <1>1 DEF vars, disk, registry, queues, clients, workers, scheduler, process
  <2>2. \A t \in Task : (Has(t)' <=> Has(t)) /\ (Enq(t)' <=> Enq(t))
    BY <2>1 DEF Has, Queued, Holds, Enq
  <2> QED BY <1>0, <2>1, <2>2 DEF Logged
<1>2. CASE RunStep
  BY <1>0, <1>2, RunLogged DEF Kept
<1>3. CASE RecoverStep
  BY <1>0, <1>3, RecoverLogged
<1>4. CASE Crash \/ ShutdownReturns
  <2>1. UNCHANGED wal /\ phase' = "down" /\ \A t \in Task : spc'[t] = IF spc[t] \in InFlight THEN "failed" ELSE spc[t]
    BY <1>4, EndFacts
  <2>2. \A t \in Task : ~Has(t)' /\ (Enq(t)' <=> Enq(t))
    BY <1>4, <2>1, EndTakes DEF Enq
  <2>3. \A t \in Task : spc'[t] \in {"route", "push", "enq", "acked"} => spc[t] = "acked"
    BY <2>1 DEF InFlight
  <2> QED BY <1>0, <2>1, <2>2, <2>3 DEF Logged
<1> QED BY <1>1, <1>2, <1>3, <1>4, Kinds

LEMMA LoggedRecovers == Types /\ LogShape /\ Base /\ Logged => (LogOnly => AckedRecoverable)
<1> SUFFICES ASSUME Types, LogShape, Base, Logged, LogOnly, NEW t \in Task, spc[t] = "acked" PROVE Recoverable(t)
  BY DEF AckedRecoverable
<1>1. PICK i \in DOMAIN wal : wal[i].type = "enqueue" /\ wal[i].task = t
  BY DEF Logged, Enq
<1>2. wal[i].seq > snap.seq
  BY SMTT(30) DEF LogShape, Base, NoSnapshot
<1> QED BY <1>1, <1>2 DEF Recoverable, EnqueueRecord

-----------------------------------------------------------------------------
(* Finished tasks *)

Unfinished == {"Pending", "Scheduled", "Running"}
Final(r) == r.type \in {"complete", "dead"}

\* The registry reflects the i-th record: it was written by this process, or
\* this process has replayed it.
Seen(i) == phase # "down" /\ (phase = "replay" => i < rpos)

Finished ==
    Regime =>
        /\ \A i \in DOMAIN wal : wal[i].type # "cancel" /\ Seen(i) => state[wal[i].task] # "absent"
        /\ \A t \in Task, i \in DOMAIN wal : Final(wal[i]) /\ wal[i].task = t => ~Has(t)
        /\ \A i \in DOMAIN wal : Final(wal[i]) /\ Seen(i) => state[wal[i].task] \notin Unfinished
        /\ \A i, j \in DOMAIN wal :
             i < j /\ Final(wal[i]) /\ wal[j].task = wal[i].task => wal[j].type = "cancel"
        /\ \A w \in Worker : wpc[w] = "log" /\ wres[w] \in {"complete", "dead"} => state[wtask[w]] \notin Unfinished

\* The i-th record of the log is new: whose it is, and what was true of its task.
Writer(i) ==
    \/ \E t \in Task : /\ wal'[i].task = t /\ wal'[i].type = "enqueue" /\ SubmitStep(t)
                       /\ spc[t] = "append" /\ spc'[t] = "route" /\ state[t] # "absent"
    \/ wal'[i].task \in Task /\ wal'[i].type = "cancel" /\ \E t \in Task : CancelStep(t)
    \/ \E w \in Worker : /\ wal'[i].task = wtask[w] /\ wal'[i].type = "start" /\ WorkerLogStart(w)
                         /\ wtask[w] \in Task /\ Holds(w, wtask[w]) /\ state[wtask[w]] # "absent"
    \/ \E w \in Worker : /\ wal'[i].task = wtask[w] /\ wal'[i].type = wres[w] /\ WorkerLog(w)
                         /\ wres[w] \in {"complete", "retry", "dead"} /\ wpc[w] = "log"
                         /\ wal'[i].rc = IF wres[w] = "retry" THEN retries[wtask[w]] ELSE 0
                         /\ wtask[w] \in Task /\ Holds(w, wtask[w]) /\ state[wtask[w]] # "absent"

LEMMA RunWrites ==
    ASSUME Types, Own, Waits, Known, RunStep, NEW i \in DOMAIN wal', i \notin DOMAIN wal
    PROVE  /\ \A j \in DOMAIN wal : j \in Nat /\ j < i /\ j \in DOMAIN wal' /\ wal'[j] = wal[j]
           /\ DOMAIN wal' = DOMAIN wal \cup {i} /\ i \in Nat
           /\ wal'[i].seq = walSeq + 1 /\ walSeq' = walSeq + 1 /\ ~walClosed
           /\ Writer(i)
<1> DEFINE P(t, type, rc) == /\ \A j \in DOMAIN wal : j \in Nat /\ j < i /\ j \in DOMAIN wal' /\ wal'[j] = wal[j]
                             /\ DOMAIN wal' = DOMAIN wal \cup {i} /\ i \in Nat
                             /\ wal'[i].seq = walSeq + 1 /\ walSeq' = walSeq + 1 /\ ~walClosed
                             /\ wal'[i].task = t /\ wal'[i].type = type /\ wal'[i].rc = rc
<1>1. ASSUME NEW type, NEW t, NEW st, NEW rc, Wrote(type, t, st, rc) PROVE P(t, type, rc)
  <2>1. i = Len(wal) + 1
    BY <1>1 DEF Wrote
  <2> QED BY SMTT(30), <1>1, <2>1 DEF Wrote
<1>2. ASSUME NEW w \in Worker, wtask[w] \in Task, wpc[w] \in Holding
      PROVE  Holds(w, wtask[w]) /\ state[wtask[w]] # "absent"
  BY <1>2 DEF Holds, Known, Has
<1>3. ASSUME NEW t \in Task, spc[t] = "append" PROVE state[t] # "absent"
  BY <1>3 DEF Known, Has, InFlight
<1>4. wal' # wal /\ wal' # <<>>
  BY SMTT(30)
<1> HIDE DEF P
<1>5. \/ \E t \in Task : SubmitStep(t) /\ spc[t] = "append" /\ spc'[t] = "route" /\ P(t, "enqueue", 0)
      \/ \E t \in Task : CancelStep(t) /\ P(t, "cancel", 0)
      \/ \E w \in Worker : WorkerLogStart(w) /\ wtask[w] \in Task /\ wpc[w] = "logstart" /\ P(wtask[w], "start", 0)
      \/ \E w \in Worker : /\ WorkerLog(w) /\ wtask[w] \in Task /\ wpc[w] = "log" /\ wres[w] \in {"complete", "retry", "dead"}
                           /\ P(wtask[w], wres[w], IF wres[w] = "retry" THEN retries[wtask[w]] ELSE 0)
  BY <1>1, <1>4, WalMoves
<1>6. ASSUME NEW t \in Task, SubmitStep(t), spc[t] = "append", spc'[t] = "route", P(t, "enqueue", 0)
      PROVE  state[t] # "absent"
  BY <1>3, <1>6
<1>7. ASSUME NEW w \in Worker, wtask[w] \in Task, wpc[w] \in {"logstart", "log"}
      PROVE  Holds(w, wtask[w]) /\ state[wtask[w]] # "absent"
  BY <1>2, <1>7 DEF Holding
<1> QED BY <1>5, <1>6, <1>7 DEF P, Writer

\* A worker that has logged a final outcome has let go of the task.
LEMMA FinalLetsGo ==
    ASSUME Types, Own, NEW w \in Worker, WorkerLog(w), wres[w] # "retry", NEW t, wtask[w] = t
    PROVE  ~Has(t)'
<1>1. wtask[w] \in Task /\ wpc[w] = "log" /\ wpc'[w] = "post" /\ UNCHANGED <<buffer, heap>>
  BY WorkerLogFacts
<1>2. UNCHANGED <<spc, ready, cur>> /\ \A v \in Worker \ {w} : wpc'[v] = wpc[v] /\ wtask'[v] = wtask[v]
  BY WorkerFrame DEF WorkerStep
<1>3. Holds(w, t)
  BY <1>1 DEF Holds, Holding
<1>4. spc[t] \notin InFlight /\ ~Queued(t) /\ \A v \in Worker \ {w} : ~Holds(v, t)
  BY <1>1, <1>3 DEF Own, Exclusive
<1>5. UNCHANGED wtask
  BY WorkerLogFacts
<1> QED BY <1>1, <1>2, <1>4, <1>5 DEF Has, Queued, Holds, Holding

\* The log keeps its records, gets one more, or is rotated.
LEMMA OldRecords ==
    ASSUME Types, Own, Waits, Known, RunStep, NEW i \in DOMAIN wal', i \in DOMAIN wal
    PROVE  wal'[i] = wal[i] /\ wal'[i].task \in Task /\ wal' # <<>>
<1>1. wal' # <<>> /\ wal[i].task \in Task
  BY SMTT(30), RecordTypes
<1>2. CASE wal' = wal
  BY <1>1, <1>2
<1>3. ASSUME NEW type, NEW t, NEW st, NEW rc, Wrote(type, t, st, rc) PROVE wal'[i] = wal[i]
  BY <1>3 DEF Wrote
<1> QED BY <1>1, <1>2, <1>3, WalMoves

\* A running process sets the state of a task that nobody has only to a final
\* one.
LEMMA FreeState ==
    ASSUME Types, Own, RunStep, NEW t \in Task, t \notin New, ~Has(t), state'[t] # state[t]
    PROVE  state'[t] \notin Unfinished \cup {"absent"}
<1>1. spc[t] \notin InFlight /\ ~Queued(t) /\ \A w \in Worker : ~Holds(w, t)
  BY DEF Has
<1>2. ~SubmitRegister(t) /\ spc[t] # "rollback"
  BY <1>1, RegisterFacts DEF InFlight
<1> QED BY <1>1, <1>2, StateMoves DEF Unfinished

LEMMA RunFinished ==
    ASSUME Types, Types', Own, Own', Kept, Base, Known, Finished, RunStep, [Next]_vars, Regime, Regime'
    PROVE  Finished'
<1>0. ~Booting /\ ~Booting' /\ Waits /\ LogShape /\ Snapshots
  BY RunStepAwake DEF Kept
<1>1. /\ \A i \in DOMAIN wal : wal[i].type # "cancel" => state[wal[i].task] # "absent"
      /\ \A t \in Task, i \in DOMAIN wal : Final(wal[i]) /\ wal[i].task = t => ~Has(t) /\ state[t] \notin Unfinished
      /\ \A i, j \in DOMAIN wal : i < j /\ Final(wal[i]) /\ wal[j].task = wal[i].task => wal[j].type = "cancel"
      /\ \A w \in Worker : wpc[w] = "log" /\ wres[w] \in {"complete", "dead"} => state[wtask[w]] \notin Unfinished
  BY <1>0 DEF Finished, Seen, Booting
<1>2. \A i \in DOMAIN wal' : i \in DOMAIN wal => wal'[i] = wal[i] /\ wal'[i].task \in Task
  BY <1>0, OldRecords
<1>3. ASSUME NEW i \in DOMAIN wal', wal'[i].type # "cancel" PROVE state'[wal'[i].task] # "absent"
  <2>1. CASE i \in DOMAIN wal
    <3>1. spc[wal[i].task] \in Placed /\ state[wal[i].task] # "absent"
      BY <1>0, <1>1, <1>2, <1>3, <2>1 DEF LogShape
    <3>2. spc[wal[i].task] # "rollback"
      BY <3>1 DEF Placed
    <3> QED BY <1>2, <2>1, <3>1, <3>2, StateMoves
  <2>2. CASE i \notin DOMAIN wal
    <3>1. ASSUME NEW t \in Task, SubmitStep(t), spc[t] = "append", state[t] # "absent" PROVE state'[t] # "absent"
      BY <3>1, SubmitFacts
    <3>2. ASSUME NEW w \in Worker, WorkerLogStart(w) \/ WorkerLog(w) PROVE state' = state
      BY <3>2, WorkerLogStartFacts, WorkerLogFacts
    <3>3. Writer(i)
      BY <1>0, <2>2, RunWrites
    <3> QED BY <1>3, <3>1, <3>2, <3>3 DEF Writer
  <2> QED BY <2>1, <2>2
<1>4. ASSUME NEW t \in Task, NEW i \in DOMAIN wal', Final(wal'[i]), wal'[i].task = t PROVE ~Has(t)' /\ state'[t] \notin Unfinished
  <2>1. CASE i \in DOMAIN wal
    <3>1. ~Has(t) /\ state[t] \notin Unfinished /\ t \notin New
      <4>1. i \in DOMAIN wal /\ wal[i] \in Range(wal)
        BY <2>1 DEF Range
      <4>2. wal[i].task = t /\ Final(wal[i])
        BY <1>2, <1>4, <2>1
      <4> QED BY <1>1, <4>1, <4>2 DEF Own, UnknownOnDisk
    <3>2. ~Has(t)'
      BY <3>1, RunTakes, RegisterFacts
    <3>3. state'[t] \notin Unfinished
      BY <3>1, FreeState
    <3> QED BY <3>2, <3>3
  <2>2. CASE i \notin DOMAIN wal
    <3>1. PICK w \in Worker : /\ wal'[i].task = wtask[w] /\ wal'[i].type = wres[w] /\ WorkerLog(w) /\ wpc[w] = "log"
      BY <1>0, <1>4, <2>2, RunWrites DEF Final, Writer
    <3>2. wres[w] \in {"complete", "dead"} /\ wtask[w] = t
      BY <1>4, <3>1 DEF Final
    <3>3. state' = state
      BY <3>1, WorkerLogFacts
    <3>4. ~Has(t)'
      BY <3>1, <3>2, FinalLetsGo
    <3> QED BY <1>1, <3>1, <3>2, <3>3, <3>4
  <2> QED BY <2>1, <2>2
<1>5. ASSUME NEW i \in DOMAIN wal', NEW j \in DOMAIN wal', i < j, Final(wal'[i]), wal'[j].task = wal'[i].task
      PROVE  wal'[j].type = "cancel"
  <2>1. CASE i \in DOMAIN wal /\ j \in DOMAIN wal
    BY <1>1, <1>2, <1>5, <2>1
  <2>2. CASE j \notin DOMAIN wal
    <3>1. i \in DOMAIN wal
      <4>1. DOMAIN wal' = DOMAIN wal \cup {j} /\ j \in Nat
        BY <1>0, <2>2, RunWrites
      <4> QED BY SMTT(30), <1>5, <4>1
    <3>2. PICK t \in Task : t = wal[i].task /\ t = wal'[j].task
      BY <1>2, <1>5, <3>1
    <3>3. wal[i].type # "cancel" /\ ~Has(t) /\ spc[t] \in Placed
      BY <1>0, <1>1, <1>2, <1>5, <3>1, <3>2 DEF Final, LogShape
    <3>4. spc[t] # "append" /\ \A w \in Worker : ~Holds(w, t)
      BY <3>3 DEF Has, Placed
    <3>5. Writer(j)
      BY <1>0, <2>2, RunWrites
    <3> QED BY <3>2, <3>4, <3>5 DEF Writer
  <2>3. CASE i \notin DOMAIN wal /\ j \in DOMAIN wal
    <3>1. j \in Nat /\ j < i /\ i \in Nat
      BY <1>0, <2>3, RunWrites
    <3> QED BY SMTT(30), <1>5, <3>1
  <2> QED BY <2>1, <2>2, <2>3
<1>6. ASSUME NEW w \in Worker, wpc'[w] = "log", wres'[w] \in {"complete", "dead"} PROVE state'[wtask'[w]] \notin Unfinished
  <2>1. CASE WorkerSettle(w)
    BY <1>6, <2>1, WorkerSettleFacts DEF Unfinished
  <2>2. CASE wpc[w] = "log" /\ wres'[w] = wres[w] /\ wtask'[w] = wtask[w]
    <3>1. wtask[w] \in Task /\ Holds(w, wtask[w]) /\ wtask[w] \notin New /\ state[wtask[w]] \notin Unfinished
      BY <1>1, <1>6, <2>2, PlaceTypes DEF Holds, Holding, Own, UnknownInMemory
    <3>2. ~Queued(wtask[w]) /\ \A v \in Worker : Holds(v, wtask[w]) => wpc[v] = "log"
      BY <2>2, <3>1 DEF Own, Exclusive
    <3>3. ~SubmitRegister(wtask[w])
      BY <3>1, RegisterFacts
    <3>4. state'[wtask[w]] \notin Unfinished
      BY <3>1, <3>2, <3>3, StateMoves DEF Unfinished
    <3> QED BY <2>2, <3>4
  <2> QED BY <1>6, <2>1, <2>2, AtLog
<1>7. \A i \in DOMAIN wal' : wal'[i].task \in Task
  BY LaterRecordTypes
<1> QED BY <1>3, <1>4, <1>5, <1>6, <1>7 DEF Finished, Final

\* While a process recovers in one of the regimes there is no snapshot.
LEMMA NothingLoaded == ASSUME Base, Regime, Booting PROVE snap = NoSnapshot /\ snap.seq = 0
BY SMTT(30) DEF Base, Regime, NoSnapshot

\* In the first process there is nothing to recover.
LEMMA NothingLogged == ASSUME Types, Own, Base, FirstLife, Booting PROVE wal = <<>>
<1>1. New = Task
  BY DEF Base, New
<1>2. \A i \in DOMAIN wal : wal[i].task \in Task /\ wal[i] \in Range(wal)
  BY RecordTypes DEF Range
<1>3. DOMAIN wal = {}
  BY <1>1, <1>2 DEF Own, UnknownOnDisk
<1>4. wal \in Seq(Record)
  BY DEF Types, DiskTypes
<1> QED BY SMTT(30), <1>3, <1>4

\* Replay skips a record only if it cancels a task that is not in the registry.
LEMMA ReplayApplies ==
    ASSUME Types, Own, Kept, Base, Logged, Finished, Regime, ReplayEntry, wal[rpos].type # "cancel"
    PROVE  /\ wal[rpos].type # "enqueue" => state[wal[rpos].task] # "absent"
           /\ state' = [state EXCEPT ![wal[rpos].task] = StateAfter(wal[rpos])]
           /\ retries' = IF wal[rpos].type \in {"enqueue", "retry"} THEN [retries EXCEPT ![wal[rpos].task] = wal[rpos].rc] ELSE retries
           /\ idemp' = IF wal[rpos].type = "enqueue" /\ KeyOf[wal[rpos].task] # None
                       THEN [idemp EXCEPT ![KeyOf[wal[rpos].task]] = wal[rpos].task] ELSE idemp
           /\ dlq' = DLQAfter(wal[rpos])
<1> DEFINE r == wal[rpos]
<1>1. phase = "replay" /\ Booting /\ rpos \in DOMAIN wal /\ ApplyEntry(r)
  BY ReplayFacts DEF Booting
<1>2. ~(r.seq <= snap.seq)
  BY SMTT(30), <1>1, NothingLoaded, RecordTypes DEF Kept, LogShape
<1>3. ASSUME r.type # "enqueue" PROVE state[r.task] # "absent"
  <2>1. LogOnly
    <3>1. DOMAIN <<>> = {}
      BY SMTT(30)
    <3> QED BY <1>1, <3>1, NothingLogged DEF Regime
  <2>2. PICK j \in DOMAIN wal : j <= rpos /\ wal[j].type = "enqueue" /\ wal[j].task = r.task
    BY <1>1, <2>1 DEF Logged
  <2>3. j < rpos
    BY SMTT(30), <1>1, <1>3, <2>2, RecordTypes
  <2> QED BY <1>1, <2>2, <2>3 DEF Finished, Seen
<1> QED BY <1>1, <1>2, <1>3 DEF ApplyEntry

LEMMA ReplayFinished ==
    ASSUME Types, Own, Kept, Base, Logged, Finished, ReplayEntry, Regime
    PROVE  /\ \A i \in DOMAIN wal : wal[i].type # "cancel" /\ i < rpos' => state'[wal[i].task] # "absent"
           /\ \A i \in DOMAIN wal : Final(wal[i]) /\ i < rpos' => state'[wal[i].task] \notin Unfinished
<1> DEFINE r == wal[rpos]
<1>1. /\ phase = "replay" /\ rpos \in DOMAIN wal /\ rpos' = rpos + 1 /\ ApplyEntry(r)
      /\ state \in [Task -> TaskState \cup {"absent"}] /\ r.task \in Task /\ r.type \in RecordType /\ rpos \in Nat
  BY ReplayFacts, RecordTypes DEF Types, RegistryTypes
<1>2. \A i \in DOMAIN wal : i < rpos' => i < rpos \/ i = rpos
  BY SMTT(30), <1>1, RecordTypes
<1>3. \A i \in DOMAIN wal : i < rpos => Seen(i)
  BY <1>1 DEF Seen
<1>4. state' = state \/ state' = [state EXCEPT ![r.task] = StateAfter(r)]
  BY <1>1 DEF ApplyEntry, registry
<1>5. r.type = "enqueue" => r.st \in Waiting
  BY <1>1 DEF Kept, LogShape
<1>6. StateAfter(r) # "absent" /\ (r.type = "cancel" => StateAfter(r) = "Cancelled")
      /\ (Final(r) => StateAfter(r) \in {"Completed", "Dead"})
  BY <1>1, <1>5 DEF StateAfter, RecordType, Waiting, Final
<1>7. r.type # "cancel" => state' = [state EXCEPT ![r.task] = StateAfter(r)]
  BY ReplayApplies
<1> HIDE DEF r
<1>8. ASSUME NEW i \in DOMAIN wal, wal[i].type # "cancel", i < rpos' PROVE state'[wal[i].task] # "absent"
  <2>1. CASE i < rpos
    <3>1. state[wal[i].task] # "absent" /\ wal[i].task \in Task
      BY <1>3, <1>8, <2>1, RecordTypes DEF Finished
    <3> QED BY <1>1, <1>4, <1>6, <3>1
  <2>2. CASE i = rpos
    BY <1>1, <1>6, <1>7, <1>8, <2>2 DEF r
  <2> QED BY <1>2, <1>8, <2>1, <2>2
<1>9. ASSUME NEW i \in DOMAIN wal, Final(wal[i]), i < rpos' PROVE state'[wal[i].task] \notin Unfinished
  <2>1. CASE i < rpos
    <3>1. state[wal[i].task] \notin Unfinished /\ wal[i].task \in Task
      BY <1>3, <1>9, <2>1, RecordTypes DEF Finished
    <3>2. r.task = wal[i].task => r.type = "cancel"
      BY <1>1, <1>9, <2>1 DEF Finished, r
    <3> QED BY <1>1, <1>4, <1>6, <3>1, <3>2 DEF Unfinished
  <2>2. CASE i = rpos
    <3>1. Final(r) /\ r.type # "cancel" /\ r = wal[i]
      BY <1>9, <2>2 DEF Final, r
    <3> QED BY <1>1, <1>6, <1>7, <3>1 DEF Unfinished
  <2> QED BY <1>2, <1>9, <2>1, <2>2
<1> QED BY <1>8, <1>9

LEMMA RecoverFinished ==
    ASSUME Types, Own, Kept, Base, Logged, Finished, RecoverStep, Regime, Regime'
    PROVE  Finished'
<1>0. UNCHANGED <<wal, wtask, wres>> /\ Booting /\ \A w \in Worker : wpc[w] = "exit"
  BY RecoverFrame DEF Own, BootAlone
<1>1. \A w \in Worker : wpc'[w] # "log"
  BY <1>0, LoadFacts, ReplayFacts, OpenFacts, RebuildFacts, StartFacts DEF RecoverStep
<1>2. ASSUME NEW t \in Task, NEW i \in DOMAIN wal, Final(wal[i]), wal[i].task = t PROVE ~Has(t)'
  <2>1. ~Has(t)
    BY <1>2 DEF Finished
  <2>2. ASSUME RebuildTask(t) PROVE state[t] \notin Unfinished
    <3>1. Seen(i)
      BY <2>2, RebuildFacts DEF Seen
    <3> QED BY <1>2, <3>1 DEF Finished
  <2> QED BY <2>1, <2>2, RecoverTakes DEF Unfinished
<1>3. /\ \A i \in DOMAIN wal : wal[i].type # "cancel" /\ Seen(i)' => state'[wal[i].task] # "absent"
      /\ \A i \in DOMAIN wal : Final(wal[i]) /\ Seen(i)' => state'[wal[i].task] \notin Unfinished
  <2>1. CASE LoadSnapshot
    <3>1. \A i \in DOMAIN wal : ~(i < 1)
      BY SMTT(30) DEF Types, DiskTypes
    <3> QED BY <2>1, <3>1, LoadFacts DEF Seen
  <2>2. CASE ReplayEntry
    BY <2>2, ReplayFacts, ReplayFinished DEF Seen
  <2>3. CASE OpenWAL
    <3>1. \A i \in DOMAIN wal : Seen(i)
      <4>1. \A i \in DOMAIN wal : i < Len(wal) + 1
        BY SMTT(30) DEF Types, DiskTypes
      <4> QED BY <2>3, <4>1, OpenFacts DEF Seen
    <3> QED BY <2>3, <3>1, OpenFacts DEF Finished
  <2>4. ASSUME NEW t \in Task, RebuildTask(t)
        PROVE  /\ \A i \in DOMAIN wal : wal[i].type # "cancel" => state'[wal[i].task] # "absent"
               /\ \A i \in DOMAIN wal : Final(wal[i]) => state'[wal[i].task] \notin Unfinished
    <3>1. \A i \in DOMAIN wal : Seen(i) /\ wal[i].task \in Task
      BY <2>4, RebuildFacts, RecordTypes DEF Seen
    <3>2. \A u \in Task : state'[u] = state[u] \/ (state[u] \in Unfinished /\ state'[u] = "Pending")
      BY <2>4, RebuildFacts DEF Unfinished
    <3> QED BY <3>1, <3>2 DEF Finished
  <2>5. CASE Start
    <3>1. \A i \in DOMAIN wal : Seen(i)
      BY <2>5, StartFacts DEF Seen
    <3> QED BY <2>5, <3>1, StartFacts DEF Finished
  <2> QED BY <2>1, <2>2, <2>3, <2>4, <2>5 DEF RecoverStep
<1> QED BY <1>0, <1>1, <1>2, <1>3 DEF Finished, Final

LEMMA NextFinished ==
    Types /\ Types' /\ Own /\ Own' /\ Kept /\ Base /\ Known /\ Logged /\ Finished /\ [Next]_vars => Finished'
<1> SUFFICES ASSUME Types, Types', Own, Own', Kept, Base, Known, Logged, Finished, [Next]_vars, Regime' PROVE Finished'
  BY DEF Finished
<1>0. Regime
  BY RegimeMoves DEF Kept
<1>1. CASE UNCHANGED vars
  <2>1. UNCHANGED <<spc, buffer, heap, ready, cur, wpc, wtask, wres, state, wal, phase, rpos>>
    BY <1>1 DEF vars, disk, registry, queues, clients, workers, scheduler, process
  <2>2. \A t \in Task : Has(t)' <=> Has(t)
    BY <2>1 DEF Has, Queued, Holds
  <2>3. \A i : Seen(i)' <=> Seen(i)
    BY <2>1 DEF Seen
  <2> QED BY <1>0, <2>1, <2>2, <2>3 DEF Finished, Final
<1>2. CASE RunStep
  BY <1>0, <1>2, RunFinished
<1>3. CASE RecoverStep
  BY <1>0, <1>3, RecoverFinished
<1>4. CASE Crash \/ ShutdownReturns
  <2>1. UNCHANGED wal /\ phase' = "down" /\ \A w \in Worker : wpc'[w] = "exit"
    BY <1>4, EndFacts
  <2>2. \A t \in Task : ~Has(t)'
    BY <1>4, EndTakes
  <2> QED BY <1>0, <2>1, <2>2 DEF Finished, Seen, Final
<1> QED BY <1>1, <1>2, <1>3, <1>4, Kinds

-----------------------------------------------------------------------------
(* Retry counts *)

Retrying(w) == wpc[w] = "log" /\ wres[w] = "retry"

Retries ==
    Regime =>
        /\ \A i \in DOMAIN wal : wal[i].type = "retry" /\ Seen(i) => wal[i].rc <= retries[wal[i].task]
        /\ \A i \in DOMAIN wal : wal[i].type = "retry" => wal[i].rc <= MaxRetries
        /\ \A i, j \in DOMAIN wal :
             i < j /\ wal[i].type = "retry" /\ wal[j].type = "retry" /\ wal[i].task = wal[j].task => wal[i].rc < wal[j].rc
        /\ \A w \in Worker : Retrying(w) => retries[wtask[w]] <= MaxRetries
        /\ \A w \in Worker, i \in DOMAIN wal :
             Retrying(w) /\ wal[i].type = "retry" /\ wal[i].task = wtask[w] => wal[i].rc < retries[wtask[w]]

LEMMA RunRetries ==
    ASSUME Types, Types', Own, Kept, Known, Retries, RunStep, Regime, Regime'
    PROVE  Retries'
<1>0. ~Booting /\ ~Booting' /\ Waits /\ retries \in [Task -> Nat] /\ retries' \in [Task -> Nat] /\ MaxRetries \in Nat
  BY RunStepAwake, NumbersAssumption DEF Kept, Types, RegistryTypes
<1>1. /\ \A i \in DOMAIN wal : wal[i].type = "retry" => wal[i].rc <= retries[wal[i].task] /\ wal[i].rc <= MaxRetries
      /\ \A i, j \in DOMAIN wal :
           i < j /\ wal[i].type = "retry" /\ wal[j].type = "retry" /\ wal[i].task = wal[j].task => wal[i].rc < wal[j].rc
      /\ \A w \in Worker : Retrying(w) => retries[wtask[w]] <= MaxRetries
      /\ \A w \in Worker, i \in DOMAIN wal :
           Retrying(w) /\ wal[i].type = "retry" /\ wal[i].task = wtask[w] => wal[i].rc < retries[wtask[w]]
  BY <1>0 DEF Retries, Seen, Booting
<1>2. \A i \in DOMAIN wal' : i \in DOMAIN wal => wal'[i] = wal[i] /\ wal'[i].task \in Task /\ wal[i].rc \in Nat
  BY <1>0, OldRecords, RecordTypes
<1>3. \A t \in Task : retries'[t] >= retries[t] /\ retries[t] \in Nat
  BY SMTT(30), <1>0, RetriesMoves
<1>4. ASSUME NEW i \in DOMAIN wal', i \notin DOMAIN wal, wal'[i].type = "retry"
      PROVE  \E w \in Worker : /\ Retrying(w) /\ wal'[i].task = wtask[w] /\ wtask[w] \in Task /\ Holds(w, wtask[w])
                               /\ wal'[i].rc = retries[wtask[w]] /\ WorkerStep(w) /\ retries' = retries
  <2>1. Writer(i)
    BY <1>0, <1>4, RunWrites
  <2>2. PICK w \in Worker : /\ wal'[i].task = wtask[w] /\ wal'[i].type = wres[w] /\ WorkerLog(w)
                            /\ wpc[w] = "log" /\ wtask[w] \in Task /\ Holds(w, wtask[w])
                            /\ wal'[i].rc = IF wres[w] = "retry" THEN retries[wtask[w]] ELSE 0
    BY <1>4, <2>1 DEF Writer
  <2>3. retries' = retries
    BY <2>2, WorkerLogFacts
  <2> QED BY <1>4, <2>2, <2>3 DEF Retrying, WorkerStep
<1>5. ASSUME NEW i \in DOMAIN wal', wal'[i].type = "retry"
      PROVE  wal'[i].rc <= retries'[wal'[i].task] /\ wal'[i].rc <= MaxRetries
  <2>1. CASE i \in DOMAIN wal
    BY SMTT(30), <1>1, <1>2, <1>3, <1>5, <2>1, <1>0
  <2>2. CASE i \notin DOMAIN wal
    BY SMTT(30), <1>0, <1>1, <1>4, <1>5, <2>2
  <2> QED BY <2>1, <2>2
<1>6. ASSUME NEW i \in DOMAIN wal', NEW j \in DOMAIN wal', i < j, wal'[i].type = "retry", wal'[j].type = "retry",
             wal'[i].task = wal'[j].task
      PROVE  wal'[i].rc < wal'[j].rc
  <2>1. CASE i \in DOMAIN wal /\ j \in DOMAIN wal
    BY <1>1, <1>2, <1>6, <2>1
  <2>2. CASE j \notin DOMAIN wal
    <3>1. DOMAIN wal' = DOMAIN wal \cup {j} /\ j \in Nat
      BY <1>0, <2>2, RunWrites
    <3>2. i \in DOMAIN wal
      BY SMTT(30), <1>6, <3>1
    <3> QED BY SMTT(30), <1>1, <1>2, <1>4, <1>6, <2>2, <3>2
  <2>3. CASE i \notin DOMAIN wal /\ j \in DOMAIN wal
    <3>1. j \in Nat /\ j < i /\ i \in Nat
      BY <1>0, <2>3, RunWrites
    <3> QED BY SMTT(30), <1>6, <3>1
  <2> QED BY <2>1, <2>2, <2>3
<1>7. ASSUME NEW w \in Worker, Retrying(w)'
      PROVE  /\ retries'[wtask'[w]] <= MaxRetries
             /\ \A i \in DOMAIN wal' : wal'[i].type = "retry" /\ wal'[i].task = wtask'[w] => wal'[i].rc < retries'[wtask'[w]]
  <2>1. CASE WorkerSettle(w)
    <3>1. /\ UNCHANGED <<wal, wtask>> /\ wtask[w] \in Task
          /\ retries'[wtask[w]] = retries[wtask[w]] + 1 /\ retries[wtask[w]] + 1 <= MaxRetries
      BY <1>7, <2>1, WorkerSettleFacts DEF Retrying
    <3> QED BY SMTT(30), <1>1, <1>2, <1>3, <3>1
  <2>2. CASE ~WorkerStep(w) /\ wpc[w] = "log" /\ wres'[w] = wres[w] /\ wtask'[w] = wtask[w]
    <3>1. Retrying(w) /\ wtask[w] \in Task /\ Holds(w, wtask[w])
      BY <1>7, <2>2, PlaceTypes DEF Retrying, Holds, Holding
    <3>2. \A v \in Worker : Holds(v, wtask[w]) => v = w
      BY <3>1 DEF Own, Exclusive
    <3>3. retries'[wtask[w]] = retries[wtask[w]]
      BY <2>2, <3>1, <3>2, RetriesMoves
    <3>4. ASSUME NEW i \in DOMAIN wal', wal'[i].type = "retry", wal'[i].task = wtask[w] PROVE wal'[i].rc < retries[wtask[w]]
      <4>1. i \in DOMAIN wal
        BY <1>4, <2>2, <3>2, <3>4
      <4> QED BY <1>1, <1>2, <3>1, <3>4, <4>1
    <3> QED BY <1>1, <2>2, <3>1, <3>3, <3>4
  <2> QED BY <1>7, <2>1, <2>2, AtLog DEF Retrying
<1> QED BY <1>5, <1>6, <1>7 DEF Retries

LEMMA ReplayRetries ==
    ASSUME Types, Own, Kept, Base, Logged, Finished, Retries, ReplayEntry, Regime, NEW i \in DOMAIN wal,
           wal[i].type = "retry", i < rpos'
    PROVE  wal[i].rc <= retries'[wal[i].task]
<1> DEFINE r == wal[rpos]
<1>1. /\ phase = "replay" /\ rpos \in DOMAIN wal /\ rpos' = rpos + 1 /\ ApplyEntry(r)
      /\ retries \in [Task -> Nat] /\ r.task \in Task /\ r.rc \in Nat /\ rpos \in Nat
  BY ReplayFacts, RecordTypes DEF Types, RegistryTypes
<1>2. wal[i].task \in Task /\ wal[i].rc \in Nat /\ i \in Nat
  BY RecordTypes
<1>3. CASE i = rpos
  <2>1. retries' = [retries EXCEPT ![r.task] = r.rc]
    BY <1>3, ReplayApplies
  <2> QED BY SMTT(30), <1>1, <1>3, <2>1
<1>4. CASE i < rpos
  <2>1. wal[i].rc <= retries[wal[i].task]
    BY <1>1, <1>4 DEF Retries, Seen
  <2>2. CASE r.type = "enqueue" \/ r.type = "retry"
    <3>1. retries' = [retries EXCEPT ![r.task] = r.rc]
      BY <2>2, ReplayApplies
    <3>2. r.task = wal[i].task => r.type = "retry" /\ wal[i].rc < r.rc
      BY <1>1, <1>4, <2>2 DEF Kept, LogShape, Retries
    <3> QED BY SMTT(30), <1>1, <1>2, <2>1, <3>1, <3>2
  <2>3. CASE ~(r.type = "enqueue" \/ r.type = "retry")
    <3>1. retries' = retries
      BY <1>1, <2>3 DEF ApplyEntry, registry
    <3> QED BY <2>1, <3>1
  <2> QED BY <2>2, <2>3
<1> QED BY SMTT(30), <1>1, <1>2, <1>3, <1>4

LEMMA RecoverRetries ==
    ASSUME Types, Own, Kept, Base, Logged, Finished, Retries, RecoverStep, Regime
    PROVE  Retries'
<1>0. UNCHANGED <<wal, wtask, wres>> /\ Booting /\ (\A w \in Worker : wpc[w] = "exit") /\ retries \in [Task -> Nat]
  BY RecoverFrame DEF Own, BootAlone, Types, RegistryTypes
<1>1. \A w \in Worker : wpc'[w] # "log"
  BY <1>0, LoadFacts, ReplayFacts, OpenFacts, RebuildFacts, StartFacts DEF RecoverStep
<1>2. \A i \in DOMAIN wal : i \in Nat /\ i >= 1 /\ i < Len(wal) + 1 /\ wal[i].task \in Task /\ wal[i].rc \in Nat
  BY SMTT(30), RecordTypes DEF Types, DiskTypes
<1>3. ASSUME NEW i \in DOMAIN wal, wal[i].type = "retry", Seen(i)' PROVE wal[i].rc <= retries'[wal[i].task]
  <2>1. CASE LoadSnapshot
    BY SMTT(30), <1>2, <1>3, <2>1, LoadFacts DEF Seen
  <2>2. CASE ReplayEntry
    BY <1>3, <2>2, ReplayFacts, ReplayRetries DEF Seen
  <2>3. CASE OpenWAL \/ Start
    <3>1. Seen(i) /\ retries' = retries
      BY <1>2, <2>3, OpenFacts, StartFacts DEF Seen
    <3> QED BY <1>3, <3>1 DEF Retries
  <2>4. ASSUME NEW t \in Task, RebuildTask(t) PROVE wal[i].rc <= retries'[wal[i].task]
    <3>1. Seen(i) /\ \A u \in Task : retries'[u] \in {retries[u], retries[u] + 1}
      BY <2>4, RebuildFacts DEF Seen
    <3>2. wal[i].rc <= retries[wal[i].task]
      BY <1>3, <3>1 DEF Retries
    <3> QED BY SMTT(30), <1>0, <1>2, <3>1, <3>2
  <2> QED BY <2>1, <2>2, <2>3, <2>4 DEF RecoverStep
<1> QED BY <1>0, <1>1, <1>3 DEF Retries, Retrying

LEMMA NextRetries ==
    Types /\ Types' /\ Own /\ Kept /\ Base /\ Known /\ Logged /\ Finished /\ Retries /\ [Next]_vars => Retries'
<1> SUFFICES ASSUME Types, Types', Own, Kept, Base, Known, Logged, Finished, Retries, [Next]_vars, Regime' PROVE Retries'
  BY DEF Retries
<1>0. Regime
  BY RegimeMoves DEF Kept
<1>1. CASE UNCHANGED vars
  <2>1. UNCHANGED <<wpc, wtask, wres, retries, wal, phase, rpos>>
    BY <1>1 DEF vars, disk, registry, workers, process
  <2> QED BY <1>0, <2>1 DEF Retries, Retrying, Seen
<1>2. CASE RunStep
  BY <1>0, <1>2, RunRetries
<1>3. CASE RecoverStep
  BY <1>0, <1>3, RecoverRetries
<1>4. CASE Crash \/ ShutdownReturns
  <2>1. UNCHANGED wal /\ phase' = "down" /\ \A w \in Worker : wpc'[w] = "exit"
    BY <1>4, EndFacts
  <2> QED BY <1>0, <2>1 DEF Retries, Retrying, Seen
<1> QED BY <1>1, <1>2, <1>3, <1>4, Kinds

-----------------------------------------------------------------------------
(* The theorems *)

\* The inductive invariant, relative to Types, Own and Kept.
Recorded == Base /\ Known /\ Logged /\ Finished /\ Retries

LEMMA InitRecorded == Init => Recorded
<1> SUFFICES ASSUME Init PROVE Recorded
  OBVIOUS
<1>1. /\ wal = <<>> /\ snap = NoSnapshot /\ buffer = <<>> /\ heap = {} /\ ready = {} /\ cur = None
      /\ kpc = "exit" /\ phase = "down" /\ walClosed = TRUE /\ stops = 0
      /\ (\A t \in Task : spc[t] = "new") /\ \A w \in Worker : wpc[w] = "exit"
  BY DEF Init
<1>2. DOMAIN wal = {} /\ Range(buffer) = {}
  BY SMTT(30), <1>1 DEF Range
<1>3. \A t \in Task : ~Has(t)
  BY <1>1, <1>2, NoneAssumption DEF Has, Queued, Holds, Holding, InFlight
<1>4. Base
  BY <1>1 DEF Base, Booting, LogOnly
<1>5. Known /\ Logged
  BY <1>1, <1>2, <1>3 DEF Known, Logged
<1>6. Finished /\ Retries
  BY <1>1, <1>2 DEF Finished, Retries, Retrying
<1> QED BY <1>4, <1>5, <1>6 DEF Recorded

LEMMA AlwaysRecorded == Spec => []Recorded
<1>1. Types /\ Types' /\ Own /\ Own' /\ Kept /\ Recorded /\ [Next]_vars => Recorded'
  BY NextBase, NextKnown, NextLogged, NextFinished, NextRetries DEF Recorded, Kept
<1> QED BY <1>1, InitRecorded, AlwaysTypes, AlwaysOwn, AlwaysKept, PTL DEF Spec

\* As long as no checkpoint is taken, a task that was acknowledged would be
\* recovered, however often the process is killed and restarted.
THEOREM EngineAckedRecoverable == Spec => [](LogOnly => AckedRecoverable)
<1>1. Types /\ Kept /\ Recorded => (LogOnly => AckedRecoverable)
  BY LoggedRecovers DEF Kept, Recorded
<1> QED BY <1>1, AlwaysTypes, AlwaysKept, AlwaysRecorded, PTL

\* A task with a Complete or Dead record is in no queue and in nobody's hands.
THEOREM EngineFinishedNotRequeued == Spec => [](Regime => FinishedNotRequeued)
<1>1. ASSUME Types, Finished, Regime, NEW i \in DOMAIN wal, wal[i].type \in {"complete", "dead"}
      PROVE  wal[i].task \notin Owned
  <2>1. PICK t \in Task : t = wal[i].task
    BY <1>1, RecordTypes
  <2>2. ~Has(t)
    BY <1>1, <2>1 DEF Finished, Final
  <2> QED BY <1>1, <2>1, <2>2, OwnedIsHas
<1>2. Types /\ Recorded => (Regime => FinishedNotRequeued)
  BY <1>1 DEF Recorded, FinishedNotRequeued
<1> QED BY <1>2, AlwaysTypes, AlwaysRecorded, PTL

===============================================================================
