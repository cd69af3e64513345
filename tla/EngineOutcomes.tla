---------------------------- MODULE EngineOutcomes ----------------------------
(***************************************************************************)
(* What becomes of a task: how often its handler is called, which of the   *)
(* submissions with its key is acknowledged, and the dead-letter queue.    *)
(***************************************************************************)
EXTENDS EngineRecords

\* Most steps are first-order; those that need arithmetic or records say SMT.
USE ZenonT(20)

-----------------------------------------------------------------------------
(* How often a handler is called *)

LEMMA RunsMoves ==
    ASSUME Types, RunStep, NEW t \in Task, runs'[t] # runs[t]
    PROVE  \E w \in Worker : WorkerLogStart(w) /\ wtask[w] = t
<1>1. ASSUME NEW u \in Task, SubmitRegister(u) \/ SubmitStep(u) \/ CancelCheck(u) \/ CancelStep(u) PROVE FALSE
  BY <1>1, RegisterFacts, SubmitFacts, CancelFacts
<1>2. ASSUME SchedStep \/ CkptBegin \/ CkptStep \/ CkptExit \/ StopSteps PROVE FALSE
  BY <1>2, SchedFacts, CkptFrame, StopFacts
<1>3. ASSUME NEW w \in Worker, WorkerStep(w) PROVE WorkerLogStart(w) /\ wtask[w] = t
  <2>1. wtask[w] = t
    BY <1>3, WorkerFrame
  <2>2. WorkerLogStart(w)
    BY <1>3, WorkerIdleFacts, WorkerMarkFacts, WorkerSettleFacts, WorkerLogFacts, WorkerForceFacts DEF WorkerStep
  <2> QED BY <2>1, <2>2
<1> QED BY <1>1, <1>2, <1>3 DEF RunStep

\* The handler has been called and the outcome of the call is not logged yet.
InCall(w) == wpc[w] \in {"exec", "settle", "log"}
Called(t) == \E w \in Worker : wtask[w] = t /\ InCall(w)

LEMMA CallEnds ==
    ASSUME Types, RunStep, NEW w \in Worker, InCall(w)
    PROVE  (InCall(w)' /\ wtask'[w] = wtask[w]) \/ WorkerLog(w)
<1>1. CASE WorkerStep(w)
  <2>1. CASE WorkerLoop(w) \/ WorkerDequeue(w) \/ WorkerExec(w) \/ WorkerPush(w) \/ WorkerPost(w)
    BY <2>1, WorkerIdleFacts DEF InCall
  <2>2. ~(WorkerMark(w) \/ WorkerStart(w) \/ WorkerLogStart(w) \/ WorkerForce(w))
    BY WorkerMarkFacts, WorkerLogStartFacts, WorkerForceFacts DEF InCall
  <2>3. CASE WorkerSettle(w)
    BY <2>3, WorkerSettleFacts DEF InCall
  <2> QED BY <1>1, <2>1, <2>2, <2>3 DEF WorkerStep
<1>2. CASE ~WorkerStep(w)
  BY <1>2, OtherSteps DEF InCall
<1> QED BY <1>1, <1>2

\* The outcome of the last call is final: its record is in the log, or the
\* process that made the call is still there and has let go of the task.
Over(t) == \/ \E i \in DOMAIN wal : Final(wal[i]) /\ wal[i].task = t
           \/ FirstLife /\ t \notin New /\ ~Has(t)

RetryRecord(t, n) == \E i \in DOMAIN wal : wal[i].type = "retry" /\ wal[i].task = t /\ wal[i].rc = n

\* The calls for t are paid for: by a crash each, by n retries, and the last one
\* by the task itself.
Paid(t, n) ==
    /\ runs[t] <= crashes + n + 1
    /\ runs[t] = crashes + n + 1 => Called(t) \/ Over(t)
    /\ n # 0 /\ (LogOnly \/ Booting) => RetryRecord(t, n)
    /\ phase \notin {"down", "replay"} => n <= retries[t]
    /\ \A w \in Worker : wtask[w] = t /\ Retrying(w) => n < retries[t]

Budget == Regime => \A t \in Task : \E n \in 0 .. MaxRetries : Paid(t, n)

LEMMA OverStays ==
    ASSUME Types, Types', Own, Kept, Base, Known, Finished, RunStep, [Next]_vars, Regime, Regime', NEW t \in Task, Over(t)
    PROVE  Over(t)'
<1>0. ~Booting /\ crashes' = crashes /\ stops \in Nat /\ crashes \in Nat
  BY RunStepAwake DEF Kept, Types, ProcessTypes
<1>1. FirstLife => FirstLife'
  BY SMTT(30), <1>0, PhaseMoves DEF FirstLife, Base
<1>2. t \notin New => t \notin New'
  <2>1. spc'[t] # spc[t] => SubmitRegister(t) \/ SubmitStep(t)
    BY SpcMoves
  <2>2. SubmitRegister(t) => t \in New
    BY RegisterFacts
  <2>3. ASSUME SubmitStep(t) PROVE spc'[t] \notin {"new", "duplicate"}
    BY <2>3, SubmitFacts
  <2> QED BY <2>1, <2>2, <2>3 DEF New
<1>3. t \notin New /\ ~Has(t) => ~Has(t)'
  BY RunTakes, RegisterFacts
<1>4. CASE FirstLife /\ t \notin New /\ ~Has(t)
  BY <1>1, <1>2, <1>3, <1>4 DEF Over
<1>5. ASSUME NEW i \in DOMAIN wal, Final(wal[i]), wal[i].task = t PROVE Over(t)'
  <2>1. ~Has(t) /\ t \notin New
    <3>1. wal[i] \in Range(wal)
      BY DEF Range
    <3> QED BY <1>5, <3>1 DEF Finished, Own, UnknownOnDisk
  <2>2. CASE FirstLife
    BY <1>4, <2>1, <2>2
  <2>3. CASE ~FirstLife
    <3>1. kpc = "exit"
      BY <2>3 DEF Base, Regime
    <3>2. i \in DOMAIN wal' /\ wal'[i] = wal[i]
      BY <3>1, LogGrows
    <3> QED BY <1>5, <3>2 DEF Over, Final
  <2> QED BY <2>2, <2>3
<1> QED BY <1>4, <1>5 DEF Over

\* A call that is begun.
LEMMA CallBegins ==
    ASSUME Types, Types', Own, Finished, Regime, NEW w \in Worker, WorkerLogStart(w), NEW t \in Task, wtask[w] = t
    PROVE  ~Called(t) /\ ~Over(t) /\ Called(t)' /\ runs'[t] = runs[t] + 1
<1>1. wpc[w] = "logstart" /\ wpc'[w] = "exec" /\ wtask' = wtask /\ runs'[t] = runs[t] + 1
  BY WorkerLogStartFacts
<1>2. Holds(w, t)
  BY <1>1 DEF Holds, Holding
<1>3. \A v \in Worker : Holds(v, t) => v = w
  BY <1>2 DEF Own, Exclusive
<1>4. ~Called(t)
  BY <1>1, <1>3 DEF Called, InCall, Holds, Holding
<1>5. ~Over(t)
  BY <1>2 DEF Finished, Over, Has
<1> QED BY <1>1, <1>4, <1>5 DEF Called, InCall

LEMMA RunBudget ==
    ASSUME Types, Types', Own, Own', Kept, Base, Known, Finished, Retries, RunStep, [Next]_vars, Regime, Regime',
           NEW t \in Task, NEW n \in 0 .. MaxRetries, Paid(t, n)
    PROVE  \E m \in 0 .. MaxRetries : Paid(t, m)'
<1>0. /\ ~Booting /\ ~Booting' /\ crashes' = crashes /\ crashes \in Nat /\ MaxRetries \in Nat
      /\ runs \in [Task -> Nat] /\ runs' \in [Task -> Nat] /\ retries \in [Task -> Nat] /\ retries' \in [Task -> Nat]
      /\ LogOnly' => LogOnly
  BY RunStepAwake, RegimeMoves, NumbersAssumption DEF Kept, Types, RegistryTypes, WorkerTypes, ProcessTypes
<1>1. n <= retries[t] /\ retries[t] <= retries'[t] /\ retries[t] \in Nat /\ retries'[t] \in Nat
  BY SMTT(30), <1>0, RetriesMoves DEF Paid, Booting
<1>2. LogOnly' => \A i \in DOMAIN wal : i \in DOMAIN wal' /\ wal'[i] = wal[i]
  BY <1>0, LogGrows DEF Base
<1>3. n # 0 /\ LogOnly' => RetryRecord(t, n)'
  <2>1. n # 0 /\ LogOnly' => RetryRecord(t, n)
    BY <1>0 DEF Paid
  <2> QED BY <1>2, <2>1 DEF RetryRecord
<1>4. ASSUME NEW w \in Worker, wtask'[w] = t, Retrying(w)' PROVE n < retries'[t]
  <2>1. CASE WorkerSettle(w)
    <3>1. wtask[w] = t /\ retries'[t] = retries[t] + 1
      BY <1>4, <2>1, WorkerSettleFacts DEF Retrying
    <3> QED BY SMTT(30), <1>1, <3>1
  <2>2. CASE wpc[w] = "log" /\ wres'[w] = wres[w] /\ wtask'[w] = wtask[w]
    <3>1. n < retries[t]
      BY <1>4, <2>2 DEF Paid, Retrying
    <3> QED BY SMTT(30), <1>1, <3>1
  <2> QED BY <1>4, <2>1, <2>2, AtLog DEF Retrying
<1>5. CASE \E w \in Worker : WorkerLogStart(w) /\ wtask[w] = t
  <2>1. ~Called(t) /\ ~Over(t) /\ Called(t)' /\ runs'[t] = runs[t] + 1
    BY <1>5, CallBegins
  <2>2. runs'[t] <= crashes' + n + 1
    <3>1. runs[t] <= crashes + n + 1 /\ runs[t] # crashes + n + 1 /\ runs[t] \in Nat
      BY <1>0, <2>1 DEF Paid
    <3> QED BY SMTT(30), <1>0, <2>1, <3>1
  <2>3. n <= retries'[t]
    BY SMTT(30), <1>1
  <2>4. Paid(t, n)'
    BY <1>0, <1>3, <1>4, <2>1, <2>2, <2>3 DEF Paid
  <2> QED BY <2>4
<1>6. ASSUME NEW w \in Worker, WorkerLog(w), wtask[w] = t, wres[w] = "retry" PROVE \E m \in 0 .. MaxRetries : Paid(t, m)'
  <2>1. /\ wpc[w] = "log" /\ wpc'[w] = "push" /\ UNCHANGED <<retries, runs, wtask, wres>>
        /\ Wrote("retry", t, "none", retries[t]) \/ walClosed
    BY <1>6, WorkerLogFacts
  <2>2. n < retries[t] /\ retries[t] <= MaxRetries
    BY <1>6, <2>1 DEF Paid, Retries, Retrying
  <2>3. runs'[t] < crashes' + retries[t] + 1 /\ runs[t] \in Nat
    <3>1. runs[t] <= crashes + n + 1
      BY <1>0 DEF Paid
    <3> QED BY SMTT(30), <1>0, <1>1, <2>1, <2>2, <3>1
  <2>4. ASSUME LogOnly' PROVE RetryRecord(t, retries[t])'
    <3>1. Wrote("retry", t, "none", retries[t])
      BY <1>0, <2>1, <2>4 DEF Base, Booting
    <3>2. Len(wal) + 1 \in DOMAIN wal' /\ wal'[Len(wal) + 1].type = "retry" /\ wal'[Len(wal) + 1].task = t
          /\ wal'[Len(wal) + 1].rc = retries[t]
      BY <3>1 DEF Wrote
    <3> QED BY <2>1, <3>2 DEF RetryRecord
  <2>5. \A v \in Worker : ~(wtask'[v] = t /\ Retrying(v)')
    <3>1. Holds(w, t)'
      BY <1>6, <2>1 DEF Holds, Holding
    <3>2. \A v \in Worker : Holds(v, t)' => v = w
      BY <3>1 DEF Own, Exclusive
    <3> QED BY <2>1, <3>2 DEF Retrying, Holds, Holding
  <2>6. PICK m \in 0 .. MaxRetries : m = retries[t]
    BY SMTT(30), <1>1, <2>2, <1>0
  <2>7. runs'[t] <= crashes' + m + 1 /\ runs'[t] # crashes' + m + 1 /\ m <= retries'[t]
    <3>1. runs'[t] \in Nat /\ crashes' \in Nat /\ retries'[t] = m /\ runs'[t] < crashes' + m + 1
      BY <1>0, <2>1, <2>3, <2>6
    <3> QED BY SMTT(30), <3>1
  <2>8. LogOnly' => RetryRecord(t, m)'
    BY <2>1, <2>4, <2>6 DEF RetryRecord
  <2>9. Paid(t, m)'
    BY <1>0, <2>5, <2>7, <2>8 DEF Paid
  <2> QED BY <2>9
<1>7. CASE ~(\E w \in Worker : WorkerLogStart(w) /\ wtask[w] = t) /\ ~(\E w \in Worker : WorkerLog(w) /\ wtask[w] = t /\ wres[w] = "retry")
  <2>1. runs'[t] = runs[t]
    BY <1>7, RunsMoves
  <2>2. Over(t) => Over(t)'
    BY OverStays
  <2>3. ASSUME Called(t) PROVE Called(t)' \/ Over(t)'
    <3>1. PICK w \in Worker : wtask[w] = t /\ InCall(w)
      BY <2>3 DEF Called
    <3>2. CASE InCall(w)' /\ wtask'[w] = wtask[w]
      BY <3>1, <3>2 DEF Called
    <3>3. CASE WorkerLog(w)
      <4>1. wres[w] \in {"complete", "dead"} /\ UNCHANGED spc
        BY <1>7, <3>1, <3>3, WorkerLogFacts, WorkerFrame DEF WorkerStep
      <4>2. ~Has(t)'
        BY <3>1, <3>3, <4>1, FinalLetsGo
      <4>3. CASE FirstLife
        <5>1. t \notin New'
          BY <3>1, <4>1 DEF Own, UnknownInMemory, New
        <5>2. FirstLife'
          BY <1>0, <3>3, <4>3, WorkerFrame DEF WorkerStep, FirstLife
        <5> QED BY <4>2, <5>1, <5>2 DEF Over
      <4>4. CASE ~FirstLife
        <5>1. Wrote(wres[w], t, "none", 0)
          BY <1>0, <3>1, <3>3, <4>1, <4>4, WorkerLogFacts DEF Base, Regime, Booting
        <5>2. Len(wal) + 1 \in DOMAIN wal' /\ wal'[Len(wal) + 1].type \in {"complete", "dead"} /\ wal'[Len(wal) + 1].task = t
          BY <4>1, <5>1 DEF Wrote
        <5> QED BY <5>2 DEF Over, Final
      <4> QED BY <4>3, <4>4
    <3> QED BY <3>1, <3>2, <3>3, CallEnds
  <2>4. runs'[t] <= crashes' + n + 1 /\ (runs'[t] = crashes' + n + 1 => Called(t)' \/ Over(t)')
    BY <1>0, <2>1, <2>2, <2>3 DEF Paid
  <2>5. n <= retries'[t]
    BY SMTT(30), <1>1
  <2>6. Paid(t, n)'
    BY <1>0, <1>3, <1>4, <2>4, <2>5 DEF Paid
  <2> QED BY <2>6
<1> QED BY <1>5, <1>6, <1>7

LEMMA RecoverBudget ==
    ASSUME Types, Own, Kept, Base, Retries, RecoverStep, Regime, Regime', LogOnly' => LogOnly,
           NEW t \in Task, NEW n \in 0 .. MaxRetries, Paid(t, n)
    PROVE  Paid(t, n)'
<1>0. /\ UNCHANGED <<wal, wtask, wres, runs, crashes, spc, stops>> /\ Booting /\ \A w \in Worker : wpc[w] = "exit"
      /\ retries \in [Task -> Nat] /\ n \in Nat
  BY SMTT(30), RecoverFrame DEF Own, BootAlone, Types, RegistryTypes
<1>1. \A w \in Worker : wpc'[w] \in {"exit", "loop"}
  BY <1>0, LoadFacts, ReplayFacts, OpenFacts, RebuildFacts, StartFacts DEF RecoverStep
<1>2. ~Called(t) /\ ~Called(t)'
  BY <1>0, <1>1 DEF Called, InCall
<1>3. Over(t) => Over(t)'
  <2>1. FirstLife => t \in New
    BY <1>0 DEF Base, New
  <2> QED BY <1>0, <2>1 DEF Over, Final
<1>4. runs'[t] <= crashes' + n + 1 /\ (runs'[t] = crashes' + n + 1 => Called(t)' \/ Over(t)')
  <2>1. crashes \in Nat /\ runs[t] \in Nat
    BY DEF Types, ProcessTypes, WorkerTypes
  <2> QED BY <1>0, <1>2, <1>3, <2>1 DEF Paid
<1>5. n # 0 => RetryRecord(t, n) /\ RetryRecord(t, n)'
  BY <1>0 DEF Paid, RetryRecord
<1>6. ASSUME phase' \notin {"down", "replay"} PROVE n <= retries'[t]
  <2>1. CASE OpenWAL
    <3>1. ASSUME n # 0 PROVE n <= retries[t]
      <4>1. PICK i \in DOMAIN wal : wal[i].type = "retry" /\ wal[i].task = t /\ wal[i].rc = n
        BY <1>5, <3>1 DEF RetryRecord
      <4>2. i \in Nat /\ i < Len(wal) + 1
        <5>1. wal \in Seq(Record)
          BY DEF Types, DiskTypes
        <5> QED BY SMTT(30), <5>1
      <4>3. Seen(i)
        BY <2>1, <4>2, OpenFacts DEF Seen
      <4> QED BY <4>1, <4>3 DEF Retries
    <3> QED BY SMTT(30), <1>0, <2>1, <3>1, OpenFacts
  <2>2. ASSUME NEW u \in Task, RebuildTask(u) PROVE n <= retries'[t]
    <3>1. phase = "rebuild" /\ retries'[t] \in {retries[t], retries[t] + 1}
      BY <2>2, RebuildFacts
    <3>2. n <= retries[t] /\ retries[t] \in Nat
      BY <1>0, <3>1 DEF Paid
    <3> QED BY SMTT(30), <1>0, <3>1, <3>2
  <2>3. CASE Start
    BY <2>3, StartFacts DEF Paid
  <2> QED BY <1>6, <2>1, <2>2, <2>3, LoadFacts, ReplayFacts DEF RecoverStep
<1> QED BY <1>1, <1>4, <1>5, <1>6 DEF Paid, Retrying

LEMMA NextBudget ==
    Types /\ Types' /\ Own /\ Own' /\ Kept /\ Base /\ Known /\ Finished /\ Retries /\ Budget /\ [Next]_vars
    => Budget'
<1> SUFFICES ASSUME Types, Types', Own, Own', Kept, Base, Known, Finished, Retries, Budget, [Next]_vars, Regime',
                    NEW t \in Task
             PROVE  \E m \in 0 .. MaxRetries : Paid(t, m)'
  BY DEF Budget
<1>0. Regime /\ (LogOnly' => LogOnly) /\ (FirstLife' => FirstLife)
  BY RegimeMoves DEF Kept
<1>1. PICK n \in 0 .. MaxRetries : Paid(t, n)
  BY <1>0 DEF Budget
<1>2. CASE UNCHANGED vars
  <2>1. UNCHANGED <<spc, buffer, heap, ready, cur, wpc, wtask, wres, retries, runs, wal, phase, crashes, stops>>
    BY <1>2 DEF vars, disk, registry, queues, clients, workers, scheduler, process
  <2>2. (Has(t)' <=> Has(t)) /\ (Called(t)' <=> Called(t)) /\ New' = New /\ (RetryRecord(t, n)' <=> RetryRecord(t, n))
    BY <2>1 DEF Has, Queued, Holds, Called, InCall, New, RetryRecord
  <2>3. (Over(t)' <=> Over(t)) /\ \A w \in Worker : Retrying(w)' <=> Retrying(w)
    BY <2>1, <2>2 DEF Over, FirstLife, Final, Retrying
  <2>4. Paid(t, n)'
    BY <1>1, <2>1, <2>2, <2>3 DEF Paid, LogOnly, Booting
  <2> QED BY <2>4
<1>3. CASE RunStep
  BY <1>0, <1>1, <1>3, RunBudget
<1>4. CASE RecoverStep
  BY <1>0, <1>1, <1>4, RecoverBudget
<1>5. CASE Crash \/ ShutdownReturns
  <2>1. /\ UNCHANGED <<wal, runs>> /\ phase' = "down" /\ \A w \in Worker : wpc'[w] = "exit"
        /\ crashes' = crashes + 1 \/ (UNCHANGED <<crashes, stops>> /\ phase \in {"stop", "final"})
    BY <1>5, EndFacts
  <2>2. crashes \in Nat /\ stops \in Nat /\ runs[t] \in Nat
    BY DEF Types, ProcessTypes, WorkerTypes
  <2>3. crashes' = crashes + 1
    BY <2>1, <2>2 DEF Base, Regime, LogOnly, FirstLife, Booting
  <2>4. LogOnly
    BY SMTT(30), <1>0, <2>2, <2>3 DEF Regime, FirstLife
  <2>5. runs'[t] <= crashes' + n + 1 /\ (runs'[t] = crashes' + n + 1 => Called(t)' \/ Over(t)')
    <3>1. runs[t] <= crashes + n + 1
      BY <1>1, <2>2 DEF Paid
    <3> QED BY SMTT(30), <2>1, <2>2, <2>3, <3>1
  <2>6. n # 0 => RetryRecord(t, n)'
    BY <1>1, <2>1, <2>4 DEF Paid, RetryRecord
  <2>7. Paid(t, n)'
    BY <2>1, <2>5, <2>6 DEF Paid, Retrying
  <2> QED BY <2>7
<1> QED BY <1>2, <1>3, <1>4, <1>5, Kinds

LEMMA BudgetHolds == Types /\ Budget => (Regime => RetryBudget)
<1> SUFFICES ASSUME Types, Budget, Regime, NEW t \in Task PROVE runs[t] <= MaxRetries + 1 + crashes
  BY DEF RetryBudget
<1>1. PICK n \in 0 .. MaxRetries : Paid(t, n)
  BY DEF Budget
<1>2. crashes \in Nat /\ runs[t] \in Nat /\ MaxRetries \in Nat
  BY NumbersAssumption DEF Types, ProcessTypes, WorkerTypes
<1> QED BY SMTT(30), <1>1, <1>2 DEF Paid

-----------------------------------------------------------------------------
(* Idempotency keys *)

LEMMA IdempMoves ==
    ASSUME Types, RunStep, idemp' # idemp
    PROVE  \E u \in Task : /\ KeyOf[u] # None
                           /\ \/ spc[u] = "new" /\ idemp' = [idemp EXCEPT ![KeyOf[u]] = u]
                              \/ spc[u] = "rollback" /\ spc'[u] = "failed" /\ idemp' = [idemp EXCEPT ![KeyOf[u]] = None]
<1>1. ASSUME NEW u \in Task, SubmitRegister(u)
      PROVE  KeyOf[u] # None /\ spc[u] = "new" /\ idemp' = [idemp EXCEPT ![KeyOf[u]] = u]
  BY <1>1, RegisterFacts
<1>2. ASSUME NEW u \in Task, SubmitStep(u)
      PROVE  KeyOf[u] # None /\ spc[u] = "rollback" /\ spc'[u] = "failed" /\ idemp' = [idemp EXCEPT ![KeyOf[u]] = None]
  BY <1>2, SubmitFacts
<1>3. ASSUME NEW u \in Task, CancelCheck(u) \/ CancelStep(u) PROVE FALSE
  BY <1>3, CancelFacts
<1>4. ASSUME NEW w \in Worker, WorkerStep(w) PROVE FALSE
  BY <1>4, WorkerFrame
<1>5. ASSUME SchedStep \/ CkptBegin \/ CkptStep \/ CkptExit \/ StopSteps PROVE FALSE
  BY <1>5, SchedFacts, CkptFrame, StopFacts
<1> QED BY <1>1, <1>2, <1>3, <1>4, <1>5 DEF RunStep

\* A submission that was or may still be acknowledged has its key to itself, and
\* the registry of a process that has read the log knows that the key is taken.
Keys ==
    Regime =>
        /\ \A t, u \in Task : t # u /\ Live(t) /\ Live(u) /\ KeyOf[t] # None => KeyOf[t] # KeyOf[u]
        /\ phase \notin {"down", "replay"} => \A t \in Task : Live(t) /\ KeyOf[t] # None => idemp[KeyOf[t]] # None
        /\ phase = "replay" => \A i \in DOMAIN wal :
             i < rpos /\ wal[i].type = "enqueue" /\ KeyOf[wal[i].task] # None => idemp[KeyOf[wal[i].task]] # None

LEMMA KeyTypes ==
    ASSUME Types
    PROVE  /\ idemp \in [Key -> Task \cup {None}] /\ None \notin Task
           /\ \A t \in Task : KeyOf[t] # None => KeyOf[t] \in Key
BY NoneAssumption, KeyAssumption DEF Types, RegistryTypes

LEMMA RunKeys ==
    ASSUME Types, Types', Own, Kept, Keys, RunStep, [Next]_vars, Regime
    PROVE  Keys'
<1>0. ~Booting /\ ~Booting' /\ phase \notin {"down", "replay"} /\ phase' \notin {"down", "replay"}
  BY RunStepAwake DEF Kept, Booting
<1>1. /\ \A t, u \in Task : t # u /\ Live(t) /\ Live(u) /\ KeyOf[t] # None => KeyOf[t] # KeyOf[u]
      /\ \A t \in Task : Live(t) /\ KeyOf[t] # None => idemp[KeyOf[t]] # None
  BY <1>0 DEF Keys
<1>2. ASSUME NEW t \in Task, Live(t)', ~Live(t)
      PROVE  /\ \A u \in Task \ {t} : spc'[u] = spc[u]
             /\ KeyOf[t] # None => idemp[KeyOf[t]] = None /\ idemp' = [idemp EXCEPT ![KeyOf[t]] = t]
  <2>1. SubmitRegister(t)
    BY <1>2, LiveMoves
  <2>2. spc'[t] # "duplicate"
    BY <1>2 DEF Live, InFlight
  <2> QED BY <2>1, <2>2, RegisterFacts DEF KeyTaken
<1>3. ASSUME NEW t \in Task, NEW u \in Task, t # u, Live(t)', Live(u)', KeyOf[t] # None, KeyOf[t] = KeyOf[u] PROVE FALSE
  <2>1. CASE Live(t) /\ Live(u)
    BY <1>1, <1>3, <2>1
  <2>2. CASE ~Live(t)
    <3>1. Live(u)
      BY <1>2, <1>3, <2>2 DEF Live
    <3> QED BY <1>1, <1>2, <1>3, <2>2, <3>1
  <2>3. CASE ~Live(u)
    <3>1. Live(t)
      BY <1>2, <1>3, <2>3 DEF Live
    <3> QED BY <1>1, <1>2, <1>3, <2>3, <3>1
  <2> QED BY <2>1, <2>2, <2>3
<1>4. ASSUME NEW t \in Task, Live(t)', KeyOf[t] # None PROVE idemp'[KeyOf[t]] # None
  <2>1. CASE ~Live(t)
    BY <1>2, <1>4, <2>1, KeyTypes
  <2>2. CASE Live(t) /\ idemp' = idemp
    BY <1>1, <1>4, <2>2
  <2>3. ASSUME Live(t), NEW u \in Task, KeyOf[u] # None, idemp' = [idemp EXCEPT ![KeyOf[u]] = u]
        PROVE  idemp'[KeyOf[t]] # None
    BY <1>1, <1>4, <2>3, KeyTypes
  <2>4. ASSUME Live(t), NEW u \in Task, KeyOf[u] # None, spc[u] = "rollback", spc'[u] = "failed",
               idemp' = [idemp EXCEPT ![KeyOf[u]] = None]
        PROVE  idemp'[KeyOf[t]] # None
    <3>1. Live(u) /\ t # u
      BY <1>4, <2>4 DEF Live, InFlight
    <3>2. KeyOf[t] # KeyOf[u]
      BY <1>1, <1>4, <2>4, <3>1
    <3> QED BY <1>1, <1>4, <2>4, <3>2, KeyTypes
  <2> QED BY <2>1, <2>2, <2>3, <2>4, IdempMoves
<1> QED BY <1>0, <1>3, <1>4 DEF Keys

LEMMA RecoverKeys ==
    ASSUME Types, Own, Kept, Base, Logged, Finished, Keys, RecoverStep, Regime
    PROVE  Keys'
<1>0. UNCHANGED <<wal, spc>> /\ Booting
  BY RecoverFrame
<1>1. \A t, u \in Task : t # u /\ Live(t)' /\ Live(u)' /\ KeyOf[t] # None => KeyOf[t] # KeyOf[u]
  BY <1>0 DEF Keys, Live
<1>2. CASE LoadSnapshot
  <2>1. phase' = "replay" /\ \A i \in DOMAIN wal : ~(i < rpos')
    BY SMTT(30), <1>2, LoadFacts, RecordTypes DEF Types, DiskTypes
  <2> QED BY <1>0, <1>1, <2>1 DEF Keys
<1>3. CASE ReplayEntry
  <2> DEFINE r == wal[rpos]
  <2>1. phase = "replay" /\ phase' = "replay" /\ rpos \in DOMAIN wal /\ rpos' = rpos + 1 /\ ApplyEntry(r)
        /\ r.task \in Task /\ rpos \in Nat
    BY <1>3, ReplayFacts, RecordTypes
  <2>2. ASSUME NEW k \in Key, idemp[k] # None PROVE idemp'[k] # None
    <3>1. idemp' = idemp \/ (KeyOf[r.task] # None /\ idemp' = [idemp EXCEPT ![KeyOf[r.task]] = r.task])
      BY <2>1 DEF ApplyEntry, registry
    <3> QED BY <2>1, <2>2, <3>1, KeyTypes
  <2>3. ASSUME NEW i \in DOMAIN wal, i < rpos', wal[i].type = "enqueue", KeyOf[wal[i].task] # None
        PROVE  idemp'[KeyOf[wal[i].task]] # None
    <3>1. wal[i].task \in Task /\ i \in Nat
      BY RecordTypes
    <3>2. CASE i < rpos
      <4>1. idemp[KeyOf[wal[i].task]] # None
        BY <2>1, <2>3, <3>2 DEF Keys
      <4> QED BY <2>2, <2>3, <3>1, <4>1, KeyTypes
    <3>3. CASE i = rpos
      <4>1. idemp' = [idemp EXCEPT ![KeyOf[r.task]] = r.task]
        BY <1>3, <2>3, <3>3, ReplayApplies
      <4> QED BY <2>1, <2>3, <3>3, <4>1, KeyTypes
    <3> QED BY SMTT(30), <2>1, <2>3, <3>1, <3>2, <3>3
  <2> QED BY <1>0, <1>1, <2>1, <2>3 DEF Keys
<1>4. CASE OpenWAL
  <2>1. phase = "replay" /\ phase' = "rebuild" /\ rpos = Len(wal) + 1 /\ idemp' = idemp
    BY <1>4, OpenFacts
  <2>2. ASSUME NEW t \in Task, Live(t)', KeyOf[t] # None PROVE idemp[KeyOf[t]] # None
    <3>1. spc[t] = "acked"
      BY <1>0, <2>2 DEF Own, BootAlone, Live
    <3>2. LogOnly
      BY <1>0, <3>1 DEF Base, Regime
    <3>3. PICK i \in DOMAIN wal : wal[i].type = "enqueue" /\ wal[i].task = t
      BY <3>1, <3>2 DEF Logged, Enq
    <3>4. i < rpos
      BY SMTT(30), <2>1 DEF Types, DiskTypes
    <3> QED BY <2>1, <2>2, <3>3, <3>4 DEF Keys
  <2> QED BY <1>1, <2>1, <2>2 DEF Keys
<1>5. ASSUME Start \/ \E t \in Task : RebuildTask(t) PROVE Keys'
  <2>1. phase = "rebuild" /\ phase' \in {"rebuild", "up"} /\ idemp' = idemp
    BY <1>5, StartFacts, RebuildFacts
  <2> QED BY <1>0, <1>1, <2>1 DEF Keys, Live
<1> QED BY <1>2, <1>3, <1>4, <1>5 DEF RecoverStep

LEMMA NextKeys ==
    Types /\ Types' /\ Own /\ Kept /\ Base /\ Logged /\ Finished /\ Keys /\ [Next]_vars => Keys'
<1> SUFFICES ASSUME Types, Types', Own, Kept, Base, Logged, Finished, Keys, [Next]_vars, Regime' PROVE Keys'
  BY DEF Keys
<1>0. Regime
  BY RegimeMoves DEF Kept
<1>1. CASE UNCHANGED vars
  <2>1. UNCHANGED <<spc, idemp, wal, phase, rpos>>
    BY <1>1 DEF vars, disk, registry, clients, process
  <2> QED BY <1>0, <2>1 DEF Keys, Live
<1>2. CASE RunStep
  BY <1>0, <1>2, RunKeys
<1>3. CASE RecoverStep
  BY <1>0, <1>3, RecoverKeys
<1>4. CASE Crash \/ ShutdownReturns
  <2>1. phase' = "down" /\ \A t \in Task : Live(t)' => Live(t)
    BY <1>4, EndFacts DEF Live
  <2> QED BY <1>0, <2>1 DEF Keys
<1> QED BY <1>1, <1>2, <1>3, <1>4, Kinds

LEMMA KeysAreUnique == Keys => (Regime => UniqueKey)
BY DEF Keys, UniqueKey, Live

-----------------------------------------------------------------------------
(* The dead-letter queue *)

LEMMA DLQMoves ==
    ASSUME Types, RunStep, dlq' # dlq
    PROVE  \E w \in Worker : WorkerLog(w) /\ wres[w] = "dead" /\ dlq' = Append(dlq, wtask[w])
<1>1. ASSUME NEW u \in Task, SubmitRegister(u) \/ SubmitStep(u) \/ CancelCheck(u) \/ CancelStep(u) PROVE FALSE
  BY <1>1, RegisterFacts, SubmitFacts, CancelFacts
<1>2. ASSUME SchedStep \/ CkptBegin \/ CkptStep \/ CkptExit \/ StopSteps PROVE FALSE
  BY <1>2, SchedFacts, CkptFrame, StopFacts
<1>3. ASSUME NEW w \in Worker, WorkerStep(w) PROVE WorkerLog(w) /\ wres[w] = "dead" /\ dlq' = Append(dlq, wtask[w])
  <2>1. WorkerLog(w)
    BY <1>3, WorkerIdleFacts, WorkerMarkFacts, WorkerLogStartFacts, WorkerSettleFacts, WorkerForceFacts DEF WorkerStep
  <2> QED BY <2>1, WorkerLogFacts
<1> QED BY <1>1, <1>2, <1>3 DEF RunStep

\* a worker about to list the task
Burying(w, t) == wtask[w] = t /\ wpc[w] = "log" /\ wres[w] = "dead"

\* The DLQ lists finished tasks that nobody has, each of them once, and during a
\* replay only those whose Dead record has been read.
DLQ ==
    Regime =>
        /\ IsInjective(dlq)
        /\ phase = "down" => dlq = <<>>
        /\ \A t \in Task : t \in Range(dlq) => ~Has(t) /\ t \notin New /\ state[t] \notin Unfinished \cup {"absent"}
        /\ phase = "replay" => \A t \in Task : t \in Range(dlq) =>
             \E i \in DOMAIN wal : i < rpos /\ wal[i].type = "dead" /\ wal[i].task = t
        /\ \A t \in Task : state[t] = "Dead" => t \in Range(dlq) \/ \E w \in Worker : Burying(w, t)

LEMMA RunDLQ ==
    ASSUME Types, Types', Own, Kept, Known, DLQ, Finished, RunStep, Regime
    PROVE  DLQ'
<1>0. ~Booting /\ ~Booting' /\ dlq \in Seq(Task)
  BY RunStepAwake DEF Kept, Types, RegistryTypes
<1>1. /\ IsInjective(dlq)
      /\ \A t \in Task : t \in Range(dlq) => ~Has(t) /\ t \notin New /\ state[t] \notin Unfinished \cup {"absent"}
      /\ \A t \in Task : state[t] = "Dead" => t \in Range(dlq) \/ \E w \in Worker : Burying(w, t)
  BY DEF DLQ
<1>2. ASSUME NEW t \in Task, t \notin New PROVE t \notin New'
  <2>1. spc'[t] # spc[t] => SubmitRegister(t) \/ SubmitStep(t)
    BY SpcMoves
  <2>2. ~SubmitRegister(t)
    BY <1>2, RegisterFacts
  <2>3. ASSUME SubmitStep(t) PROVE spc'[t] \notin {"new", "duplicate"}
    BY <2>3, SubmitFacts
  <2> QED BY <1>2, <2>1, <2>2, <2>3 DEF New
<1>3. ASSUME NEW t \in Task, t \in Range(dlq)
      PROVE  ~Has(t)' /\ t \notin New' /\ state'[t] \notin Unfinished \cup {"absent"}
  <2>1. ~Has(t) /\ t \notin New
    BY <1>1, <1>3
  <2>2. ~Has(t)'
    BY <2>1, RunTakes, RegisterFacts
  <2> QED BY <1>1, <1>2, <1>3, <2>1, <2>2, FreeState
<1>4. ASSUME NEW w \in Worker, WorkerLog(w), wres[w] = "dead", dlq' = Append(dlq, wtask[w])
      PROVE  /\ wtask[w] \in Task /\ wtask[w] \notin Range(dlq) /\ wtask[w] \notin New
             /\ state'[wtask[w]] \notin Unfinished \cup {"absent"}
  <2>1. wtask[w] \in Task /\ wpc[w] = "log" /\ state' = state
    BY <1>4, WorkerLogFacts
  <2>2. Holds(w, wtask[w])
    BY <2>1 DEF Holds, Holding
  <2>3. Has(wtask[w])
    BY <2>2 DEF Has
  <2>4. state[wtask[w]] \notin Unfinished /\ state[wtask[w]] # "absent"
    BY <1>4, <2>1, <2>3 DEF Finished, Known
  <2> QED BY <1>1, <2>1, <2>3, <2>4 DEF Own, UnknownInMemory
<1>5. IsInjective(dlq') /\ \A t \in Task : t \in Range(dlq') => ~Has(t)' /\ t \notin New' /\ state'[t] \notin Unfinished \cup {"absent"}
  <2>1. CASE dlq' = dlq
    BY <1>1, <1>3, <2>1
  <2>2. ASSUME NEW w \in Worker, WorkerLog(w), wres[w] = "dead", dlq' = Append(dlq, wtask[w])
        PROVE  /\ IsInjective(dlq')
               /\ \A t \in Task : t \in Range(dlq') => ~Has(t)' /\ t \notin New' /\ state'[t] \notin Unfinished \cup {"absent"}
    <3>1. /\ wtask[w] \in Task /\ wtask[w] \notin Range(dlq) /\ wtask[w] \notin New
          /\ state'[wtask[w]] \notin Unfinished \cup {"absent"}
      BY <1>4, <2>2
    <3>2. IsInjective(dlq') /\ \A t \in Task : t \in Range(dlq') <=> t \in Range(dlq) \/ t = wtask[w]
      BY SMTT(30), <1>0, <1>1, <2>2, <3>1, AppendFacts
    <3>3. ASSUME NEW t \in Task, t = wtask[w] PROVE ~Has(t)'
      BY <2>2, <3>3, FinalLetsGo
    <3>4. wtask[w] \notin New'
      BY <1>2, <3>1
    <3> QED BY <1>3, <3>1, <3>2, <3>3, <3>4
  <2> QED BY <2>1, <2>2, DLQMoves
<1>6. ASSUME NEW t \in Task, state'[t] = "Dead" PROVE t \in Range(dlq') \/ \E w \in Worker : Burying(w, t)'
  <2>1. t \in Range(dlq) => t \in Range(dlq')
    <3>1. CASE dlq' = dlq
      BY <3>1
    <3>2. ASSUME NEW w \in Worker, WorkerLog(w), wres[w] = "dead", dlq' = Append(dlq, wtask[w])
          PROVE  t \in Range(dlq) => t \in Range(dlq')
      BY SMTT(30), <1>0, <1>4, <3>2, AppendFacts
    <3> QED BY <3>1, <3>2, DLQMoves
  <2>2. ASSUME NEW w \in Worker, Burying(w, t) PROVE t \in Range(dlq') \/ Burying(w, t)'
    <3>1. CASE WorkerLog(w)
      <4>1. dlq' = Append(dlq, wtask[w]) /\ wtask[w] = t
        BY <2>2, <3>1, WorkerLogFacts DEF Burying
      <4> QED BY SMTT(30), <1>0, <4>1, AppendFacts
    <3>2. CASE ~WorkerLog(w)
      <4>1. wpc[w] = "log" /\ wres[w] = "dead" /\ wtask[w] = t
        BY <2>2 DEF Burying
      <4>2. InCall(w)' /\ wtask'[w] = wtask[w]
        BY <3>2, <4>1, CallEnds DEF InCall
      <4>3. ~WorkerStep(w)
        <5>1. ~(WorkerLoop(w) \/ WorkerDequeue(w) \/ WorkerExec(w) \/ WorkerPush(w) \/ WorkerPost(w))
          BY <4>1, WorkerIdleFacts
        <5>2. ~(WorkerMark(w) \/ WorkerStart(w) \/ WorkerLogStart(w) \/ WorkerSettle(w) \/ WorkerForce(w))
          BY <4>1, WorkerMarkFacts, WorkerLogStartFacts, WorkerSettleFacts, WorkerForceFacts
        <5> QED BY <3>2, <5>1, <5>2 DEF WorkerStep
      <4>4. UNCHANGED <<wpc[w], wres[w], wtask[w]>>
        BY <4>3, OtherSteps
      <4> QED BY <4>1, <4>4 DEF Burying
    <3> QED BY <3>1, <3>2
  <2>3. CASE state[t] = "Dead"
    BY <1>1, <2>1, <2>2, <2>3
  <2>4. CASE state[t] # "Dead"
    <3>1. PICK w \in Worker : WorkerStep(w) /\ Holds(w, t) /\ wpc[w] # "log"
      BY <1>6, <2>4, StateMoves
    <3>2. wtask[w] = t
      BY <3>1 DEF Holds
    <3>3. WorkerSettle(w)
      BY <1>6, <2>4, <3>1, <3>2, WorkerIdleFacts, WorkerMarkFacts, WorkerLogStartFacts, WorkerLogFacts, WorkerForceFacts
         DEF WorkerStep
    <3>4. Burying(w, t)'
      BY <1>6, <3>2, <3>3, WorkerSettleFacts DEF Burying
    <3> QED BY <3>4
  <2> QED BY <2>3, <2>4
<1>7. phase' # "replay" /\ phase' # "down"
  BY <1>0 DEF Booting
<1> QED BY <1>5, <1>6, <1>7 DEF DLQ

LEMMA ReplayDLQ ==
    ASSUME Types, Own, Kept, Base, Logged, Finished, DLQ, ReplayEntry, Regime
    PROVE  /\ IsInjective(dlq')
           /\ \A t \in Task : t \in Range(dlq') =>
                /\ t \notin New /\ state'[t] \notin Unfinished \cup {"absent"}
                /\ \E i \in DOMAIN wal : i < rpos' /\ wal[i].type = "dead" /\ wal[i].task = t
           /\ \A t \in Task : state'[t] = "Dead" => t \in Range(dlq')
<1> DEFINE r == wal[rpos]
<1>0. /\ phase = "replay" /\ Booting /\ rpos \in DOMAIN wal /\ rpos' = rpos + 1 /\ ApplyEntry(r)
      /\ dlq \in Seq(Task) /\ r.task \in Task /\ r.type \in RecordType /\ rpos \in Nat
      /\ state \in [Task -> TaskState \cup {"absent"}]
  BY ReplayFacts, RecordTypes DEF Types, RegistryTypes, Booting
<1>1. /\ IsInjective(dlq)
      /\ \A t \in Task : t \in Range(dlq) =>
           /\ t \notin New /\ state[t] \notin Unfinished \cup {"absent"}
           /\ \E i \in DOMAIN wal : i < rpos /\ wal[i].type = "dead" /\ wal[i].task = t
      /\ \A t \in Task : state[t] = "Dead" => t \in Range(dlq)
  <2>1. \A w \in Worker, t \in Task : ~Burying(w, t)
    BY <1>0 DEF Own, BootAlone, Burying
  <2> QED BY <1>0, <2>1 DEF DLQ
<1>2. r.task \in Range(dlq) => r.type = "cancel"
  BY SMTT(30), <1>0, <1>1 DEF Finished, Final
<1>3. r.task \notin New
  BY <1>0 DEF Own, UnknownOnDisk, Range
<1>4. ASSUME NEW t \in Task, t \in Range(dlq)
      PROVE  \E i \in DOMAIN wal : i < rpos' /\ wal[i].type = "dead" /\ wal[i].task = t
  <2>1. PICK i \in DOMAIN wal : i < rpos /\ wal[i].type = "dead" /\ wal[i].task = t
    BY <1>1, <1>4
  <2> QED BY SMTT(30), <1>0, <2>1, RecordTypes
<1>5. CASE r.type = "cancel"
  <2>1. dlq' = dlq /\ (state' = state \/ state' = [state EXCEPT ![r.task] = "Cancelled"])
    BY <1>0, <1>5 DEF ApplyEntry, registry, StateAfter, DLQAfter
  <2> QED BY SMTT(30), <1>0, <1>1, <1>4, <2>1 DEF Unfinished
<1>6. CASE r.type = "dead"
  <2>1. state' = [state EXCEPT ![r.task] = "Dead"] /\ dlq' = Append(dlq, r.task)
    BY <1>6, ReplayApplies DEF StateAfter, DLQAfter
  <2>2. IsInjective(dlq') /\ \A t \in Task : t \in Range(dlq') <=> t \in Range(dlq) \/ t = r.task
    BY SMTT(30), <1>0, <1>1, <1>2, <1>6, <2>1, AppendFacts
  <2>3. rpos < rpos'
    BY SMTT(30), <1>0
  <2> QED BY SMTT(30), <1>0, <1>1, <1>3, <1>4, <1>6, <2>1, <2>2, <2>3 DEF Unfinished
<1>7. CASE r.type \notin {"cancel", "dead"}
  <2>1. state' = [state EXCEPT ![r.task] = StateAfter(r)] /\ dlq' = dlq
    BY <1>7, ReplayApplies DEF DLQAfter
  <2>2. StateAfter(r) # "Dead"
    BY <1>0, <1>7 DEF StateAfter, RecordType, Kept, LogShape, Waiting
  <2>3. r.task \notin Range(dlq)
    BY <1>2, <1>7
  <2> QED BY SMTT(30), <1>0, <1>1, <1>4, <2>1, <2>2, <2>3
<1> QED BY <1>5, <1>6, <1>7

LEMMA RecoverDLQ ==
    ASSUME Types, Own, Kept, Base, Logged, Finished, DLQ, RecoverStep, Regime
    PROVE  DLQ'
<1>0. /\ UNCHANGED <<wal, spc>> /\ Booting /\ \A w \in Worker : wpc[w] = "exit"
      /\ \A w \in Worker, t \in Task : ~Burying(w, t)
  BY RecoverFrame DEF Own, BootAlone, Burying
<1>1. /\ IsInjective(dlq)
      /\ \A t \in Task : t \in Range(dlq) => ~Has(t) /\ t \notin New /\ state[t] \notin Unfinished \cup {"absent"}
      /\ \A t \in Task : state[t] = "Dead" => t \in Range(dlq)
  BY <1>0 DEF DLQ
<1>2. ASSUME NEW t \in Task, t \in Range(dlq) PROVE ~Has(t)'
  BY <1>1, <1>2, RecoverTakes DEF Unfinished
<1>3. CASE LoadSnapshot
  <2>1. phase = "down" /\ phase' = "replay" /\ dlq' = dlq /\ state' = snap.st
    BY <1>3, LoadFacts
  <2>2. \A t \in Task : t \notin Range(dlq)
    BY SMTT(30), <2>1 DEF DLQ, Range
  <2>3. \A t \in Task : state'[t] = "absent"
    BY SMTT(30), <1>0, <2>1, NothingLoaded DEF NoSnapshot
  <2> QED BY <1>1, <2>1, <2>2, <2>3 DEF DLQ
<1>4. CASE ReplayEntry
  <2>1. phase' = "replay" /\ New' = New
    BY <1>0, <1>4, ReplayFacts DEF New
  <2>2. \A t \in Task : ~Has(t)
    <3>1. phase = "replay"
      BY <1>4, ReplayFacts
    <3>2. /\ buffer = <<>> /\ heap = {} /\ ready = {} /\ cur = None /\ None \notin Task
          /\ \A t \in Task : spc[t] \notin InFlight
      BY <1>0, <3>1, NoneAssumption DEF Own, BootAlone
    <3>3. Range(buffer) = {}
      BY SMTT(30), <3>2 DEF Range
    <3> QED BY <1>0, <3>2, <3>3 DEF Has, Queued, Holds, Holding
  <2>3. \A t \in Task : ~Has(t)'
    <3>1. ASSUME NEW t \in Task, RebuildTask(t) PROVE FALSE
      BY <1>4, <3>1, ReplayFacts, RebuildFacts
    <3> QED BY <2>2, <3>1, RecoverTakes
  <2> QED BY <1>0, <1>4, <2>1, <2>3, ReplayDLQ DEF DLQ
<1>5. CASE OpenWAL \/ Start
  <2>1. phase' \notin {"down", "replay"} /\ UNCHANGED <<dlq, state>> /\ New' = New
    BY <1>0, <1>5, OpenFacts, StartFacts DEF New
  <2> QED BY <1>1, <1>2, <2>1 DEF DLQ
<1>6. ASSUME NEW u \in Task, RebuildTask(u) PROVE DLQ'
  <2>1. /\ phase' = "rebuild" /\ UNCHANGED dlq /\ New' = New
        /\ \A t \in Task : state'[t] # state[t] => state[t] \in {"Pending", "Running"} /\ state'[t] = "Pending"
    BY <1>0, <1>6, RebuildFacts DEF New
  <2> QED BY <1>1, <1>2, <2>1 DEF DLQ, Unfinished
<1> QED BY <1>3, <1>4, <1>5, <1>6 DEF RecoverStep

LEMMA NextDLQ ==
    Types /\ Types' /\ Own /\ Kept /\ Base /\ Known /\ Logged /\ Finished /\ DLQ /\ [Next]_vars => DLQ'
<1> SUFFICES ASSUME Types, Types', Own, Kept, Base, Known, Logged, Finished, DLQ, [Next]_vars, Regime' PROVE DLQ'
  BY DEF DLQ
<1>0. Regime
  BY RegimeMoves DEF Kept
<1>1. CASE UNCHANGED vars
  <2>1. UNCHANGED <<spc, buffer, heap, ready, cur, wpc, wtask, wres, state, dlq, wal, phase, rpos>>
    BY <1>1 DEF vars, disk, registry, queues, clients, workers, scheduler, process
  <2>2. \A t \in Task : (Has(t)' <=> Has(t)) /\ \A w \in Worker : Burying(w, t)' <=> Burying(w, t)
    BY <2>1 DEF Has, Queued, Holds, Burying
  <2> QED BY <1>0, <2>1, <2>2 DEF DLQ, New
<1>2. CASE RunStep
  BY <1>0, <1>2, RunDLQ
<1>3. CASE RecoverStep
  BY <1>0, <1>3, RecoverDLQ
<1>4. CASE Crash \/ ShutdownReturns
  <2>1. phase' = "down" /\ dlq' = <<>> /\ \A t \in Task : state'[t] = "absent"
    BY <1>4, EndFacts
  <2> QED BY SMTT(30), <2>1 DEF DLQ, IsInjective, Range
<1> QED BY <1>1, <1>2, <1>3, <1>4, Kinds

LEMMA DLQHolds == Types /\ DLQ => (Regime => DLQComplete)
<1> SUFFICES ASSUME Types, DLQ, Regime, NEW t \in Task, state[t] = "Dead", t \notin Range(dlq) PROVE t \in Owned
  BY DEF DLQ, DLQComplete
<1>1. PICK w \in Worker : Burying(w, t)
  BY DEF DLQ
<1>2. Has(t)
  BY <1>1 DEF Burying, Has, Holds, Holding
<1> QED BY <1>2, OwnedIsHas

-----------------------------------------------------------------------------
(* The theorems *)

\* The inductive invariant, relative to Types, Own, Kept and Recorded.
Outcome == Budget /\ Keys /\ DLQ

LEMMA InitOutcome == Init => Outcome
<1> SUFFICES ASSUME Init PROVE Outcome
  OBVIOUS
<1>1. /\ dlq = <<>> /\ phase = "down"
      /\ \A t \in Task : spc[t] = "new" /\ state[t] = "absent" /\ runs[t] = 0
      /\ \A w \in Worker : wpc[w] = "exit"
  BY DEF Init
<1>2. Budget
  <2>1. 0 \in 0 .. MaxRetries
    BY SMTT(30), NumbersAssumption
  <2>2. crashes = 0
    BY DEF Init
  <2>3. \A t \in Task : Paid(t, 0)
    BY SMTT(30), <1>1, <2>2 DEF Paid, Retrying
  <2> QED BY <2>1, <2>3 DEF Budget
<1>3. Keys
  BY <1>1 DEF Keys, Booting, Live, InFlight
<1>4. DLQ
  <2>1. DOMAIN dlq = {}
    BY SMTT(30), <1>1
  <2>2. IsInjective(dlq) /\ Range(dlq) = {}
    BY <2>1 DEF IsInjective, Range
  <2> QED BY <1>1, <2>2 DEF DLQ
<1> QED BY <1>2, <1>3, <1>4 DEF Outcome

LEMMA AlwaysOutcome == Spec => []Outcome
<1>1. Types /\ Types' /\ Own /\ Own' /\ Kept /\ Recorded /\ Outcome /\ [Next]_vars => Outcome'
  BY NextBudget, NextKeys, NextDLQ DEF Recorded, Outcome, Kept
<1> QED BY <1>1, InitOutcome, AlwaysTypes, AlwaysOwn, AlwaysKept, AlwaysRecorded, PTL DEF Spec

\* A handler is called at most MaxRetries + 1 times for a task, and once more for
\* every crash.
THEOREM EngineRetryBudget == Spec => [](Regime => RetryBudget)
<1>1. Types /\ Outcome => (Regime => RetryBudget)
  BY BudgetHolds DEF Outcome
<1> QED BY <1>1, AlwaysTypes, AlwaysOutcome, PTL

\* Of two submissions with one idempotency key at most one is acknowledged.
THEOREM EngineUniqueKey == Spec => [](Regime => UniqueKey)
<1>1. Outcome => (Regime => UniqueKey)
  BY KeysAreUnique DEF Outcome
<1> QED BY <1>1, AlwaysOutcome, PTL

\* The DLQ lists every dead task that its worker is done with, and lists it once,
\* also when it was rebuilt from the log.
THEOREM EngineDLQComplete == Spec => [](Regime => DLQComplete)
<1>1. Types /\ Outcome => (Regime => DLQComplete)
  BY DLQHolds DEF Outcome
<1> QED BY <1>1, AlwaysTypes, AlwaysOutcome, PTL

===============================================================================
