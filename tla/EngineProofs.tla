----------------------------- MODULE EngineProofs -----------------------------
(***************************************************************************)
(* The engine's types, who may hold a task, what each step may change, and *)
(* what a snapshot keeps of the tasks whose submission was acknowledged:   *)
(* for all sets of tasks, keys and workers, every configuration, and any   *)
(* number of crashes, shutdowns and recoveries.                            *)
(***************************************************************************)
EXTENDS Engine, TLAPS

-----------------------------------------------------------------------------
(* Sequences *)

\* Appending adds one element to the range, and keeps an injective sequence
\* injective when the element is new.
LEMMA AppendFacts ==
    ASSUME NEW S, NEW s \in Seq(S), NEW x \in S
    PROVE  /\ Append(s, x) \in Seq(S)
           /\ Append(s, x) # <<>>
           /\ Len(Append(s, x)) = Len(s) + 1
           /\ Range(Append(s, x)) = Range(s) \cup {x}
           /\ IsInjective(s) /\ x \notin Range(s) => IsInjective(Append(s, x))
<1> DEFINE a == Append(s, x)
<1>1. /\ a \in Seq(S) /\ a # <<>> /\ Len(a) = Len(s) + 1
      /\ DOMAIN a = DOMAIN s \cup {Len(s) + 1}
      /\ \A i \in DOMAIN s : a[i] = s[i]
      /\ a[Len(s) + 1] = x
  OBVIOUS
<1> HIDE DEF a
<1>2. Range(a) = Range(s) \cup {x}
  BY <1>1 DEF Range
<1>3. IsInjective(s) /\ x \notin Range(s) => IsInjective(a)
  BY <1>1 DEF Range, IsInjective
<1> QED BY <1>1, <1>2, <1>3 DEF a

\* A non-empty sequence is its head and its tail; of an injective one the head
\* is not in the tail.
LEMMA TailFacts ==
    ASSUME NEW S, NEW s \in Seq(S), s # <<>>
    PROVE  /\ Head(s) \in S
           /\ Tail(s) \in Seq(S)
           /\ Len(Tail(s)) = Len(s) - 1
           /\ Range(s) = Range(Tail(s)) \cup {Head(s)}
           /\ IsInjective(s) => IsInjective(Tail(s)) /\ Head(s) \notin Range(Tail(s))
<1> DEFINE t == Tail(s)
<1>1. /\ Head(s) = s[1] /\ s[1] \in S /\ t \in Seq(S)
      /\ Len(s) \in Nat \ {0} /\ Len(t) = Len(s) - 1
      /\ DOMAIN s = 1 .. Len(s) /\ DOMAIN t = 1 .. Len(s) - 1
      /\ \A i \in 1 .. Len(s) - 1 : t[i] = s[i + 1]
  OBVIOUS
<1> HIDE DEF t
<1>2. /\ 1 \in DOMAIN s
      /\ \A i \in DOMAIN t : i + 1 \in DOMAIN s /\ i + 1 # 1 /\ t[i] = s[i + 1]
      /\ \A i \in DOMAIN s \ {1} : i - 1 \in DOMAIN t /\ t[i - 1] = s[i]
      /\ \A i, j \in DOMAIN t : i + 1 = j + 1 => i = j
  BY <1>1
<1>3. Range(s) = Range(t) \cup {s[1]}
  BY <1>2 DEF Range
<1>4. IsInjective(s) => IsInjective(t) /\ s[1] \notin Range(t)
  BY <1>2 DEF Range, IsInjective
<1> QED BY <1>1, <1>3, <1>4 DEF t

\* A sequence that is not empty has a last element.
LEMMA LastFacts ==
    ASSUME NEW S, NEW s \in Seq(S), s # <<>>
    PROVE  Len(s) \in DOMAIN s /\ s[Len(s)] \in S
OBVIOUS

\* Most steps are first-order; those that need arithmetic or records say SMT.
USE ZenonT(20)

-----------------------------------------------------------------------------
(* Types, by group of variables *)

\* what a worker does between Dequeue and the outcome's record or push
Holding == {"got", "start", "logstart", "exec", "settle", "log", "push"}

\* An Enqueue record carries a state; Recover stores it in the registry.
DiskTypes == /\ wal \in Seq(Record) /\ walOld \in Seq(Record) /\ snap \in Snapshot
             /\ walSeq \in Nat /\ walClosed \in BOOLEAN
             /\ \A i \in DOMAIN wal : wal[i].type = "enqueue" => wal[i].st # "none"

RegistryTypes == /\ state \in [Task -> TaskState \cup {"absent"}] /\ retries \in [Task -> Nat]
                 /\ expires \subseteq Task /\ idemp \in [Key -> Task \cup {None}] /\ dlq \in Seq(Task)

QueueTypes == /\ buffer \in Seq(Task) /\ Len(buffer) <= Capacity
              /\ heap \subseteq Task /\ everPushed \subseteq Task

ClientTypes == /\ spc \in [Task -> InFlight \cup {"new", "duplicate", "failed", "acked"}]
               /\ sdata \in [Task -> TaskState \cup {"absent"}]
               /\ cpc \in [Task -> {"idle", "set", "log", "remove", "done"}]

\* A worker inside its loop body has a task, and one that is about to log has
\* one of the three outcomes.
WorkerTypes == /\ wpc \in [Worker -> Holding \cup {"exit", "loop", "deq", "post", "force"}]
               /\ wtask \in [Worker -> Task \cup {None}]
               /\ wres \in [Worker -> {"none", "ok", "err", "fatal", "complete", "retry", "dead"}]
               /\ runs \in [Task -> Nat]
               /\ \A w \in Worker : wpc[w] \in Holding \cup {"post", "force"} => wtask[w] \in Task
               /\ \A w \in Worker : wpc[w] = "log" => wres[w] \in {"complete", "retry", "dead"}

SchedulerTypes == sched \in {"run", "exit"} /\ ready \subseteq Task /\ cur \in Task \cup {None}

CkptTypes == /\ kpc \in {"idle", "copy", "write", "close", "rename", "open", "exit"}
             /\ kcopy \in Snapshot /\ ktodo \subseteq Task

ProcessTypes == /\ phase \in {"down", "replay", "rebuild", "up", "drain", "cancel", "stop", "final"}
                /\ rpos \in Nat \ {0} /\ rtodo \subseteq Task
                /\ crashes \in Nat /\ stops \in Nat

Types == /\ DiskTypes /\ RegistryTypes /\ QueueTypes /\ ClientTypes
         /\ WorkerTypes /\ SchedulerTypes /\ CkptTypes /\ ProcessTypes

LEMMA TypesOK == Types => TypeOK
BY DEF Types, DiskTypes, RegistryTypes, QueueTypes, ClientTypes, WorkerTypes, SchedulerTypes,
       CkptTypes, ProcessTypes, TypeOK, Holding

\* A group whose variables do not change keeps its types.
LEMMA Same ==
    /\ DiskTypes /\ UNCHANGED <<disk, log>> => DiskTypes'
    /\ RegistryTypes /\ UNCHANGED registry => RegistryTypes'
    /\ QueueTypes /\ UNCHANGED queues => QueueTypes'
    /\ ClientTypes /\ UNCHANGED clients => ClientTypes'
    /\ WorkerTypes /\ UNCHANGED workers => WorkerTypes'
    /\ SchedulerTypes /\ UNCHANGED scheduler => SchedulerTypes'
    /\ CkptTypes /\ UNCHANGED ckpt => CkptTypes'
    /\ ProcessTypes /\ UNCHANGED process => ProcessTypes'
<1>1. DiskTypes /\ UNCHANGED <<disk, log>> => DiskTypes'
  BY DEF DiskTypes, disk, log
<1>2. RegistryTypes /\ UNCHANGED registry => RegistryTypes'
  BY DEF RegistryTypes, registry
<1>3. QueueTypes /\ UNCHANGED queues => QueueTypes'
  BY DEF QueueTypes, queues
<1>4. ClientTypes /\ UNCHANGED clients => ClientTypes'
  BY DEF ClientTypes, clients
<1>5. WorkerTypes /\ UNCHANGED workers => WorkerTypes'
  BY DEF WorkerTypes, workers
<1>6. SchedulerTypes /\ UNCHANGED scheduler => SchedulerTypes'
  BY DEF SchedulerTypes, scheduler
<1>7. CkptTypes /\ UNCHANGED ckpt => CkptTypes'
  BY DEF CkptTypes, ckpt
<1>8. ProcessTypes /\ UNCHANGED process => ProcessTypes'
  BY DEF ProcessTypes, process
<1> QED BY <1>1, <1>2, <1>3, <1>4, <1>5, <1>6, <1>7, <1>8

LEMMA NoSnapshotType == NoSnapshot \in Snapshot
BY DEF NoSnapshot, Snapshot

LEMMA InitTypes == Init => Types
<1> SUFFICES ASSUME Init PROVE Types
  OBVIOUS
<1> USE DEF Init
<1>1. DiskTypes
  BY SMTT(30), NoSnapshotType DEF DiskTypes
<1>2. RegistryTypes
  BY SMTT(30) DEF RegistryTypes
<1>3. QueueTypes
  BY SMTT(30), NumbersAssumption DEF QueueTypes
<1>4. ClientTypes
  BY DEF ClientTypes
<1>5. WorkerTypes
  BY DEF WorkerTypes, Holding
<1>6. SchedulerTypes /\ CkptTypes /\ ProcessTypes
  BY SMTT(30), NoSnapshotType DEF SchedulerTypes, CkptTypes, ProcessTypes
<1> QED BY <1>1, <1>2, <1>3, <1>4, <1>5, <1>6 DEF Types

\* Append to the log writes a well-formed record or nothing.
LEMMA LogTypes ==
    ASSUME DiskTypes, NEW type \in RecordType, NEW t \in Task,
           NEW st \in TaskState \cup {"absent", "none"}, NEW rc \in Nat,
           type = "enqueue" => st # "none",
           Log(type, t, st, rc), UNCHANGED <<walOld, snap, walClosed>>
    PROVE  DiskTypes'
<1>1. CASE walClosed
  BY <1>1 DEF DiskTypes, Log
<1>2. CASE ~walClosed
  <2> DEFINE r == [seq |-> walSeq + 1, type |-> type, task |-> t, st |-> st, rc |-> rc]
  <2>1. walSeq' = walSeq + 1 /\ wal' = Append(wal, r)
    BY <1>2 DEF Log
  <2>2. walSeq + 1 \in Nat
    BY SMTT(30) DEF DiskTypes
  <2>3. r \in Record /\ (r.type = "enqueue" => r.st # "none")
    BY <2>2 DEF Record
  <2> HIDE DEF r
  <2>4. wal' \in Seq(Record) /\ Range(wal') = Range(wal) \cup {r}
    BY SMTT(30), <2>1, <2>3, AppendFacts DEF DiskTypes
  <2>5. ASSUME NEW i \in DOMAIN wal', wal'[i].type = "enqueue" PROVE wal'[i].st # "none"
    <3>1. wal'[i] = r \/ wal'[i] \in Range(wal)
      BY <2>4 DEF Range
    <3>2. \A x \in Range(wal) : x.type = "enqueue" => x.st # "none"
      BY DEF DiskTypes, Range
    <3> QED BY <2>3, <2>5, <3>1, <3>2
  <2> QED BY <2>1, <2>2, <2>4, <2>5 DEF DiskTypes
<1> QED BY <1>1, <1>2

-----------------------------------------------------------------------------
(* Every action preserves the types *)

LEMMA SubmitRegisterTypes == ASSUME Types, NEW t \in Task, SubmitRegister(t) PROVE Types'
<1> USE DEF Types, SubmitRegister
<1>1. CASE KeyTaken(t)
  <2>1. spc' = [spc EXCEPT ![t] = "duplicate"] /\ UNCHANGED registry
    BY <1>1 DEF registry
  <2>2. ClientTypes'
    BY <2>1 DEF ClientTypes
  <2> QED BY <2>1, <2>2, Same
<1>2. CASE ~KeyTaken(t)
  <2>1. ClientTypes'
    BY <1>2 DEF ClientTypes, InFlight
  <2>2. state' \in [Task -> TaskState \cup {"absent"}] /\ expires' \subseteq Task
    BY <1>2 DEF RegistryTypes, TaskState
  <2>3. idemp' \in [Key -> Task \cup {None}]
    BY <1>2, KeyAssumption DEF RegistryTypes
  <2>4. RegistryTypes'
    BY <2>2, <2>3 DEF RegistryTypes
  <2> QED BY <2>1, <2>4, Same
<1> QED BY <1>1, <1>2

LEMMA SubmitStepTypes == ASSUME Types, NEW t \in Task, SubmitStep(t) PROVE Types'
<1> USE DEF Types
<1>1. CASE SubmitMarshal(t)
  <2>1. ClientTypes'
    BY <1>1 DEF SubmitMarshal, ClientTypes, RegistryTypes, InFlight
  <2> QED BY <1>1, <2>1, Same DEF SubmitMarshal
<1>2. CASE SubmitAppend(t)
  <2>1. DiskTypes'
    <3>1. sdata[t] \in TaskState \cup {"absent", "none"} /\ sdata[t] # "none"
      BY DEF ClientTypes, TaskState
    <3>2. "enqueue" \in RecordType /\ 0 \in Nat
      BY DEF RecordType
    <3> QED BY <1>2, <3>1, <3>2, LogTypes DEF SubmitAppend
  <2>2. ClientTypes'
    BY <1>2 DEF SubmitAppend, ClientTypes, InFlight
  <2> QED BY <1>2, <2>1, <2>2, Same DEF SubmitAppend
<1>3. CASE SubmitRollback(t)
  <2>1. ClientTypes'
    BY <1>3 DEF SubmitRollback, ClientTypes
  <2>2. RegistryTypes'
    BY <1>3 DEF SubmitRollback, RegistryTypes
  <2> QED BY <1>3, <2>1, <2>2, Same DEF SubmitRollback
<1>4. CASE SubmitRoute(t)
  <2>1. ClientTypes'
    BY <1>4 DEF SubmitRoute, ClientTypes, InFlight
  <2> QED BY <1>4, <2>1, Same DEF SubmitRoute
<1>5. CASE SubmitPush(t)
  <2>1. ClientTypes' /\ QueueTypes'
    BY <1>5 DEF SubmitPush, ClientTypes, QueueTypes
  <2> QED BY <1>5, <2>1, Same DEF SubmitPush
<1>6. CASE SubmitEnqueue(t)
  <2>1. ClientTypes'
    BY <1>6 DEF SubmitEnqueue, ClientTypes
  <2>2. QueueTypes'
    <3>1. CASE CanEnqueue /\ buffer' = Append(buffer, t)
      BY SMTT(30), <1>6, <3>1, AppendFacts, NumbersAssumption DEF SubmitEnqueue, QueueTypes, CanEnqueue, HasRoom
    <3>2. CASE UNCHANGED buffer
      BY <1>6, <3>2 DEF SubmitEnqueue, QueueTypes
    <3> QED BY <1>6, <3>1, <3>2 DEF SubmitEnqueue
  <2> QED BY <1>6, <2>1, <2>2, Same DEF SubmitEnqueue
<1> QED BY <1>1, <1>2, <1>3, <1>4, <1>5, <1>6 DEF SubmitStep

LEMMA CancelTypes == ASSUME Types, NEW t \in Task, CancelCheck(t) \/ CancelStep(t) PROVE Types'
<1> USE DEF Types
<1>1. CASE CancelCheck(t)
  <2>1. ClientTypes'
    BY <1>1 DEF CancelCheck, ClientTypes
  <2> QED BY <1>1, <2>1, Same DEF CancelCheck
<1>2. CASE CancelSet(t)
  <2>1. ClientTypes'
    BY <1>2 DEF CancelSet, ClientTypes
  <2>2. RegistryTypes'
    BY <1>2 DEF CancelSet, RegistryTypes, TaskState
  <2> QED BY <1>2, <2>1, <2>2, Same DEF CancelSet
<1>3. CASE CancelLog(t)
  <2>1. ClientTypes'
    BY <1>3 DEF CancelLog, ClientTypes
  <2>2. DiskTypes'
    <3>1. "cancel" \in RecordType /\ 0 \in Nat /\ "none" \in TaskState \cup {"absent", "none"}
      BY DEF RecordType
    <3> QED BY <1>3, <3>1, LogTypes DEF CancelLog
  <2> QED BY <1>3, <2>1, <2>2, Same DEF CancelLog
<1>4. CASE CancelRemove(t)
  <2>1. ClientTypes'
    BY <1>4 DEF CancelRemove, ClientTypes
  <2>2. QueueTypes'
    BY <1>4 DEF CancelRemove, QueueTypes
  <2> QED BY <1>4, <2>1, <2>2, Same DEF CancelRemove
<1> QED BY <1>1, <1>2, <1>3, <1>4 DEF CancelStep

LEMMA WorkerStepTypes == ASSUME Types, NEW w \in Worker, WorkerStep(w) PROVE Types'
<1> USE DEF Types
<1>1. CASE WorkerLoop(w)
  <2>1. WorkerTypes'
    BY <1>1 DEF WorkerLoop, WorkerTypes, Holding
  <2> QED BY <1>1, <2>1, Same DEF WorkerLoop
<1>2. CASE WorkerDequeue(w)
  <2>1. CASE buffer # <<>>
    <3>1. /\ Head(buffer) \in Task /\ Tail(buffer) \in Seq(Task)
          /\ Len(Tail(buffer)) = Len(buffer) - 1 /\ Len(buffer) \in Nat
      BY SMTT(30), <2>1, TailFacts DEF QueueTypes
    <3>2. QueueTypes'
      <4>1. buffer' = Tail(buffer) /\ heap' = heap /\ everPushed' = everPushed
        BY <1>2, <2>1 DEF WorkerDequeue
      <4>2. Len(Tail(buffer)) <= Capacity
        BY SMTT(30), <3>1, NumbersAssumption DEF QueueTypes
      <4> QED BY <3>1, <4>1, <4>2 DEF QueueTypes
    <3>3. WorkerTypes'
      BY <1>2, <2>1, <3>1 DEF WorkerDequeue, WorkerTypes, Holding
    <3> QED BY <1>2, <3>2, <3>3, Same DEF WorkerDequeue
  <2>2. CASE buffer = <<>>
    <3>1. WorkerTypes'
      BY <1>2, <2>2 DEF WorkerDequeue, WorkerTypes, Holding
    <3>2. UNCHANGED queues
      BY <1>2, <2>2 DEF WorkerDequeue, queues
    <3> QED BY <1>2, <3>1, <3>2, Same DEF WorkerDequeue
  <2> QED BY <2>1, <2>2
<1>3. CASE WorkerMark(w)
  <2>1. WorkerTypes'
    BY <1>3 DEF WorkerMark, WorkerTypes, Holding
  <2>2. RegistryTypes'
    BY <1>3 DEF WorkerMark, RegistryTypes, TaskState
  <2> QED BY <1>3, <2>1, <2>2, Same DEF WorkerMark
<1>4. CASE WorkerStart(w)
  <2>1. WorkerTypes'
    BY <1>4 DEF WorkerStart, WorkerTypes, Holding
  <2>2. RegistryTypes'
    BY <1>4 DEF WorkerStart, RegistryTypes, TaskState
  <2> QED BY <1>4, <2>1, <2>2, Same DEF WorkerStart
<1>5. CASE WorkerLogStart(w)
  <2>1. wtask[w] \in Task
    BY <1>5 DEF WorkerLogStart, WorkerTypes, Holding
  <2>2. WorkerTypes'
    BY SMTT(30), <1>5, <2>1 DEF WorkerLogStart, WorkerTypes, Holding
  <2>3. DiskTypes'
    <3>1. "start" \in RecordType /\ 0 \in Nat /\ "none" \in TaskState \cup {"absent", "none"}
      BY DEF RecordType
    <3> QED BY <1>5, <2>1, <3>1, LogTypes DEF WorkerLogStart
  <2> QED BY <1>5, <2>2, <2>3, Same DEF WorkerLogStart
<1>6. CASE WorkerExec(w)
  <2>1. WorkerTypes'
    BY <1>6, OutcomesAssumption DEF WorkerExec, WorkerTypes, Holding
  <2> QED BY <1>6, <2>1, Same DEF WorkerExec
<1>7. CASE WorkerSettle(w)
  <2>1. wtask[w] \in Task
    BY <1>7 DEF WorkerSettle, WorkerTypes, Holding
  <2>2. WorkerTypes'
    BY <1>7 DEF WorkerSettle, WorkerTypes, Holding
  <2>3. RegistryTypes'
    <3>1. state' \in [Task -> TaskState \cup {"absent"}]
      BY <1>7 DEF WorkerSettle, RegistryTypes, TaskState
    <3>2. retries' \in [Task -> Nat]
      BY SMTT(15), ZenonT(40), <1>7, <2>1 DEF WorkerSettle, RegistryTypes
    <3> QED BY <1>7, <3>1, <3>2 DEF WorkerSettle, RegistryTypes
  <2> QED BY <1>7, <2>2, <2>3, Same DEF WorkerSettle
<1>8. CASE WorkerLog(w)
  <2>1. wtask[w] \in Task /\ wres[w] \in {"complete", "retry", "dead"}
    BY <1>8 DEF WorkerLog, WorkerTypes, Holding
  <2>2. WorkerTypes'
    BY <1>8 DEF WorkerLog, WorkerTypes, Holding
  <2>3. DiskTypes'
    <3> DEFINE rc == IF wres[w] = "retry" THEN retries[wtask[w]] ELSE 0
    <3>1. wres[w] \in RecordType /\ wres[w] # "enqueue" /\ "none" \in TaskState \cup {"absent", "none"}
      BY <2>1 DEF RecordType
    <3>2. rc \in Nat
      BY <2>1 DEF RegistryTypes
    <3>3. Log(wres[w], wtask[w], "none", rc) /\ UNCHANGED <<walOld, snap, walClosed>>
      BY <1>8 DEF WorkerLog
    <3> HIDE DEF rc
    <3> QED BY <2>1, <3>1, <3>2, <3>3, LogTypes
  <2>4. RegistryTypes'
    <3>1. (dlq' = dlq \/ dlq' = Append(dlq, wtask[w])) /\ UNCHANGED <<state, retries, expires, idemp>>
      BY <1>8 DEF WorkerLog
    <3>2. dlq \in Seq(Task)
      BY DEF RegistryTypes
    <3>3. dlq' \in Seq(Task)
      BY SMTT(30), <2>1, <3>1, <3>2, AppendFacts
    <3> QED BY <3>1, <3>3 DEF RegistryTypes
  <2> QED BY <1>8, <2>2, <2>3, <2>4, Same DEF WorkerLog
<1>9. CASE WorkerPush(w)
  <2>1. WorkerTypes' /\ QueueTypes'
    BY <1>9 DEF WorkerPush, WorkerTypes, QueueTypes, Holding
  <2> QED BY <1>9, <2>1, Same DEF WorkerPush
<1>10. CASE WorkerPost(w)
  <2>1. WorkerTypes'
    BY <1>10 DEF WorkerPost, WorkerDone, WorkerTypes, Holding
  <2> QED BY <1>10, <2>1, Same DEF WorkerPost
<1>11. CASE WorkerForce(w)
  <2>1. WorkerTypes'
    BY <1>11 DEF WorkerForce, WorkerDone, WorkerTypes, Holding
  <2>2. RegistryTypes'
    BY <1>11 DEF WorkerForce, RegistryTypes, TaskState
  <2> QED BY <1>11, <2>1, <2>2, Same DEF WorkerForce
<1> QED BY <1>1, <1>2, <1>3, <1>4, <1>5, <1>6, <1>7, <1>8, <1>9, <1>10, <1>11 DEF WorkerStep

LEMMA SchedStepTypes == ASSUME Types, SchedStep PROVE Types'
<1> USE DEF Types
<1>1. CASE SchedPromote
  <2>1. PICK due \in (SUBSET heap) \ {{}} :
          /\ heap' = heap \ due
          /\ ready' = due
          /\ state' = [t \in Task |-> IF t \in due THEN "Pending" ELSE state[t]]
    BY <1>1 DEF SchedPromote
  <2>2. QueueTypes' /\ SchedulerTypes'
    <3>1. UNCHANGED <<buffer, everPushed, sched, cur>>
      BY <1>1 DEF SchedPromote
    <3>2. heap' \subseteq Task /\ ready' \subseteq Task
      BY <2>1 DEF QueueTypes
    <3> QED BY <3>1, <3>2 DEF QueueTypes, SchedulerTypes
  <2>3. RegistryTypes'
    BY <1>1, <2>1 DEF SchedPromote, RegistryTypes, TaskState
  <2> QED BY <1>1, <2>2, <2>3, Same DEF SchedPromote
<1>2. CASE SchedCheck
  <2>1. SchedulerTypes'
    BY <1>2 DEF SchedCheck, SchedulerTypes
  <2>2. RegistryTypes'
    BY <1>2 DEF SchedCheck, RegistryTypes, TaskState
  <2> QED BY <1>2, <2>1, <2>2, Same DEF SchedCheck
<1>3. CASE SchedEnqueue
  <2>1. cur \in Task
    BY <1>3 DEF SchedEnqueue, SchedulerTypes
  <2>2. SchedulerTypes'
    BY <1>3 DEF SchedEnqueue, SchedulerTypes
  <2>3. RegistryTypes'
    BY <1>3, <2>1 DEF SchedEnqueue, RegistryTypes, TaskState
  <2>4. QueueTypes'
    <3>1. CASE CanEnqueue /\ buffer' = Append(buffer, cur) /\ UNCHANGED <<heap, everPushed>>
      BY SMTT(30), <2>1, <3>1, AppendFacts, NumbersAssumption DEF QueueTypes, CanEnqueue, HasRoom
    <3>2. CASE UNCHANGED buffer
      BY <1>3, <2>1, <3>2, NoneAssumption DEF SchedEnqueue, QueueTypes
    <3> QED BY <1>3, <3>1, <3>2 DEF SchedEnqueue
  <2> QED BY <1>3, <2>2, <2>3, <2>4, Same DEF SchedEnqueue
<1>4. CASE SchedExit
  <2>1. SchedulerTypes'
    BY <1>4 DEF SchedExit, SchedulerTypes
  <2> QED BY <1>4, <2>1, Same DEF SchedExit
<1> QED BY <1>1, <1>2, <1>3, <1>4 DEF SchedStep

LEMMA CkptTypesStep == ASSUME Types, CkptBegin \/ CkptStep \/ CkptExit PROVE Types'
<1> USE DEF Types
<1>1. CASE CkptBegin
  <2>1. [NoSnapshot EXCEPT !.seq = walSeq] \in Snapshot
    BY DEF DiskTypes, NoSnapshot, Snapshot
  <2>2. CkptTypes'
    BY <1>1, <2>1 DEF CkptBegin, CkptTypes, CkptTasks, Registered
  <2> QED BY <1>1, <2>2, Same DEF CkptBegin
<1>2. CASE CkptCopy
  <2>1. PICK t \in ktodo : /\ ktodo' = ktodo \ {t}
                           /\ kcopy' = [kcopy EXCEPT !.st[t] = state[t], !.rc[t] = retries[t]]
    BY <1>2 DEF CkptCopy
  <2>2. t \in Task /\ state[t] \in TaskState \cup {"absent"} /\ retries[t] \in Nat
    BY <2>1 DEF CkptTypes, RegistryTypes
  <2>3. kcopy' \in Snapshot
    BY <2>1, <2>2 DEF CkptTypes, Snapshot
  <2>4. CkptTypes'
    BY <1>2, <2>1, <2>3 DEF CkptCopy, CkptTypes
  <2> QED BY <1>2, <2>4, Same DEF CkptCopy
<1>3. CASE CkptUnlock
  <2>1. CkptTypes'
    BY <1>3 DEF CkptUnlock, CkptTypes
  <2> QED BY <1>3, <2>1, Same DEF CkptUnlock
<1>4. CASE CkptWrite
  <2>1. CkptTypes' /\ DiskTypes'
    BY <1>4, NoSnapshotType DEF CkptWrite, CkptTypes, DiskTypes, log
  <2> QED BY <1>4, <2>1, Same DEF CkptWrite
<1>5. CASE CkptClose
  <2>1. CkptTypes' /\ DiskTypes'
    BY <1>5 DEF CkptClose, CkptTypes, DiskTypes, disk
  <2> QED BY <1>5, <2>1, Same DEF CkptClose
<1>6. CASE CkptRename
  <2>1. CkptTypes' /\ DiskTypes'
    BY SMTT(15), ZenonT(40), <1>6 DEF CkptRename, CkptTypes, DiskTypes, log
  <2> QED BY <1>6, <2>1, Same DEF CkptRename
<1>7. CASE CkptOpen
  <2>1. CkptTypes' /\ DiskTypes'
    BY <1>7 DEF CkptOpen, CkptReturn, CkptTypes, DiskTypes, disk
  <2> QED BY <1>7, <2>1, Same DEF CkptOpen
<1>8. CASE CkptFault
  <2>1. CkptTypes'
    BY <1>8, NoSnapshotType DEF CkptFault, CkptReturn, CkptTypes
  <2>2. walClosed' \in BOOLEAN
    BY <1>8 DEF CkptFault, DiskTypes
  <2>3. walOld' \in Seq(Record)
    <3>1. walOld' = walOld \/ walOld' = <<>>
      BY <1>8 DEF CkptFault
    <3>2. walOld \in Seq(Record) /\ <<>> \in Seq(Record)
      BY SMTT(15), ZenonT(40) DEF DiskTypes
    <3> QED BY <3>1, <3>2
  <2>4. DiskTypes'
    BY <1>8, <2>2, <2>3 DEF CkptFault, DiskTypes
  <2> QED BY <1>8, <2>1, <2>4, Same DEF CkptFault
<1>9. CASE CkptExit
  <2>1. CkptTypes'
    BY <1>9 DEF CkptExit, CkptTypes
  <2> QED BY <1>9, <2>1, Same DEF CkptExit
<1> QED BY <1>1, <1>2, <1>3, <1>4, <1>5, <1>6, <1>7, <1>8, <1>9 DEF CkptStep

LEMMA RecoverStepTypes == ASSUME Types, RecoverStep PROVE Types'
<1> USE DEF Types
<1>1. CASE LoadSnapshot
  <2>1. snap.st \in [Task -> TaskState \cup {"absent"}] /\ snap.rc \in [Task -> Nat]
    BY DEF DiskTypes, Snapshot
  <2>2. RegistryTypes'
    <3>1. state' = snap.st /\ retries' = snap.rc /\ UNCHANGED <<expires, dlq>>
      BY <1>1 DEF LoadSnapshot
    <3>2. idemp' \in [Key -> Task \cup {None}]
      BY <1>1 DEF LoadSnapshot
    <3> QED BY <2>1, <3>1, <3>2 DEF RegistryTypes
  <2>3. ProcessTypes'
    BY SMTT(15), ZenonT(40), <1>1 DEF LoadSnapshot, ProcessTypes
  <2> QED BY <1>1, <2>2, <2>3, Same DEF LoadSnapshot
<1>2. CASE ReplayEntry
  <2> DEFINE r == wal[rpos]
  <2>1. r \in Record /\ (r.type = "enqueue" => r.st # "none")
    BY SMTT(30), <1>2 DEF ReplayEntry, DiskTypes
  <2>2. ApplyEntry(r)
    BY <1>2 DEF ReplayEntry
  <2> HIDE DEF r
  <2>3. r.task \in Task /\ r.rc \in Nat /\ StateAfter(r) \in TaskState \cup {"absent"}
    BY <2>1 DEF Record, RecordType, StateAfter, TaskState
  <2>4. RegistryTypes'
    <3>1. CASE UNCHANGED registry
      BY <3>1, Same
    <3>2. CASE ~UNCHANGED registry
      <4>1. state' \in [Task -> TaskState \cup {"absent"}] /\ retries' \in [Task -> Nat]
        BY <2>2, <2>3, <3>2 DEF ApplyEntry, RegistryTypes
      <4>2. /\ idemp' = [idemp EXCEPT ![KeyOf[r.task]] = r.task] \/ idemp' = idemp
            /\ expires' = expires \cup {r.task} \/ expires' = expires
            /\ dlq' = Append(dlq, r.task) \/ dlq' = dlq
        BY <2>2, <3>2 DEF ApplyEntry, DLQAfter
      <4>3. idemp' \in [Key -> Task \cup {None}] /\ expires' \subseteq Task
        BY <2>3, <4>2 DEF RegistryTypes
      <4>4. dlq' \in Seq(Task)
        <5>1. dlq \in Seq(Task)
          BY DEF RegistryTypes
        <5>2. Append(dlq, r.task) \in Seq(Task)
          BY <2>3, <5>1, AppendFacts
        <5> QED BY <4>2, <5>1, <5>2
      <4> QED BY <4>1, <4>3, <4>4 DEF RegistryTypes
    <3> QED BY <3>1, <3>2
  <2>5. ProcessTypes'
    BY SMTT(15), ZenonT(40), <1>2 DEF ReplayEntry, ProcessTypes
  <2> QED BY <1>2, <2>4, <2>5, Same DEF ReplayEntry
<1>3. CASE OpenWAL
  <2>1. wal # <<>> => Len(wal) \in DOMAIN wal /\ wal[Len(wal)].seq \in Nat
    <3> SUFFICES ASSUME wal # <<>> PROVE Len(wal) \in DOMAIN wal /\ wal[Len(wal)].seq \in Nat
      OBVIOUS
    <3>1. Len(wal) \in DOMAIN wal /\ wal[Len(wal)] \in Record
      <4>1. wal \in Seq(Record)
        BY DEF DiskTypes
      <4> QED BY <4>1, LastFacts
    <3> QED BY <3>1 DEF Record
  <2>2. DiskTypes'
    BY <1>3, <2>1 DEF OpenWAL, DiskTypes, disk
  <2>3. ProcessTypes'
    BY <1>3 DEF OpenWAL, ProcessTypes, Registered
  <2> QED BY <1>3, <2>2, <2>3, Same DEF OpenWAL
<1>4. ASSUME NEW t \in Task, RebuildTask(t) PROVE Types'
  <2>1. ProcessTypes'
    BY <1>4 DEF RebuildTask, ProcessTypes
  <2>2. RegistryTypes'
    <3>1. state' \in [Task -> TaskState \cup {"absent"}]
      BY <1>4 DEF RebuildTask, RegistryTypes, TaskState
    <3>2. retries' \in [Task -> Nat]
      BY SMTT(15), ZenonT(40), <1>4 DEF RebuildTask, RegistryTypes
    <3> QED BY <1>4, <3>1, <3>2 DEF RebuildTask, RegistryTypes
  <2>3. QueueTypes'
    <3>1. CASE CanEnqueue /\ buffer' = Append(buffer, t) /\ UNCHANGED <<heap, everPushed>>
      BY SMTT(15), ZenonT(40), <3>1, AppendFacts, NumbersAssumption DEF QueueTypes, CanEnqueue, HasRoom
    <3>2. CASE UNCHANGED buffer
      BY <1>4, <3>2 DEF RebuildTask, QueueTypes, queues
    <3> QED BY <1>4, <3>1, <3>2 DEF RebuildTask, queues
  <2> QED BY <1>4, <2>1, <2>2, <2>3, Same DEF RebuildTask
<1>5. CASE Start
  <2>1. ProcessTypes' /\ CkptTypes' /\ SchedulerTypes'
    BY <1>5 DEF Start, ProcessTypes, CkptTypes, SchedulerTypes
  <2>2. WorkerTypes'
    BY <1>5 DEF Start, WorkerTypes, Holding
  <2> QED BY <1>5, <2>1, <2>2, Same DEF Start
<1> QED BY <1>1, <1>2, <1>3, <1>4, <1>5 DEF RecoverStep

LEMMA ProcessEndsTypes ==
    ASSUME Types, ProcessEnds, crashes' \in Nat, stops' \in Nat
    PROVE  Types'
<1> USE DEF Types
<1>1. DiskTypes'
  <2>1. UNCHANGED disk /\ walSeq' = 0 /\ walClosed' = TRUE
    BY DEF ProcessEnds
  <2> QED BY <2>1 DEF DiskTypes, disk
<1>2. RegistryTypes'
  <2>1. /\ state' = [t \in Task |-> "absent"] /\ retries' = [t \in Task |-> 0]
        /\ expires' = {} /\ idemp' = [k \in Key |-> None] /\ dlq' = <<>>
    BY DEF ProcessEnds
  <2> QED BY SMTT(30), <2>1 DEF RegistryTypes
<1>3. QueueTypes'
  <2>1. buffer' = <<>> /\ heap' = {} /\ everPushed' = {}
    BY DEF ProcessEnds
  <2> QED BY SMTT(30), <2>1, NumbersAssumption DEF QueueTypes
<1>4. ClientTypes'
  <2>1. /\ spc' = [t \in Task |-> IF spc[t] \in InFlight THEN "failed" ELSE spc[t]]
        /\ sdata' = [t \in Task |-> "absent"] /\ cpc' = [t \in Task |-> "idle"]
    BY DEF ProcessEnds
  <2> QED BY <2>1 DEF ClientTypes
<1>5. WorkerTypes'
  <2>1. /\ wpc' = [w \in Worker |-> "exit"] /\ wtask' = [w \in Worker |-> None]
        /\ wres' = [w \in Worker |-> "none"] /\ runs' = runs
    BY DEF ProcessEnds
  <2> QED BY <2>1 DEF WorkerTypes, Holding
<1>6. SchedulerTypes' /\ CkptTypes' /\ ProcessTypes'
  <2>1. /\ sched' = "exit" /\ ready' = {} /\ cur' = None
        /\ kpc' = "exit" /\ kcopy' = NoSnapshot /\ ktodo' = {}
        /\ phase' = "down" /\ rpos' = 1 /\ rtodo' = {}
    BY DEF ProcessEnds
  <2> QED BY SMTT(30), <2>1, NoSnapshotType DEF SchedulerTypes, CkptTypes, ProcessTypes
<1> QED BY <1>1, <1>2, <1>3, <1>4, <1>5, <1>6

LEMMA NextTypes == Types /\ [Next]_vars => Types'
<1> SUFFICES ASSUME Types, [Next]_vars PROVE Types'
  OBVIOUS
<1>1. CASE Crash
  BY SMTT(15), ZenonT(40), <1>1, ProcessEndsTypes DEF Crash, Types, ProcessTypes
<1>2. CASE StopHTTP
  <2>1. ProcessTypes'
    BY SMTT(15), ZenonT(40), <1>2 DEF StopHTTP, Types, ProcessTypes
  <2> QED BY <1>2, <2>1, Same DEF StopHTTP, Types
<1>3. CASE CancelContext \/ CloseBuffer
  <2>1. ProcessTypes'
    BY <1>3 DEF CancelContext, CloseBuffer, Types, ProcessTypes
  <2> QED BY <1>3, <2>1, Same DEF CancelContext, CloseBuffer, Types
<1>4. CASE FinalCheckpoint
  <2>1. ProcessTypes' /\ CkptTypes'
    BY <1>4 DEF FinalCheckpoint, Types, ProcessTypes, CkptTypes
  <2> QED BY <1>4, <2>1, Same DEF FinalCheckpoint, Types
<1>5. CASE ShutdownReturns
  BY <1>5, ProcessEndsTypes DEF ShutdownReturns, Types, ProcessTypes
<1>6. CASE UNCHANGED vars
  BY <1>6, Same DEF vars, Types
<1> QED
  BY <1>1, <1>2, <1>3, <1>4, <1>5, <1>6, SubmitRegisterTypes, SubmitStepTypes, CancelTypes,
     WorkerStepTypes, SchedStepTypes, CkptTypesStep, RecoverStepTypes DEF Next, ShutdownStep

LEMMA AlwaysTypes == Spec => []Types
BY InitTypes, NextTypes, PTL DEF Spec

\* The engine's variables keep their types, and the ring buffer never holds more
\* than its capacity, for every configuration.
THEOREM EngineTypes == Spec => []TypeOK
BY AlwaysTypes, TypesOK, PTL

-----------------------------------------------------------------------------
(* Ownership: the inductive invariant *)

Queued(t) == t \in Range(buffer) \/ t \in heap \/ t \in ready \/ t = cur

Holds(w, t) == wpc[w] \in Holding /\ wtask[w] = t

\* ExclusiveOwnership, task by task
Exclusive ==
    /\ IsInjective(buffer)
    /\ \A t \in Task : spc[t] \in InFlight => ~Queued(t)
    /\ \A t \in Range(buffer) : t \notin heap /\ t \notin ready /\ t # cur
    /\ \A t \in heap : t \notin ready /\ t # cur
    /\ cur \notin ready
    /\ \A w \in Worker, t \in Task : Holds(w, t) => spc[t] \notin InFlight /\ ~Queued(t)
    /\ \A v, w \in Worker, t \in Task : Holds(v, t) /\ Holds(w, t) => v = w

\* the tasks whose submission has not been registered
New == {t \in Task : spc[t] \in {"new", "duplicate"}}

\* A task that has not been registered is nowhere in memory ...
UnknownInMemory ==
    /\ \A t \in New : state[t] = "absent" /\ cpc[t] = "idle" /\ ~Queued(t)
    /\ \A w \in Worker : wtask[w] \notin New

\* ... nor on disk, so that no recovery can queue it before its Submit does.
UnknownOnDisk ==
    /\ \A t \in New : snap.st[t] = "absent" /\ kcopy.st[t] = "absent"
    /\ \A r \in Range(wal) : r.task \notin New

\* Until the engine is up nobody holds a task, and the queues hold none of those
\* that recovery still has to queue.
Booting == phase \in {"down", "replay", "rebuild"}
BootAlone ==
    Booting =>
        /\ \A t \in Task : spc[t] \notin InFlight
        /\ sched = "exit" /\ ready = {} /\ cur = None
        /\ \A w \in Worker : wpc[w] = "exit"
        /\ phase # "rebuild" => buffer = <<>> /\ heap = {}
        /\ phase = "rebuild" => \A t \in rtodo : t \notin Range(buffer) /\ t \notin heap

Own == Exclusive /\ UnknownInMemory /\ UnknownOnDisk /\ BootAlone

LEMMA ExclusiveImplies == Types /\ Exclusive => ExclusiveOwnership
<1> SUFFICES ASSUME Types, Exclusive PROVE ExclusiveOwnership
  OBVIOUS
<1>1. \A t \in SubmitHeld : t \in Task /\ spc[t] \in InFlight
  BY DEF SubmitHeld
<1>2. \A t \in SchedHeld : t \in ready \/ (t = cur /\ cur # None)
  BY DEF SchedHeld
<1>3. \A w \in Worker : \A t \in WorkerHeld(w) : t \in Task /\ Holds(w, t)
  BY DEF WorkerHeld, Holds, Holding, Types, WorkerTypes
<1>4. Range(buffer) \subseteq Task /\ heap \subseteq Task
  BY SMTT(30) DEF Types, QueueTypes, Range
<1>5. /\ IsInjective(buffer)
      /\ SubmitHeld \cap (Range(buffer) \cup heap \cup SchedHeld) = {}
      /\ Range(buffer) \cap (heap \cup SchedHeld) = {}
      /\ heap \cap SchedHeld = {}
      /\ cur \notin ready
  BY <1>1, <1>2 DEF Exclusive, Queued
<1>6. ASSUME NEW w \in Worker
      PROVE  WorkerHeld(w) \cap (SubmitHeld \cup Range(buffer) \cup heap \cup SchedHeld) = {}
  BY SMTT(30), <1>1, <1>2, <1>3 DEF Exclusive, Queued
<1>7. ASSUME NEW v \in Worker, NEW w \in Worker, v # w
      PROVE  WorkerHeld(v) \cap WorkerHeld(w) = {}
  BY <1>3, <1>7 DEF Exclusive
<1> QED BY <1>5, <1>6, <1>7 DEF ExclusiveOwnership

LEMMA InitOwn == Init => Own
<1> SUFFICES ASSUME Init PROVE Own
  OBVIOUS
<1> USE DEF Init
<1>1. Range(buffer) = {} /\ IsInjective(buffer) /\ Range(wal) = {}
  BY SMTT(30) DEF Range, IsInjective
<1>2. Exclusive
  BY <1>1, NoneAssumption DEF Exclusive, Queued, Holds, Holding, InFlight
<1>3. UnknownInMemory
  BY <1>1, NoneAssumption DEF UnknownInMemory, Queued, New
<1>4. UnknownOnDisk
  BY <1>1 DEF UnknownOnDisk, New, NoSnapshot
<1>5. BootAlone
  BY DEF BootAlone, InFlight
<1> QED BY <1>2, <1>3, <1>4, <1>5 DEF Own

-----------------------------------------------------------------------------
(* Steps by which nobody gets a task *)

\* Giving up tasks preserves exclusiveness.
LEMMA ExclusiveShrinks ==
    ASSUME Exclusive, cur' = cur \/ cur' = None, ready \subseteq Task, Range(buffer) \subseteq Task, heap \subseteq Task,
           IsInjective(buffer'), Range(buffer') \subseteq Range(buffer),
           heap' \subseteq heap, ready' \subseteq ready,
           \A t \in Task : spc'[t] \in InFlight => spc[t] \in InFlight,
           \A w \in Worker : wpc'[w] \in Holding => wpc[w] \in Holding /\ wtask'[w] = wtask[w]
    PROVE  Exclusive'
<1>1. \A t \in Task : Queued(t)' => Queued(t)
  BY NoneAssumption DEF Queued
<1>2. \A w \in Worker, t \in Task : Holds(w, t)' => Holds(w, t)
  BY DEF Holds
<1>3. /\ \A t \in Range(buffer') : t \notin heap' /\ t \notin ready' /\ t # cur'
      /\ \A t \in heap' : t \notin ready' /\ t # cur'
      /\ cur' \notin ready'
  BY NoneAssumption DEF Exclusive
<1>4. /\ \A t \in Task : spc'[t] \in InFlight => ~Queued(t)'
      /\ \A w \in Worker, t \in Task : Holds(w, t)' => spc'[t] \notin InFlight /\ ~Queued(t)'
      /\ \A v, w \in Worker, t \in Task : Holds(v, t)' /\ Holds(w, t)' => v = w
  BY <1>1, <1>2 DEF Exclusive
<1> QED BY <1>3, <1>4 DEF Exclusive

\* What the types say about the places a task can be in.
LEMMA PlaceTypes ==
    ASSUME Types
    PROVE  /\ buffer \in Seq(Task) /\ Range(buffer) \subseteq Task /\ heap \subseteq Task /\ ready \subseteq Task
           /\ cur \in Task \cup {None} /\ None \notin Task
           /\ \A w \in Worker : wpc[w] \in Holding \cup {"post", "force"} => wtask[w] \in Task
BY SMTT(30), NoneAssumption DEF Types, QueueTypes, SchedulerTypes, WorkerTypes, Range

\* A step that moves no task between places and registers none.
LEMMA QuietInMemory ==
    ASSUME Types, Own, UNCHANGED <<buffer, heap, ready, cur>>,
           \A t \in Task : spc'[t] \in InFlight => spc[t] \in InFlight,
           New' \subseteq New,
           \A t \in New' : state'[t] = "absent" /\ cpc'[t] = "idle",
           \A w \in Worker : wtask'[w] = wtask[w] \/ wtask'[w] = None,
           \A w \in Worker : wpc'[w] \in Holding => wpc[w] \in Holding /\ wtask'[w] = wtask[w]
    PROVE  Exclusive' /\ UnknownInMemory'
<1>1. Exclusive /\ UnknownInMemory
  BY DEF Own
<1>2. Exclusive'
  BY <1>1, PlaceTypes, ExclusiveShrinks DEF Exclusive
<1>3. \A t \in New' : ~Queued(t)'
  BY <1>1 DEF UnknownInMemory, Queued
<1>4. \A w \in Worker : wtask'[w] \notin New'
  BY <1>1, NoneAssumption DEF UnknownInMemory, New
<1> QED BY <1>2, <1>3, <1>4 DEF UnknownInMemory

LEMMA QuietOnDisk ==
    ASSUME UnknownOnDisk, New' \subseteq New, UNCHANGED <<snap, kcopy, wal>>
    PROVE  UnknownOnDisk'
BY DEF UnknownOnDisk

\* Records are written only about tasks that have been registered.
LEMMA LoggedOnDisk ==
    ASSUME Types, UnknownOnDisk, New' \subseteq New, NEW t \in Task \ New,
           NEW type, NEW st, NEW rc, Log(type, t, st, rc), UNCHANGED <<snap, kcopy>>,
           DiskTypes'
    PROVE  UnknownOnDisk'
<1>1. CASE walClosed
  BY <1>1, QuietOnDisk DEF Log
<1>2. CASE ~walClosed
  <2> DEFINE r == [seq |-> walSeq + 1, type |-> type, task |-> t, st |-> st, rc |-> rc]
  <2>1. wal' = Append(wal, r) /\ r.task = t
    BY <1>2 DEF Log
  <2> HIDE DEF r
  <2>2. wal \in Seq(Record) /\ wal' \in Seq(Record)
    BY DEF Types, DiskTypes
  <2>3. Range(wal') \subseteq Range(wal) \cup {r}
    BY SMTT(15), ZenonT(40), <2>1, <2>2 DEF Range
  <2> QED BY <2>1, <2>3 DEF UnknownOnDisk
<1> QED BY <1>1, <1>2

\* Putting a task that nobody else has into the heap or the buffer.
LEMMA PlacedIsExclusive ==
    ASSUME Types, Exclusive, NEW t \in Task,
           \/ heap' = heap \cup {t} /\ UNCHANGED buffer
           \/ buffer' = Append(buffer, t) /\ UNCHANGED heap,
           t \notin Range(buffer), t \notin heap, t \notin ready', t # cur',
           ready' \subseteq ready, cur' = cur \/ cur' = None,
           spc'[t] \notin InFlight, \A u \in Task : spc'[u] \in InFlight => spc[u] \in InFlight,
           \A w \in Worker : ~Holds(w, t)', \A w \in Worker, u \in Task : Holds(w, u)' => Holds(w, u)
    PROVE  Exclusive' /\ \A u \in Task : Queued(u)' => Queued(u) \/ u = t
<1>1. /\ buffer \in Seq(Task) /\ Range(buffer) \subseteq Task /\ heap \subseteq Task /\ ready \subseteq Task
      /\ cur \in Task \cup {None} /\ None \notin Task
  BY PlaceTypes
<1>2. Range(buffer') \subseteq Range(buffer) \cup {t} /\ heap' \subseteq heap \cup {t}
  BY <1>1, AppendFacts
<1>3. IsInjective(buffer')
  <2>1. CASE UNCHANGED buffer
    BY <2>1 DEF Exclusive
  <2>2. CASE buffer' = Append(buffer, t)
    <3>1. IsInjective(Append(buffer, t))
      BY <1>1, AppendFacts DEF Exclusive
    <3> QED BY <2>2, <3>1
  <2> QED BY <2>1, <2>2
<1>4. t \notin Range(buffer') \/ t \notin heap'
  OBVIOUS
<1>5. \A u \in Task : Queued(u)' => Queued(u) \/ u = t
  BY <1>1, <1>2 DEF Queued
<1>6. \A u \in Range(buffer') : u \notin heap' /\ u \notin ready' /\ u # cur'
  BY <1>1, <1>2, <1>4 DEF Exclusive
<1>7. (\A u \in heap' : u \notin ready' /\ u # cur') /\ cur' \notin ready'
  BY SMTT(30), <1>1, <1>2 DEF Exclusive
<1>8. \A u \in Task : spc'[u] \in InFlight => ~Queued(u)'
  BY <1>5 DEF Exclusive
<1>9. \A w \in Worker, u \in Task : Holds(w, u)' => spc'[u] \notin InFlight /\ ~Queued(u)'
  BY SMTT(30), <1>5 DEF Exclusive
<1>10. \A v, w \in Worker, u \in Task : Holds(v, u)' /\ Holds(w, u)' => v = w
  BY DEF Exclusive
<1> QED BY <1>3, <1>5, <1>6, <1>7, <1>8, <1>9, <1>10 DEF Exclusive

\* Whoever has something to do is not in a process that is still booting.
LEMMA Awake ==
    ASSUME Own
    PROVE  /\ \A t \in Task : spc[t] \in InFlight => ~Booting
           /\ \A w \in Worker : wpc[w] # "exit" => ~Booting
           /\ sched = "run" \/ ready # {} \/ cur # None => ~Booting
BY DEF Own, BootAlone

-----------------------------------------------------------------------------
(* Every action preserves the invariant *)

LEMMA SubmitRegisterOwn == ASSUME Types, Own, NEW t \in Task, SubmitRegister(t) PROVE Own'
<1> USE DEF SubmitRegister
<1>1. phase' = phase /\ ~Booting
  BY DEF process, Serving, Booting
<1>2. BootAlone'
  BY <1>1 DEF BootAlone, Booting
<1>3. spc \in [Task -> InFlight \cup {"new", "duplicate", "failed", "acked"}] /\ t \in New /\ New' \subseteq New
  BY DEF Types, ClientTypes, New, InFlight
<1>4. UNCHANGED <<buffer, heap, ready, cur, wpc, wtask, cpc, snap, kcopy, wal>>
  BY DEF queues, scheduler, workers, disk, ckpt
<1>5. UnknownOnDisk'
  BY <1>3, <1>4, QuietOnDisk DEF Own
<1>6. CASE KeyTaken(t)
  <2>1. \A u \in Task : spc'[u] \in InFlight => spc[u] \in InFlight
    BY <1>3, <1>6 DEF InFlight
  <2>2. \A u \in New' : state'[u] = "absent" /\ cpc'[u] = "idle"
    BY SMTT(30), <1>3, <1>4, <1>6 DEF Own, UnknownInMemory
  <2> QED BY <1>2, <1>3, <1>4, <1>5, <2>1, <2>2, QuietInMemory DEF Own
<1>7. CASE ~KeyTaken(t)
  <2>1. /\ ~Queued(t) /\ \A w \in Worker : wtask[w] # t
        /\ \A u \in Task : spc'[u] \in InFlight => u = t \/ spc[u] \in InFlight
        /\ t \notin New' /\ \A u \in Task \ {t} : state'[u] = state[u]
    BY SMTT(15), ZenonT(40), <1>3, <1>7 DEF Own, UnknownInMemory, New, InFlight, Types, RegistryTypes
  <2>2. /\ \A u \in Task : Queued(u)' <=> Queued(u)
        /\ \A w \in Worker, u \in Task : Holds(w, u)' <=> Holds(w, u)
    BY <1>4 DEF Queued, Holds
  <2>3. Exclusive'
    <3> HIDE DEF SubmitRegister
    <3>1. /\ IsInjective(buffer')
          /\ \A u \in Range(buffer') : u \notin heap' /\ u \notin ready' /\ u # cur'
          /\ \A u \in heap' : u \notin ready' /\ u # cur'
          /\ cur' \notin ready'
      BY <1>4 DEF Own, Exclusive
    <3>2. \A u \in Task : spc'[u] \in InFlight => ~Queued(u)'
      BY <2>1, <2>2 DEF Own, Exclusive
    <3>3. ASSUME NEW w \in Worker, NEW u \in Task, Holds(w, u)' PROVE spc'[u] \notin InFlight /\ ~Queued(u)'
      <4>1. Holds(w, u) /\ u # t
        BY <2>1, <2>2, <3>3 DEF Holds
      <4> QED BY <2>1, <2>2, <4>1 DEF Own, Exclusive
    <3>4. \A v, w \in Worker, u \in Task : Holds(v, u)' /\ Holds(w, u)' => v = w
      BY <2>2 DEF Own, Exclusive
    <3> QED BY <3>1, <3>2, <3>3, <3>4 DEF Exclusive
  <2>4. UnknownInMemory'
    BY <1>3, <1>4, <2>1, <2>2 DEF Own, UnknownInMemory, New
  <2> QED BY <1>2, <1>5, <2>3, <2>4 DEF Own
<1> QED BY <1>6, <1>7

\* A task that its Submit places leaves the Submit's hands as it arrives.
LEMMA SubmitStepOwn == ASSUME Types, Types', Own, NEW t \in Task, SubmitStep(t) PROVE Own'
<1>1. spc[t] \in InFlight /\ spc'[t] \notin {"new", "duplicate"} /\ \A u \in Task \ {t} : spc'[u] = spc[u]
  BY ZenonT(60) DEF SubmitStep, SubmitMarshal, SubmitAppend, SubmitRollback, SubmitRoute, SubmitPush, SubmitEnqueue,
         InFlight, Types, ClientTypes
<1>2. New' \subseteq New /\ t \notin New /\ \A u \in Task : spc'[u] \in InFlight => spc[u] \in InFlight
  BY <1>1 DEF New, InFlight
<1>3. BootAlone'
  <2>1. phase' = phase
    BY DEF SubmitStep, SubmitMarshal, SubmitAppend, SubmitRollback, SubmitRoute, SubmitPush, SubmitEnqueue, process
  <2> QED BY <1>1, <2>1, Awake DEF BootAlone, Booting
<1>4. UNCHANGED <<ready, cur, wpc, wtask, cpc, snap, kcopy>>
  BY DEF SubmitStep, SubmitMarshal, SubmitAppend, SubmitRollback, SubmitRoute, SubmitPush, SubmitEnqueue,
         scheduler, workers, disk, ckpt
<1>5. UnknownOnDisk'
  <2>1. CASE SubmitAppend(t)
    BY <1>2, <1>4, <2>1, LoggedOnDisk DEF SubmitAppend, Own, Types
  <2>2. CASE UNCHANGED wal
    BY <1>2, <1>4, <2>2, QuietOnDisk DEF Own
  <2> QED BY <2>1, <2>2 DEF SubmitStep, SubmitMarshal, SubmitRollback, SubmitRoute, SubmitPush, SubmitEnqueue, disk
<1>6. \A u \in New' : state'[u] = "absent" /\ cpc'[u] = "idle"
  <2>1. \A u \in Task \ {t} : state'[u] = state[u]
    BY DEF SubmitStep, SubmitMarshal, SubmitAppend, SubmitRollback, SubmitRoute, SubmitPush, SubmitEnqueue, registry,
           Types, RegistryTypes
  <2> QED BY <1>2, <1>4, <2>1 DEF Own, UnknownInMemory, New
<1>7. CASE UNCHANGED <<buffer, heap>>
  BY <1>2, <1>3, <1>4, <1>5, <1>6, <1>7, QuietInMemory DEF Own
<1>8. CASE (\/ heap' = heap \cup {t} /\ UNCHANGED buffer
            \/ buffer' = Append(buffer, t) /\ UNCHANGED heap) /\ spc'[t] = "acked"
  <2>1. spc'[t] \notin InFlight /\ ~Queued(t) /\ \A w \in Worker : ~Holds(w, t)
    BY <1>1, <1>8 DEF InFlight, Own, Exclusive
  <2>2. \A w \in Worker, u \in Task : Holds(w, u)' <=> Holds(w, u)
    BY <1>4 DEF Holds
  <2>3. t \notin ready' /\ t # cur' /\ t \notin Range(buffer) /\ t \notin heap
    BY <1>4, <2>1 DEF Queued
  <2>4. Exclusive' /\ \A u \in Task : Queued(u)' => Queued(u) \/ u = t
    BY <1>2, <1>4, <1>8, <2>1, <2>2, <2>3, PlacedIsExclusive DEF Own
  <2>5. UnknownInMemory'
    BY <1>2, <1>4, <1>6, <2>4 DEF Own, UnknownInMemory, New
  <2> QED BY <1>3, <1>5, <2>4, <2>5 DEF Own
<1> QED BY <1>7, <1>8 DEF SubmitStep, SubmitMarshal, SubmitAppend, SubmitRollback, SubmitRoute, SubmitPush,
                          SubmitEnqueue, queues, Types, ClientTypes

LEMMA CancelOwn == ASSUME Types, Types', Own, NEW t \in Task, CancelCheck(t) \/ CancelStep(t) PROVE Own'
<1>1. t \notin New
  BY DEF CancelCheck, CancelStep, CancelSet, CancelLog, CancelRemove, Own, UnknownInMemory
<1>2. UNCHANGED <<spc, buffer, ready, cur, sched, wpc, wtask, snap, kcopy, phase, rtodo>> /\ heap' \subseteq heap
  BY DEF CancelCheck, CancelStep, CancelSet, CancelLog, CancelRemove, disk, queues, workers, scheduler, ckpt, process
<1>3. New' = New
  BY <1>2 DEF New
<1>4. Exclusive'
  BY <1>2, PlaceTypes, ExclusiveShrinks DEF Own, Exclusive
<1>5. UnknownInMemory'
  <2>1. \A u \in Task \ {t} : state'[u] = state[u] /\ cpc'[u] = cpc[u]
    BY SMTT(30) DEF CancelCheck, CancelStep, CancelSet, CancelLog, CancelRemove, registry,
           Types, RegistryTypes, ClientTypes
  <2>2. \A u \in New : ~Queued(u)'
    BY <1>2 DEF Own, UnknownInMemory, Queued
  <2> QED BY <1>1, <1>2, <1>3, <2>1, <2>2 DEF Own, UnknownInMemory, New
<1>6. UnknownOnDisk'
  <2>1. CASE CancelLog(t)
    BY <1>1, <1>2, <1>3, <2>1, LoggedOnDisk DEF CancelLog, Own, Types
  <2>2. CASE UNCHANGED wal
    BY <1>2, <1>3, <2>2, QuietOnDisk DEF Own
  <2> QED BY <2>1, <2>2 DEF CancelCheck, CancelStep, CancelSet, CancelRemove, disk
<1>7. BootAlone'
  BY <1>2 DEF Own, BootAlone, Booting
<1> QED BY <1>4, <1>5, <1>6, <1>7 DEF Own

LEMMA WorkerStepOwn == ASSUME Types, Types', Own, NEW w \in Worker, WorkerStep(w) PROVE Own'
<1>1. UNCHANGED <<spc, cpc, ready, cur, snap, kcopy, phase>> /\ wpc[w] # "exit"
  BY DEF WorkerStep, WorkerLoop, WorkerDequeue, WorkerMark, WorkerStart, WorkerLogStart, WorkerExec,
         WorkerSettle, WorkerLog, WorkerPush, WorkerPost, WorkerForce,
         disk, clients, scheduler, ckpt, process
<1>2. BootAlone' /\ New' = New
  BY <1>1, Awake DEF BootAlone, Booting, New
<1>3. \A v \in Worker \ {w} : wpc'[v] = wpc[v] /\ wtask'[v] = wtask[v]
  BY ZenonT(40), SMTT(15) DEF WorkerStep, WorkerLoop, WorkerDequeue, WorkerMark, WorkerStart, WorkerLogStart, WorkerExec,
         WorkerSettle, WorkerLog, WorkerPush, WorkerPost, WorkerForce, WorkerDone, Types, WorkerTypes
<1>4. \A t \in New : state'[t] = "absent" /\ cpc'[t] = "idle"
  <2>1. wtask[w] \notin New
    BY DEF Own, UnknownInMemory
  <2>2. \A t \in Task \ {wtask[w]} : state'[t] = state[t]
    BY DEF WorkerStep, WorkerLoop, WorkerDequeue, WorkerMark, WorkerStart, WorkerLogStart, WorkerExec,
           WorkerSettle, WorkerLog, WorkerPush, WorkerPost, WorkerForce, registry, Types, RegistryTypes
  <2> QED BY <1>1, <2>1, <2>2 DEF Own, UnknownInMemory, New
<1>5. UnknownOnDisk'
  <2>1. CASE WorkerLogStart(w) \/ WorkerLog(w)
    <3>1. wtask[w] \in Task \ New
      BY <2>1 DEF WorkerLogStart, WorkerLog, Types, WorkerTypes, Holding, Own, UnknownInMemory
    <3>2. PICK type, rc : Log(type, wtask[w], "none", rc)
      BY <2>1 DEF WorkerLogStart, WorkerLog
    <3> QED BY <1>1, <1>2, <3>1, <3>2, LoggedOnDisk DEF Own, Types
  <2>2. CASE UNCHANGED wal
    BY <1>1, <1>2, <2>2, QuietOnDisk DEF Own
  <2> QED BY <2>1, <2>2
          DEF WorkerStep, WorkerLoop, WorkerDequeue, WorkerMark, WorkerStart, WorkerExec,
              WorkerSettle, WorkerPush, WorkerPost, WorkerForce, disk
<1>6. CASE WorkerDequeue(w) /\ buffer # <<>>
  <2>0. PICK h \in Task : h = Head(buffer)
    BY <1>6, PlaceTypes, TailFacts
  <2>1. /\ buffer' = Tail(buffer) /\ wtask'[w] = h /\ wpc'[w] = "got" /\ wpc[w] = "deq"
        /\ UNCHANGED heap
    <3>1. /\ wpc[w] = "deq" /\ wpc' = [wpc EXCEPT ![w] = "got"]
          /\ wtask' = [wtask EXCEPT ![w] = Head(buffer)]
          /\ buffer' = Tail(buffer) /\ UNCHANGED heap
      BY <1>6 DEF WorkerDequeue
    <3>2. w \in DOMAIN wpc /\ w \in DOMAIN wtask
      BY DEF Types, WorkerTypes
    <3> QED BY <2>0, <3>1, <3>2
  <2>2. /\ Range(buffer) = Range(buffer') \cup {h}
        /\ IsInjective(buffer') /\ h \notin Range(buffer')
    <3>1. buffer \in Seq(Task) /\ buffer # <<>> /\ IsInjective(buffer)
      BY <1>6, PlaceTypes DEF Own, Exclusive
    <3>2. /\ Range(buffer) = Range(Tail(buffer)) \cup {Head(buffer)}
          /\ IsInjective(Tail(buffer)) /\ Head(buffer) \notin Range(Tail(buffer))
      BY <3>1, TailFacts
    <3> QED BY <2>0, <2>1, <3>2
  <2>3. Queued(h) /\ ~Queued(h)' /\ \A t \in Task : Queued(t)' => Queued(t)
    BY <1>1, <2>1, <2>2 DEF Queued, Own, Exclusive
  <2>4. /\ \A t \in Task : Holds(w, t)' => t = h
        /\ \A v \in Worker \ {w}, t \in Task : Holds(v, t)' => Holds(v, t)
    BY <1>3, <2>1 DEF Holds
  <2>5. Exclusive'
    <3>1. /\ \A t \in Range(buffer') : t \notin heap' /\ t \notin ready' /\ t # cur'
          /\ \A t \in heap' : t \notin ready' /\ t # cur'
          /\ cur' \notin ready'
          /\ \A t \in Task : spc'[t] \in InFlight => ~Queued(t)'
      BY <1>1, <2>1, <2>2, <2>3 DEF Own, Exclusive
    <3>2. \A v \in Worker, t \in Task : Holds(v, t)' => spc'[t] \notin InFlight /\ ~Queued(t)'
      BY SMTT(30), <1>1, <2>2, <2>3, <2>4 DEF Own, Exclusive
    <3>3. \A u, v \in Worker, t \in Task : Holds(u, t)' /\ Holds(v, t)' => u = v
      <4>1. \A v \in Worker : ~Holds(v, h)
        BY <2>2, <2>3 DEF Own, Exclusive
      <4> QED BY SMTT(30), <2>4, <4>1 DEF Own, Exclusive
    <3> QED BY <2>2, <3>1, <3>2, <3>3 DEF Exclusive
  <2>6. UnknownInMemory'
    <3>1. h \notin New
      BY <2>3 DEF Own, UnknownInMemory
    <3> QED BY <1>2, <1>3, <1>4, <2>1, <2>3, <3>1 DEF Own, UnknownInMemory, New
  <2> QED BY <1>2, <1>5, <2>5, <2>6 DEF Own
<1>7. CASE WorkerPush(w)
  <2>0. PICK t \in Task : t = wtask[w]
    BY <1>7 DEF WorkerPush, Types, WorkerTypes, Holding
  <2>1. Holds(w, t) /\ wpc'[w] = "post" /\ wtask' = wtask
    BY <1>7, <2>0 DEF WorkerPush, Types, WorkerTypes, Holding, Holds
  <2>2. heap' = heap \cup {t} /\ UNCHANGED buffer
    BY <1>7, <2>0 DEF WorkerPush
  <2>3. ~Queued(t) /\ spc[t] \notin InFlight
    BY <2>1 DEF Own, Exclusive
  <2>4. ~Holds(w, t)' /\ \A v \in Worker, u \in Task : Holds(v, u)' => Holds(v, u)
    BY <1>3, <2>1 DEF Holds, Holding
  <2>5. \A v \in Worker : ~Holds(v, t)'
    BY <2>1, <2>4 DEF Own, Exclusive
  <2>6. Exclusive' /\ \A u \in Task : Queued(u)' => Queued(u) \/ u = t
    BY <1>1, <2>1, <2>2, <2>3, <2>4, <2>5, PlacedIsExclusive DEF Own, Queued
  <2>7. UnknownInMemory'
    <3>1. t \notin New
      BY <2>0 DEF Own, UnknownInMemory
    <3> QED BY <1>2, <1>4, <2>1, <2>6, <3>1 DEF Own, UnknownInMemory, New
  <2> QED BY <1>2, <1>5, <2>6, <2>7 DEF Own
<1>8. CASE ~WorkerPush(w) /\ ~(WorkerDequeue(w) /\ buffer # <<>>)
  <2>1. UNCHANGED <<buffer, heap>>
    BY <1>8 DEF WorkerStep, WorkerLoop, WorkerDequeue, WorkerMark, WorkerStart, WorkerLogStart, WorkerExec,
                WorkerSettle, WorkerLog, WorkerPost, WorkerForce, queues
  <2>2. wtask'[w] = wtask[w] \/ wtask'[w] = None
    BY <1>8 DEF WorkerStep, WorkerLoop, WorkerDequeue, WorkerMark, WorkerStart, WorkerLogStart, WorkerExec,
                WorkerSettle, WorkerLog, WorkerPost, WorkerForce, WorkerDone, Types, WorkerTypes
  <2>3. wpc'[w] \in Holding => wpc[w] \in Holding /\ wtask'[w] = wtask[w]
    BY ZenonT(40), SMTT(15), <1>8 DEF WorkerStep, WorkerLoop, WorkerDequeue, WorkerMark, WorkerStart, WorkerLogStart, WorkerExec,
                WorkerSettle, WorkerLog, WorkerPost, WorkerForce, WorkerDone, Types, WorkerTypes, Holding
  <2>4. Exclusive' /\ UnknownInMemory'
    BY <1>1, <1>2, <1>3, <1>4, <2>1, <2>2, <2>3, QuietInMemory
  <2> QED BY <1>2, <1>5, <2>4 DEF Own
<1> QED BY <1>6, <1>7, <1>8

LEMMA SchedStepOwn == ASSUME Types, Types', Own, SchedStep PROVE Own'
<1>1. /\ UNCHANGED <<spc, cpc, snap, kcopy, wal, phase, wpc, wtask>>
      /\ sched = "run" \/ ready # {} \/ cur # None
  BY DEF SchedStep, SchedPromote, SchedCheck, SchedEnqueue, SchedExit, disk, clients, workers, ckpt, process
<1>2. BootAlone' /\ New' = New
  BY <1>1, Awake DEF BootAlone, Booting, New
<1>3. UnknownOnDisk'
  BY <1>1, <1>2, QuietOnDisk DEF Own
<1>4. \A v \in Worker, u \in Task : Holds(v, u)' <=> Holds(v, u)
  BY <1>1 DEF Holds
<1>5. /\ Range(buffer) \subseteq Task /\ heap \subseteq Task /\ ready \subseteq Task
      /\ cur \in Task \cup {None} /\ None \notin Task
  BY PlaceTypes
<1>6. CASE SchedPromote
  <2>1. PICK due \in (SUBSET heap) \ {{}} :
          /\ heap' = heap \ due
          /\ ready' = due
          /\ state' = [t \in Task |-> IF t \in due THEN "Pending" ELSE state[t]]
    BY <1>6 DEF SchedPromote
  <2>2. UNCHANGED <<buffer, cur>> /\ ready = {} /\ cur = None
    BY <1>6 DEF SchedPromote
  <2>3. \A t \in Task : Queued(t)' => Queued(t)
    BY <2>1, <2>2 DEF Queued
  <2>4. Exclusive'
    <3>1. /\ IsInjective(buffer')
          /\ \A t \in Range(buffer') : t \notin heap' /\ t \notin ready' /\ t # cur'
          /\ \A t \in heap' : t \notin ready' /\ t # cur'
          /\ cur' \notin ready'
      BY <1>5, <2>1, <2>2 DEF Own, Exclusive
    <3>2. /\ \A t \in Task : spc'[t] \in InFlight => ~Queued(t)'
          /\ \A w \in Worker, t \in Task : Holds(w, t)' => spc'[t] \notin InFlight /\ ~Queued(t)'
          /\ \A v, w \in Worker, t \in Task : Holds(v, t)' /\ Holds(w, t)' => v = w
      BY <1>1, <1>4, <2>3 DEF Own, Exclusive
    <3> QED BY <3>1, <3>2 DEF Exclusive
  <2>5. UnknownInMemory'
    <3>1. \A t \in New : t \notin due
      BY <2>1 DEF Own, UnknownInMemory, Queued
    <3> QED BY <1>1, <1>2, <2>1, <2>3, <3>1 DEF Own, UnknownInMemory, New
  <2> QED BY <1>2, <1>3, <2>4, <2>5 DEF Own
<1>7. CASE SchedCheck
  <2>1. PICK t \in ready : /\ ready' = ready \ {t}
                           /\ cur' = None \/ cur' = t
                           /\ \A u \in Task \ {t} : state'[u] = state[u]
    BY <1>7 DEF SchedCheck, Types, RegistryTypes
  <2>2. UNCHANGED <<buffer, heap>> /\ cur = None
    BY <1>7 DEF SchedCheck, queues
  <2>3. \A u \in Task : Queued(u)' => Queued(u)
    BY <1>5, <2>1, <2>2 DEF Queued
  <2>4. Exclusive'
    <3>1. /\ IsInjective(buffer')
          /\ \A u \in Range(buffer') : u \notin heap' /\ u \notin ready' /\ u # cur'
          /\ \A u \in heap' : u \notin ready' /\ u # cur'
          /\ cur' \notin ready'
      BY <1>5, <2>1, <2>2 DEF Own, Exclusive
    <3>2. /\ \A u \in Task : spc'[u] \in InFlight => ~Queued(u)'
          /\ \A w \in Worker, u \in Task : Holds(w, u)' => spc'[u] \notin InFlight /\ ~Queued(u)'
          /\ \A v, w \in Worker, u \in Task : Holds(v, u)' /\ Holds(w, u)' => v = w
      BY <1>1, <1>4, <2>3 DEF Own, Exclusive
    <3> QED BY <3>1, <3>2 DEF Exclusive
  <2>5. UnknownInMemory'
    <3>1. t \notin New
      BY <2>1 DEF Own, UnknownInMemory, Queued
    <3> QED BY <1>1, <1>2, <2>1, <2>3, <3>1 DEF Own, UnknownInMemory, New
  <2> QED BY <1>2, <1>3, <2>4, <2>5 DEF Own
<1>8. CASE SchedEnqueue
  <2>1. PICK t \in Task : t = cur
    BY <1>5, <1>8 DEF SchedEnqueue
  <2>2. cur' = None /\ ready' \subseteq ready /\ \A u \in Task \ {t} : state'[u] = state[u]
    BY <1>8, <2>1 DEF SchedEnqueue, Types, RegistryTypes
  <2>3. /\ spc[t] \notin InFlight /\ t \notin Range(buffer) /\ t \notin heap /\ t \notin ready
        /\ t \notin New /\ \A w \in Worker : ~Holds(w, t)
    BY <2>1 DEF Own, Exclusive, UnknownInMemory, Queued
  <2>4. Exclusive' /\ \A u \in Task : Queued(u)' => Queued(u) \/ u = t
    <3>1. CASE UNCHANGED <<buffer, heap>>
      <4>1. Exclusive'
        BY <1>1, <1>5, <2>2, <3>1, ExclusiveShrinks DEF Own, Exclusive
      <4>2. \A u \in Task : Queued(u)' => Queued(u)
        BY <1>5, <2>2, <3>1 DEF Queued
      <4> QED BY <4>1, <4>2
    <3>2. CASE \/ heap' = heap \cup {t} /\ UNCHANGED buffer
               \/ buffer' = Append(buffer, t) /\ UNCHANGED heap
      BY <1>1, <1>4, <1>5, <2>2, <2>3, <3>2, PlacedIsExclusive DEF Own
    <3> QED BY <1>8, <2>1, <3>1, <3>2 DEF SchedEnqueue
  <2>5. UnknownInMemory'
    BY <1>1, <1>2, <2>2, <2>3, <2>4 DEF Own, UnknownInMemory, New
  <2> QED BY <1>2, <1>3, <2>4, <2>5 DEF Own
<1>9. CASE SchedExit
  <2>1. UNCHANGED <<buffer, heap, ready, cur, state>>
    BY <1>9 DEF SchedExit, queues, registry
  <2>2. Exclusive' /\ UnknownInMemory'
    BY <1>1, <1>2, <2>1, QuietInMemory DEF Own, UnknownInMemory
  <2> QED BY <1>2, <1>3, <2>2 DEF Own
<1> QED BY <1>6, <1>7, <1>8, <1>9 DEF SchedStep

LEMMA CkptOwn == ASSUME Types, Own, CkptBegin \/ CkptStep \/ CkptExit PROVE Own'
<1>1. /\ UNCHANGED <<spc, cpc, state, buffer, heap, ready, cur, sched, wpc, wtask, phase, rtodo>>
  BY DEF CkptBegin, CkptStep, CkptCopy, CkptUnlock, CkptWrite, CkptClose, CkptRename, CkptOpen, CkptFault,
         CkptExit, registry, queues, clients, workers, scheduler, process
<1>2. BootAlone' /\ New' = New
  BY <1>1 DEF Own, BootAlone, Booting, New
<1>3. Exclusive' /\ UnknownInMemory'
  BY <1>1, <1>2, QuietInMemory DEF Own, UnknownInMemory
<1>4. UnknownOnDisk'
  <2>1. CASE CkptCopy
    <3>1. PICK t \in ktodo : kcopy' = [kcopy EXCEPT !.st[t] = state[t], !.rc[t] = retries[t]]
      BY <2>1 DEF CkptCopy
    <3>2. kcopy \in Snapshot /\ t \in Task
      BY DEF Types, CkptTypes
    <3>3. \A u \in Task : kcopy'.st[u] = IF u = t THEN state[t] ELSE kcopy.st[u]
      BY <3>1, <3>2 DEF Snapshot
    <3>4. \A u \in New : kcopy'.st[u] = "absent"
      BY <3>3 DEF Own, UnknownInMemory, UnknownOnDisk, New
    <3>5. UNCHANGED <<wal, snap>>
      BY <2>1 DEF CkptCopy, disk
    <3> QED BY <1>2, <3>4, <3>5 DEF Own, UnknownOnDisk
  <2>2. CASE /\ wal' = wal \/ wal' = <<>>
             /\ snap' = snap \/ snap' = kcopy
             /\ kcopy' = kcopy \/ kcopy'.st = [t \in Task |-> "absent"]
    <3>1. Range(wal') \subseteq Range(wal)
      <4>1. CASE wal' = wal
        BY <4>1
      <4>2. CASE wal' = <<>>
        BY SMTT(30), <4>2 DEF Range
      <4> QED BY <2>2, <4>1, <4>2
    <3> QED BY <1>2, <2>2, <3>1 DEF Own, UnknownOnDisk, New
  <2>3. /\ NoSnapshot.st = [t \in Task |-> "absent"]
        /\ [NoSnapshot EXCEPT !.seq = walSeq].st = [t \in Task |-> "absent"]
    BY DEF NoSnapshot
  <2>4. CASE CkptBegin \/ CkptUnlock \/ CkptExit
    BY <2>2, <2>3, <2>4 DEF CkptBegin, CkptUnlock, CkptExit, disk
  <2>5. CASE CkptWrite \/ CkptClose \/ CkptRename
    BY <2>2, <2>3, <2>5 DEF CkptWrite, CkptClose, CkptRename, disk
  <2>6. CASE CkptOpen \/ CkptFault
    BY <2>2, <2>3, <2>6 DEF CkptOpen, CkptFault, disk
  <2> QED BY <2>1, <2>4, <2>5, <2>6 DEF CkptStep
<1> QED BY <1>2, <1>3, <1>4 DEF Own

LEMMA RecoverStepOwn == ASSUME Types, Types', Own, RecoverStep PROVE Own'
<1>1. /\ UNCHANGED <<spc, cpc, snap, kcopy, wal, ready, cur, wtask>> /\ Booting
  BY DEF RecoverStep, LoadSnapshot, ReplayEntry, OpenWAL, RebuildTask, Start, Booting,
         disk, clients, workers, scheduler, ckpt
<1>2. New' = New
  BY <1>1 DEF New
<1>3. UnknownOnDisk'
  BY <1>1, <1>2, QuietOnDisk DEF Own
<1>4. /\ \A t \in Task : spc[t] \notin InFlight
      /\ sched = "exit" /\ ready = {} /\ cur = None
      /\ \A w \in Worker : wpc[w] = "exit" /\ wpc[w] \notin Holding
  BY <1>1 DEF Own, BootAlone, Holding
<1>5. CASE LoadSnapshot
  <2>1. UNCHANGED <<buffer, heap, wpc, sched>> /\ phase = "down" /\ phase' = "replay" /\ state' = snap.st
    BY <1>5 DEF LoadSnapshot, queues, workers, scheduler
  <2>2. \A t \in New : state'[t] = "absent"
    BY <2>1 DEF Own, UnknownOnDisk
  <2>3. Exclusive' /\ UnknownInMemory'
    BY <1>1, <1>2, <2>1, <2>2, QuietInMemory DEF Own, UnknownInMemory
  <2>4. BootAlone'
    BY <1>1, <2>1 DEF Own, BootAlone, Booting
  <2> QED BY <1>3, <2>3, <2>4 DEF Own
<1>6. CASE ReplayEntry
  <2>1. UNCHANGED <<buffer, heap, wpc, sched, phase, rtodo>> /\ phase = "replay"
    BY <1>6 DEF ReplayEntry, queues, workers, scheduler
  <2>2. \A t \in New : state'[t] = "absent"
    <3> DEFINE r == wal[rpos]
    <3>1. r.task \notin New
      BY <1>6 DEF ReplayEntry, Own, UnknownOnDisk, Range
    <3>2. state' = state \/ state' = [state EXCEPT ![r.task] = StateAfter(r)]
      BY <1>6 DEF ReplayEntry, ApplyEntry, registry
    <3> HIDE DEF r
    <3> QED BY <3>1, <3>2 DEF Own, UnknownInMemory, New, Types, RegistryTypes
  <2>3. Exclusive' /\ UnknownInMemory'
    BY <1>1, <1>2, <2>1, <2>2, QuietInMemory DEF Own, UnknownInMemory
  <2>4. BootAlone'
    BY <1>1, <2>1 DEF Own, BootAlone, Booting
  <2> QED BY <1>3, <2>3, <2>4 DEF Own
<1>7. CASE OpenWAL
  <2>1. UNCHANGED <<buffer, heap, wpc, sched, state>> /\ phase = "replay" /\ phase' = "rebuild"
    BY <1>7 DEF OpenWAL, registry, queues, workers, scheduler
  <2>2. Exclusive' /\ UnknownInMemory'
    BY <1>1, <1>2, <2>1, QuietInMemory DEF Own, UnknownInMemory
  <2>3. Range(buffer) = {} /\ heap = {}
    BY SMTT(15), ZenonT(40), <1>1, <2>1 DEF Own, BootAlone, Range
  <2>4. BootAlone'
    BY <1>1, <1>4, <2>1, <2>3 DEF BootAlone
  <2> QED BY <1>3, <2>2, <2>4 DEF Own
<1>8. ASSUME NEW t \in Task, RebuildTask(t) PROVE Own'
  <2>1. /\ UNCHANGED <<wpc, sched, phase>> /\ phase = "rebuild" /\ t \in rtodo /\ rtodo' = rtodo \ {t}
        /\ \A u \in Task \ {t} : state'[u] = state[u]
    BY <1>8 DEF RebuildTask, workers, scheduler, Types, RegistryTypes
  <2>2. t \notin Range(buffer) /\ t \notin heap
    BY <1>1, <2>1 DEF Own, BootAlone
  <2>3. CASE UNCHANGED <<buffer, heap, state>>
    <3>1. Exclusive' /\ UnknownInMemory'
      BY <1>1, <1>2, <2>1, <2>3, QuietInMemory DEF Own, UnknownInMemory
    <3>2. BootAlone'
      BY <1>1, <2>1, <2>3 DEF Own, BootAlone, Booting
    <3> QED BY <1>3, <3>1, <3>2 DEF Own
  <2>4. CASE state[t] # "absent" /\ UNCHANGED <<buffer, heap>>
    <3>1. t \notin New
      BY <2>4 DEF Own, UnknownInMemory
    <3>2. \A u \in New : state'[u] = "absent"
      BY <2>1, <3>1 DEF Own, UnknownInMemory, New
    <3>3. Exclusive' /\ UnknownInMemory'
      BY <1>1, <1>2, <2>1, <2>4, <3>2, QuietInMemory DEF Own, UnknownInMemory
    <3>4. BootAlone'
      BY <1>1, <2>1, <2>4 DEF Own, BootAlone, Booting
    <3> QED BY <1>3, <3>3, <3>4 DEF Own
  <2>5. CASE state[t] # "absent" /\ (\/ heap' = heap \cup {t} /\ UNCHANGED buffer
                                     \/ buffer' = Append(buffer, t) /\ UNCHANGED heap)
    <3>1. t \notin New
      BY <2>5 DEF Own, UnknownInMemory
    <3>2. \A w \in Worker, u \in Task : ~Holds(w, u)' /\ ~Holds(w, u)
      BY <1>1, <1>4, <2>1 DEF Holds
    <3>3. t \notin ready' /\ t # cur' /\ spc'[t] \notin InFlight
      BY <1>1, <1>4, NoneAssumption
    <3>4. Exclusive' /\ \A u \in Task : Queued(u)' => Queued(u) \/ u = t
      BY <1>1, <2>2, <2>5, <3>2, <3>3, PlacedIsExclusive DEF Own
    <3>5. UnknownInMemory'
      BY <1>1, <1>2, <2>1, <3>1, <3>4 DEF Own, UnknownInMemory, New
    <3>6. Range(buffer') \subseteq Range(buffer) \cup {t} /\ heap' \subseteq heap \cup {t}
      BY <2>5, PlaceTypes, AppendFacts
    <3>7. BootAlone'
      BY <1>1, <1>4, <2>1, <3>6 DEF Own, BootAlone, Booting
    <3> QED BY <1>3, <3>4, <3>5, <3>7 DEF Own
  <2> QED BY <1>8, <2>3, <2>4, <2>5 DEF RebuildTask, queues
<1>9. CASE Start
  <2>1. UNCHANGED <<buffer, heap, state>> /\ phase' = "up" /\ \A w \in Worker : wpc'[w] = "loop"
    BY <1>9 DEF Start, registry, queues
  <2>2. Exclusive' /\ UnknownInMemory'
    BY <1>1, <1>2, <2>1, QuietInMemory DEF Own, UnknownInMemory, Holding
  <2>3. BootAlone'
    BY <2>1 DEF BootAlone, Booting
  <2> QED BY <1>3, <2>2, <2>3 DEF Own
<1> QED BY <1>5, <1>6, <1>7, <1>8, <1>9 DEF RecoverStep

\* The end of the process takes every task out of memory.
LEMMA ProcessEndsOwn == ASSUME Types, Own, ProcessEnds PROVE Own'
<1> USE DEF ProcessEnds
<1>1. /\ New' \subseteq New /\ UNCHANGED <<snap, wal>>
      /\ \A t \in Task : spc'[t] \notin InFlight
  BY DEF New, InFlight, disk, Types, ClientTypes
<1>2. Range(buffer') = {} /\ IsInjective(buffer')
  BY SMTT(15), ZenonT(40) DEF Range, IsInjective
<1>3. \A t \in Task : ~Queued(t)' /\ \A w \in Worker : ~Holds(w, t)'
  BY <1>2, NoneAssumption DEF Queued, Holds, Holding
<1>4. Exclusive'
  BY <1>1, <1>2, <1>3 DEF Exclusive
<1>5. UnknownInMemory'
  BY <1>1, <1>3, NoneAssumption DEF UnknownInMemory, New
<1>6. UnknownOnDisk'
  <2>1. \A t \in Task : kcopy'.st[t] = "absent"
    BY DEF NoSnapshot
  <2> QED BY <1>1, <2>1 DEF Own, UnknownOnDisk, New
<1>7. BootAlone'
  BY <1>1 DEF BootAlone
<1> QED BY <1>4, <1>5, <1>6, <1>7 DEF Own

LEMMA NextOwn == Types /\ Types' /\ Own /\ [Next]_vars => Own'
<1> SUFFICES ASSUME Types, Types', Own, [Next]_vars PROVE Own'
  OBVIOUS
<1>1. CASE Crash \/ ShutdownReturns
  BY <1>1, ProcessEndsOwn DEF Crash, ShutdownReturns
<1>2. CASE StopHTTP \/ CancelContext \/ CloseBuffer \/ FinalCheckpoint \/ UNCHANGED vars
  <2>1. UNCHANGED <<spc, cpc, state, buffer, heap, ready, cur, sched, wpc, wtask, snap, kcopy, wal, rtodo>>
    BY <1>2 DEF StopHTTP, CancelContext, CloseBuffer, FinalCheckpoint, vars,
                disk, registry, queues, clients, workers, scheduler, ckpt, process
  <2>2. phase' = phase \/ phase' \in {"drain", "cancel", "stop", "final"}
    BY <1>2 DEF StopHTTP, CancelContext, CloseBuffer, FinalCheckpoint, vars, process
  <2>3. New' = New
    BY <2>1 DEF New
  <2>4. Exclusive' /\ UnknownInMemory'
    BY <2>1, <2>3, QuietInMemory DEF Own, UnknownInMemory
  <2>5. UnknownOnDisk'
    BY <2>1, <2>3, QuietOnDisk DEF Own
  <2>6. BootAlone'
    BY <2>1, <2>2 DEF Own, BootAlone, Booting
  <2> QED BY <2>4, <2>5, <2>6 DEF Own
<1> QED
  BY <1>1, <1>2, SubmitRegisterOwn, SubmitStepOwn, CancelOwn, WorkerStepOwn, SchedStepOwn, CkptOwn,
     RecoverStepOwn DEF Next, ShutdownStep

LEMMA AlwaysOwn == Spec => []Own
BY AlwaysTypes, InitOwn, NextOwn, PTL DEF Spec

-----------------------------------------------------------------------------
\* No task is ever in two places or with two workers: through any interleaving
\* of Submit, CancelTask, workers, scheduler and checkpoints, and through crashes
\* and recoveries, for any number of tasks and workers.
THEOREM EngineExclusiveOwnership == Spec => []ExclusiveOwnership
<1>1. Types /\ Own => ExclusiveOwnership
  BY ExclusiveImplies DEF Own
<1> QED BY <1>1, AlwaysTypes, AlwaysOwn, PTL

-----------------------------------------------------------------------------
(* What each goroutine may change *)

\* t is in somebody's hands or in a queue.
Has(t) == spc[t] \in InFlight \/ Queued(t) \/ \E w \in Worker : Holds(w, t)

LEMMA OwnedIsHas == ASSUME Types, NEW t \in Task PROVE t \in Owned <=> Has(t)
<1>1. t \in SubmitHeld <=> spc[t] \in InFlight
  BY DEF SubmitHeld
<1>2. t \in SchedHeld <=> t \in ready \/ t = cur
  BY NoneAssumption DEF SchedHeld
<1>3. \A w \in Worker : t \in WorkerHeld(w) <=> Holds(w, t)
  BY DEF WorkerHeld, Holds, Holding
<1>4. t \in UNION {WorkerHeld(w) : w \in Worker} <=> \E w \in Worker : Holds(w, t)
  BY <1>3
<1> QED BY <1>1, <1>2, <1>4 DEF Owned, Has, Queued

\* The log has one more record.
Wrote(type, t, st, rc) ==
    /\ ~walClosed /\ walSeq' = walSeq + 1
    /\ Len(wal) \in Nat /\ DOMAIN wal' = DOMAIN wal \cup {Len(wal) + 1}
    /\ \A i \in DOMAIN wal : i \in Nat /\ i < Len(wal) + 1 /\ wal'[i] = wal[i]
    /\ LET r == wal'[Len(wal) + 1]
       IN  r.seq = walSeq + 1 /\ r.type = type /\ r.task = t /\ r.st = st /\ r.rc = rc

\* Append leaves the records where they are and puts one after them.
LEMMA RecordAppended ==
    ASSUME NEW s \in Seq(Record), NEW x \in Record
    PROVE  /\ DOMAIN Append(s, x) = DOMAIN s \cup {Len(s) + 1}
           /\ Append(s, x)[Len(s) + 1] = x
           /\ Len(s) \in Nat
           /\ \A i \in DOMAIN s : i \in Nat /\ i < Len(s) + 1 /\ Append(s, x)[i] = s[i]
BY SMTT(30)

LEMMA LogWrites ==
    ASSUME Types, NEW type \in RecordType, NEW t \in Task,
           NEW st \in TaskState \cup {"absent", "none"}, NEW rc \in Nat,
           Log(type, t, st, rc)
    PROVE  \/ walClosed /\ UNCHANGED <<wal, walSeq>>
           \/ Wrote(type, t, st, rc)
<1>1. CASE walClosed
  BY <1>1 DEF Log
<1>2. CASE ~walClosed
  <2> DEFINE r == [seq |-> walSeq + 1, type |-> type, task |-> t, st |-> st, rc |-> rc]
  <2>1. walSeq' = walSeq + 1 /\ wal' = Append(wal, r)
    BY <1>2 DEF Log
  <2>2. wal \in Seq(Record) /\ r \in Record
    <3>1. wal \in Seq(Record) /\ walSeq \in Nat
      BY DEF Types, DiskTypes
    <3>2. walSeq + 1 \in Nat
      BY SMTT(30), <3>1
    <3>3. r \in Record
      BY <3>2 DEF Record
    <3> QED BY <3>1, <3>3
  <2>3. r.seq = walSeq + 1 /\ r.type = type /\ r.task = t /\ r.st = st /\ r.rc = rc
    OBVIOUS
  <2> HIDE DEF r
  <2>4. /\ Len(wal) \in Nat /\ DOMAIN wal' = DOMAIN wal \cup {Len(wal) + 1}
        /\ wal'[Len(wal) + 1] = r
        /\ \A i \in DOMAIN wal : i \in Nat /\ i < Len(wal) + 1 /\ wal'[i] = wal[i]
    <3>1. /\ DOMAIN Append(wal, r) = DOMAIN wal \cup {Len(wal) + 1}
          /\ Append(wal, r)[Len(wal) + 1] = r
          /\ Len(wal) \in Nat
          /\ \A i \in DOMAIN wal : i \in Nat /\ i < Len(wal) + 1 /\ Append(wal, r)[i] = wal[i]
      BY <2>2, RecordAppended
    <3> QED BY <2>1, <3>1
  <2> QED BY <1>2, <2>1, <2>3, <2>4 DEF Wrote
<1> QED BY <1>1, <1>2

LEMMA RegisterFacts ==
    ASSUME Types, NEW t \in Task, SubmitRegister(t)
    PROVE  /\ UNCHANGED <<wal, walOld, snap, walSeq, walClosed, retries, dlq, buffer, heap, sdata, cpc,
                          wpc, wtask, wres, runs, sched, ready, cur, kpc, kcopy, ktodo,
                          phase, rpos, rtodo, crashes, stops>>
           /\ spc[t] = "new" /\ t \in New /\ MuFree /\ Serving /\ ~Booting
           /\ \A u \in Task \ {t} : spc'[u] = spc[u] /\ state'[u] = state[u]
           /\ \/ spc'[t] = "duplicate" /\ UNCHANGED <<state, idemp>>
              \/ /\ spc'[t] = "marshal" /\ ~KeyTaken(t) /\ state'[t] \in {"Pending", "Scheduled"}
                 /\ idemp' = IF KeyOf[t] = None THEN idemp ELSE [idemp EXCEPT ![KeyOf[t]] = t]
<1> USE DEF SubmitRegister
<1>1. UNCHANGED <<wal, walOld, snap, walSeq, walClosed, retries, dlq, buffer, heap, sdata, cpc,
                  wpc, wtask, wres, runs, sched, ready, cur, kpc, kcopy, ktodo,
                  phase, rpos, rtodo, crashes, stops>>
  BY DEF disk, log, queues, workers, scheduler, ckpt, process
<1>2. spc[t] = "new" /\ t \in New /\ MuFree /\ Serving /\ ~Booting
  BY DEF New, Serving, Booting
<1>3. /\ \A u \in Task \ {t} : spc'[u] = spc[u] /\ state'[u] = state[u]
      /\ \/ spc'[t] = "duplicate" /\ UNCHANGED <<state, idemp>>
         \/ /\ spc'[t] = "marshal" /\ ~KeyTaken(t) /\ state'[t] \in {"Pending", "Scheduled"}
            /\ idemp' = IF KeyOf[t] = None THEN idemp ELSE [idemp EXCEPT ![KeyOf[t]] = t]
  BY DEF Types, ClientTypes, RegistryTypes
<1> QED BY <1>1, <1>2, <1>3

LEMMA SubmitFacts ==
    ASSUME Types, NEW t \in Task, SubmitStep(t)
    PROVE  /\ UNCHANGED <<walOld, snap, walClosed, retries, dlq, cpc, wpc, wtask, wres, runs, sched, ready, cur,
                          kpc, kcopy, ktodo, phase, rpos, rtodo, crashes, stops>>
           /\ spc[t] \in InFlight
           /\ \A u \in Task \ {t} : spc'[u] = spc[u] /\ state'[u] = state[u] /\ sdata'[u] = sdata[u]
           /\ \/ /\ spc[t] = "marshal" /\ spc'[t] = "append" /\ sdata'[t] = state[t]
                 /\ UNCHANGED <<wal, walSeq, state, idemp, buffer, heap>>
              \/ /\ spc[t] = "append" /\ spc'[t] = "route" /\ Wrote("enqueue", t, sdata[t], 0)
                 /\ UNCHANGED <<state, idemp, buffer, heap>>
              \/ /\ spc[t] = "append" /\ spc'[t] = "rollback" /\ walClosed
                 /\ UNCHANGED <<wal, walSeq, state, idemp, buffer, heap>>
              \/ /\ spc[t] = "rollback" /\ spc'[t] = "failed" /\ state'[t] = "absent" /\ MuFree
                 /\ idemp' = IF KeyOf[t] = None THEN idemp ELSE [idemp EXCEPT ![KeyOf[t]] = None]
                 /\ UNCHANGED <<wal, walSeq, buffer, heap>>
              \/ /\ spc[t] = "route" /\ spc'[t] \in {"push", "enq"}
                 /\ UNCHANGED <<wal, walSeq, state, idemp, buffer, heap>>
              \/ /\ spc[t] = "push" /\ spc'[t] = "acked" /\ heap' = heap \cup {t}
                 /\ UNCHANGED <<wal, walSeq, state, idemp, buffer>>
              \/ /\ spc[t] = "enq" /\ spc'[t] = "acked" /\ buffer' = Append(buffer, t)
                 /\ UNCHANGED <<wal, walSeq, state, idemp, heap>>
              \/ /\ spc[t] = "enq" /\ spc'[t] = "failed" /\ EnqueueErr
                 /\ UNCHANGED <<wal, walSeq, state, idemp, buffer, heap>>
<1> USE DEF SubmitStep
<1>1. UNCHANGED <<walOld, snap, walClosed, retries, dlq, cpc, wpc, wtask, wres, runs, sched, ready, cur,
                  kpc, kcopy, ktodo, phase, rpos, rtodo, crashes, stops>>
  BY DEF SubmitMarshal, SubmitAppend, SubmitRollback, SubmitRoute, SubmitPush, SubmitEnqueue,
     disk, log, registry, workers, scheduler, ckpt, process
<1>2. /\ spc \in [Task -> InFlight \cup {"new", "duplicate", "failed", "acked"}]
      /\ sdata \in [Task -> TaskState \cup {"absent"}] /\ state \in [Task -> TaskState \cup {"absent"}]
  BY DEF Types, ClientTypes, RegistryTypes
<1>3. spc[t] \in InFlight
  BY DEF InFlight, SubmitMarshal, SubmitAppend, SubmitRollback, SubmitRoute, SubmitPush, SubmitEnqueue
<1>4. \A u \in Task \ {t} : spc'[u] = spc[u] /\ state'[u] = state[u] /\ sdata'[u] = sdata[u]
  BY <1>2 DEF SubmitMarshal, SubmitAppend, SubmitRollback, SubmitRoute, SubmitPush, SubmitEnqueue, registry
<1>5. CASE SubmitMarshal(t)
  <2>1. /\ spc[t] = "marshal" /\ spc'[t] = "append" /\ sdata'[t] = state[t]
        /\ UNCHANGED <<wal, walSeq, state, idemp, buffer, heap>>
    BY <1>2, <1>5 DEF SubmitMarshal, disk, log, registry, queues
  <2> QED BY <1>1, <1>3, <1>4, <2>1
<1>6. CASE SubmitAppend(t)
  <2>1. /\ spc[t] = "append" /\ spc'[t] = IF walClosed THEN "rollback" ELSE "route"
        /\ UNCHANGED <<state, idemp, buffer, heap>> /\ Log("enqueue", t, sdata[t], 0)
    BY <1>2, <1>6 DEF SubmitAppend, registry, queues
  <2>2. "enqueue" \in RecordType /\ sdata[t] \in TaskState \cup {"absent", "none"} /\ 0 \in Nat
    BY <1>2 DEF RecordType
  <2>3. \/ walClosed /\ UNCHANGED <<wal, walSeq>>
        \/ Wrote("enqueue", t, sdata[t], 0)
    BY <2>1, <2>2, LogWrites
  <2>4. Wrote("enqueue", t, sdata[t], 0) => ~walClosed
    BY DEF Wrote
  <2> QED BY <1>1, <1>3, <1>4, <2>1, <2>3, <2>4
<1>7. CASE SubmitRollback(t)
  <2>1. /\ spc[t] = "rollback" /\ spc'[t] = "failed" /\ state'[t] = "absent" /\ MuFree
        /\ idemp' = IF KeyOf[t] = None THEN idemp ELSE [idemp EXCEPT ![KeyOf[t]] = None]
        /\ UNCHANGED <<wal, walSeq, buffer, heap>>
    BY <1>2, <1>7 DEF SubmitRollback, disk, log, queues
  <2> QED BY <1>1, <1>3, <1>4, <2>1
<1>8. CASE SubmitRoute(t)
  <2>1. /\ spc[t] = "route" /\ spc'[t] \in {"push", "enq"}
        /\ UNCHANGED <<wal, walSeq, state, idemp, buffer, heap>>
    BY <1>2, <1>8 DEF SubmitRoute, disk, log, registry, queues
  <2> QED BY <1>1, <1>3, <1>4, <2>1
<1>9. CASE SubmitPush(t)
  <2>1. /\ spc[t] = "push" /\ spc'[t] = "acked" /\ heap' = heap \cup {t}
        /\ UNCHANGED <<wal, walSeq, state, idemp, buffer>>
    BY <1>2, <1>9 DEF SubmitPush, disk, log, registry
  <2> QED BY <1>1, <1>3, <1>4, <2>1
<1>10. CASE SubmitEnqueue(t)
  <2>1. /\ spc[t] = "enq" /\ UNCHANGED <<wal, walSeq, state, idemp, heap>>
        /\ \/ spc'[t] = "acked" /\ buffer' = Append(buffer, t)
           \/ spc'[t] = "failed" /\ UNCHANGED buffer /\ EnqueueErr
    BY <1>2, <1>10 DEF SubmitEnqueue, disk, log, registry
  <2> QED BY <1>1, <1>3, <1>4, <2>1
<1> QED BY <1>5, <1>6, <1>7, <1>8, <1>9, <1>10

LEMMA CancelFacts ==
    ASSUME Types, NEW t \in Task, CancelCheck(t) \/ CancelStep(t)
    PROVE  /\ UNCHANGED <<walOld, snap, walClosed, retries, idemp, dlq, buffer, spc, sdata, wpc, wtask, wres, runs,
                          sched, ready, cur, kpc, kcopy, ktodo, phase, rpos, rtodo, crashes, stops>>
           /\ heap' \subseteq heap
           /\ \A u \in Task \ {t} : state'[u] = state[u] /\ cpc'[u] = cpc[u]
           /\ \/ /\ cpc[t] = "idle" /\ cpc'[t] = "set" /\ state[t] \in {"Pending", "Scheduled"}
                 /\ Serving /\ MuFree /\ t \in Cancellable
                 /\ UNCHANGED <<wal, walSeq, state, heap>>
              \/ cpc[t] = "set" /\ cpc'[t] = "log" /\ state'[t] = "Cancelled" /\ UNCHANGED <<wal, walSeq, heap>>
              \/ /\ cpc[t] = "log" /\ cpc'[t] \in {"remove", "done"}
                 /\ Wrote("cancel", t, "none", 0) \/ UNCHANGED <<wal, walSeq>>
                 /\ UNCHANGED <<state, heap>>
              \/ cpc[t] = "remove" /\ cpc'[t] = "done" /\ UNCHANGED <<wal, walSeq, state>>
<1> USE DEF CancelStep
<1>1. UNCHANGED <<walOld, snap, walClosed, retries, idemp, dlq, buffer, spc, sdata, wpc, wtask, wres, runs,
                  sched, ready, cur, kpc, kcopy, ktodo, phase, rpos, rtodo, crashes, stops>>
  BY DEF CancelCheck, CancelSet, CancelLog, CancelRemove,
     disk, log, registry, queues, workers, scheduler, ckpt, process
<1>2. /\ cpc \in [Task -> {"idle", "set", "log", "remove", "done"}]
      /\ state \in [Task -> TaskState \cup {"absent"}]
  BY DEF Types, ClientTypes, RegistryTypes
<1>3. \A u \in Task \ {t} : state'[u] = state[u] /\ cpc'[u] = cpc[u]
  BY <1>2 DEF CancelCheck, CancelSet, CancelLog, CancelRemove, registry
<1>4. CASE CancelCheck(t)
  <2>1. /\ cpc[t] = "idle" /\ cpc'[t] = "set" /\ state[t] \in {"Pending", "Scheduled"} /\ Serving /\ MuFree
        /\ t \in Cancellable /\ UNCHANGED <<wal, walSeq, state, heap>>
    BY <1>2, <1>4 DEF CancelCheck, disk, log, registry, queues
  <2> QED BY <1>1, <1>3, <2>1
<1>5. CASE CancelSet(t)
  <2>1. cpc[t] = "set" /\ cpc'[t] = "log" /\ state'[t] = "Cancelled" /\ UNCHANGED <<wal, walSeq, heap>>
    BY <1>2, <1>5 DEF CancelSet, disk, log, queues
  <2> QED BY <1>1, <1>3, <2>1
<1>6. CASE CancelLog(t)
  <2>1. /\ cpc[t] = "log" /\ cpc'[t] \in {"remove", "done"} /\ UNCHANGED <<state, heap>>
        /\ Log("cancel", t, "none", 0)
    BY <1>2, <1>6 DEF CancelLog, registry, queues
  <2>2. "cancel" \in RecordType /\ "none" \in TaskState \cup {"absent", "none"} /\ 0 \in Nat
    BY DEF RecordType
  <2>3. Wrote("cancel", t, "none", 0) \/ UNCHANGED <<wal, walSeq>>
    BY <2>1, <2>2, LogWrites
  <2> QED BY <1>1, <1>3, <2>1, <2>3
<1>7. CASE CancelRemove(t)
  <2>1. cpc[t] = "remove" /\ cpc'[t] = "done" /\ UNCHANGED <<wal, walSeq, state>> /\ heap' \subseteq heap
    BY <1>2, <1>7 DEF CancelRemove, disk, log, registry
  <2> QED BY <1>1, <1>3, <2>1
<1> QED BY <1>4, <1>5, <1>6, <1>7

\* A worker changes only what its task's record and its own variables say.
LEMMA WorkerFrame ==
    ASSUME Types, NEW w \in Worker, WorkerStep(w)
    PROVE  /\ UNCHANGED <<walOld, snap, walClosed, idemp, spc, sdata, cpc, sched, ready, cur,
                          kpc, kcopy, ktodo, phase, rpos, rtodo, crashes, stops>>
           /\ wpc[w] # "exit"
           /\ \A v \in Worker \ {w} : wpc'[v] = wpc[v] /\ wtask'[v] = wtask[v] /\ wres'[v] = wres[v]
           /\ \A u \in Task \ {wtask[w]} : state'[u] = state[u] /\ retries'[u] = retries[u] /\ runs'[u] = runs[u]
<1> USE DEF WorkerStep
<1>1. UNCHANGED <<walOld, snap, walClosed, idemp, spc, sdata, cpc, sched, ready, cur,
                  kpc, kcopy, ktodo, phase, rpos, rtodo, crashes, stops>>
  BY DEF WorkerLoop, WorkerDequeue, WorkerMark, WorkerStart, WorkerLogStart, WorkerExec,
     WorkerSettle, WorkerLog, WorkerPush, WorkerPost, WorkerForce, disk, log, registry, clients, scheduler, ckpt, process
<1>2. wpc[w] # "exit"
  BY DEF WorkerLoop, WorkerDequeue, WorkerMark, WorkerStart, WorkerLogStart, WorkerExec,
     WorkerSettle, WorkerLog, WorkerPush, WorkerPost, WorkerForce
<1>3. /\ wpc \in [Worker -> Holding \cup {"exit", "loop", "deq", "post", "force"}]
      /\ wtask \in [Worker -> Task \cup {None}]
      /\ wres \in [Worker -> {"none", "ok", "err", "fatal", "complete", "retry", "dead"}]
      /\ runs \in [Task -> Nat] /\ state \in [Task -> TaskState \cup {"absent"}] /\ retries \in [Task -> Nat]
  BY DEF Types, WorkerTypes, RegistryTypes
<1>4. \A v \in Worker \ {w} : wpc'[v] = wpc[v] /\ wtask'[v] = wtask[v] /\ wres'[v] = wres[v]
  BY <1>3 DEF WorkerLoop, WorkerDequeue, WorkerMark, WorkerStart, WorkerLogStart, WorkerExec,
     WorkerSettle, WorkerLog, WorkerPush, WorkerPost, WorkerForce, WorkerDone
<1>5. \A u \in Task \ {wtask[w]} : state'[u] = state[u] /\ retries'[u] = retries[u] /\ runs'[u] = runs[u]
  BY <1>3 DEF WorkerLoop, WorkerDequeue, WorkerMark, WorkerStart, WorkerLogStart, WorkerExec,
     WorkerSettle, WorkerLog, WorkerPush, WorkerPost, WorkerForce, registry
<1> QED BY <1>1, <1>2, <1>4, <1>5

\* Taking a task from the buffer, calling the handler and leaving the loop body
\* change neither the registry nor the log.
LEMMA WorkerIdleFacts ==
    ASSUME Types, NEW w \in Worker,
           WorkerLoop(w) \/ WorkerDequeue(w) \/ WorkerExec(w) \/ WorkerPush(w) \/ WorkerPost(w)
    PROVE  /\ UNCHANGED <<wal, walSeq, state, retries, dlq, runs>>
           /\ \/ wpc[w] \in {"loop", "deq"} /\ wpc'[w] \in {"deq", "exit"} /\ UNCHANGED <<wtask, buffer, heap>>
              \/ /\ wpc[w] = "deq" /\ wpc'[w] = "got" /\ wtask'[w] = Head(buffer) /\ buffer # <<>>
                 /\ buffer' = Tail(buffer) /\ UNCHANGED heap
              \/ wpc[w] = "exec" /\ wpc'[w] = "settle" /\ wres'[w] \in {"ok", "err", "fatal"} /\ UNCHANGED <<wtask, buffer, heap>>
              \/ wpc[w] = "push" /\ wpc'[w] = "post" /\ heap' = heap \cup {wtask[w]} /\ UNCHANGED <<wtask, buffer>>
              \/ wpc[w] = "post" /\ wpc'[w] = "force" /\ UNCHANGED <<wtask, buffer, heap>>
              \/ wpc[w] = "post" /\ wpc'[w] = "loop" /\ wtask'[w] = None /\ UNCHANGED <<buffer, heap>>
<1>1. UNCHANGED <<wal, walSeq, state, retries, dlq, runs>>
  BY DEF WorkerLoop, WorkerDequeue, WorkerExec, WorkerPush, WorkerPost, disk, log, registry
<1>2. /\ wpc \in [Worker -> Holding \cup {"exit", "loop", "deq", "post", "force"}]
      /\ wtask \in [Worker -> Task \cup {None}]
      /\ wres \in [Worker -> {"none", "ok", "err", "fatal", "complete", "retry", "dead"}]
  BY DEF Types, WorkerTypes
<1>3. CASE WorkerLoop(w)
  <2>1. wpc[w] \in {"loop", "deq"} /\ wpc'[w] \in {"deq", "exit"} /\ UNCHANGED <<wtask, buffer, heap>>
    BY <1>2, <1>3 DEF WorkerLoop, queues
  <2> QED BY <1>1, <2>1
<1>4. CASE WorkerDequeue(w)
  <2>1. \/ wpc[w] \in {"loop", "deq"} /\ wpc'[w] \in {"deq", "exit"} /\ UNCHANGED <<wtask, buffer, heap>>
        \/ /\ wpc[w] = "deq" /\ wpc'[w] = "got" /\ wtask'[w] = Head(buffer) /\ buffer # <<>>
           /\ buffer' = Tail(buffer) /\ UNCHANGED heap
    BY <1>2, <1>4 DEF WorkerDequeue
  <2> QED BY <1>1, <2>1
<1>5. CASE WorkerExec(w)
  <2>1. wpc[w] = "exec" /\ wpc'[w] = "settle" /\ wres'[w] \in {"ok", "err", "fatal"} /\ UNCHANGED <<wtask, buffer, heap>>
    BY <1>2, <1>5, OutcomesAssumption DEF WorkerExec, queues
  <2> QED BY <1>1, <2>1
<1>6. CASE WorkerPush(w)
  <2>1. wpc[w] = "push" /\ wpc'[w] = "post" /\ heap' = heap \cup {wtask[w]} /\ UNCHANGED <<wtask, buffer>>
    BY <1>2, <1>6 DEF WorkerPush
  <2> QED BY <1>1, <2>1
<1>7. CASE WorkerPost(w)
  <2>1. \/ wpc[w] = "post" /\ wpc'[w] = "force" /\ UNCHANGED <<wtask, buffer, heap>>
        \/ wpc[w] = "post" /\ wpc'[w] = "loop" /\ wtask'[w] = None /\ UNCHANGED <<buffer, heap>>
    BY <1>2, <1>7 DEF WorkerPost, WorkerDone, queues
  <2> QED BY <1>1, <2>1
<1> QED BY <1>3, <1>4, <1>5, <1>6, <1>7

LEMMA WorkerMarkFacts ==
    ASSUME Types, NEW w \in Worker, WorkerMark(w) \/ WorkerStart(w)
    PROVE  /\ UNCHANGED <<wal, walSeq, retries, dlq, runs, wtask, wres, buffer, heap>>
           /\ wtask[w] \in Task /\ state'[wtask[w]] = "Running"
           /\ \/ wpc[w] = "got" /\ wpc'[w] = "start"
              \/ wpc[w] = "start" /\ wpc'[w] = "logstart"
<1>1. UNCHANGED <<wal, walSeq, retries, dlq, runs, wtask, wres, buffer, heap>>
  BY DEF WorkerMark, WorkerStart, disk, log, queues
<1>2. \/ wpc[w] = "got" /\ wpc'[w] = "start"
      \/ wpc[w] = "start" /\ wpc'[w] = "logstart"
  BY DEF WorkerMark, WorkerStart, Types, WorkerTypes
<1>3. wtask[w] \in Task
  BY <1>2 DEF Types, WorkerTypes, Holding
<1>4. state'[wtask[w]] = "Running"
  BY <1>3 DEF WorkerMark, WorkerStart, Types, RegistryTypes
<1> QED BY <1>1, <1>2, <1>3, <1>4

LEMMA WorkerLogStartFacts ==
    ASSUME Types, NEW w \in Worker, WorkerLogStart(w)
    PROVE  /\ UNCHANGED <<state, retries, dlq, wtask, wres, buffer, heap>>
           /\ wtask[w] \in Task /\ wpc[w] = "logstart" /\ wpc'[w] = "exec"
           /\ runs'[wtask[w]] = runs[wtask[w]] + 1
           /\ Wrote("start", wtask[w], "none", 0) \/ (walClosed /\ UNCHANGED <<wal, walSeq>>)
<1>1. /\ UNCHANGED <<state, retries, dlq, wtask, wres, buffer, heap>>
      /\ wpc[w] = "logstart" /\ Log("start", wtask[w], "none", 0)
      /\ wpc' = [wpc EXCEPT ![w] = "exec"] /\ runs' = [runs EXCEPT ![wtask[w]] = @ + 1]
  BY DEF WorkerLogStart, registry, queues
<1>2. wtask[w] \in Task
  BY <1>1 DEF Types, WorkerTypes, Holding
<1>3. wpc'[w] = "exec" /\ runs'[wtask[w]] = runs[wtask[w]] + 1
  BY <1>1, <1>2 DEF Types, WorkerTypes
<1>4. "start" \in RecordType /\ "none" \in TaskState \cup {"absent", "none"} /\ 0 \in Nat
  BY DEF RecordType
<1>5. Wrote("start", wtask[w], "none", 0) \/ (walClosed /\ UNCHANGED <<wal, walSeq>>)
  BY <1>1, <1>2, <1>4, LogWrites
<1> QED BY <1>1, <1>2, <1>3, <1>5

LEMMA WorkerSettleFacts ==
    ASSUME Types, NEW w \in Worker, WorkerSettle(w)
    PROVE  /\ UNCHANGED <<wal, walSeq, dlq, runs, wtask, buffer, heap>>
           /\ wtask[w] \in Task /\ wpc[w] = "settle" /\ wpc'[w] = "log" /\ MuFree
           /\ \/ /\ state'[wtask[w]] = "Completed" /\ wres'[w] = "complete"
                 /\ retries'[wtask[w]] = retries[wtask[w]]
              \/ /\ state'[wtask[w]] = "Dead" /\ wres'[w] = "dead"
                 /\ retries'[wtask[w]] = retries[wtask[w]] + 1
              \/ /\ state'[wtask[w]] = "Scheduled" /\ wres'[w] = "retry"
                 /\ retries'[wtask[w]] = retries[wtask[w]] + 1 /\ retries[wtask[w]] + 1 <= MaxRetries
<1>1. /\ UNCHANGED <<wal, walSeq, dlq, runs, wtask, buffer, heap>>
      /\ wpc[w] = "settle" /\ MuFree /\ wpc' = [wpc EXCEPT ![w] = "log"]
  BY DEF WorkerSettle, disk, log, queues
<1>2. wtask[w] \in Task /\ wpc'[w] = "log"
  BY <1>1 DEF Types, WorkerTypes, Holding
<1>3. /\ state \in [Task -> TaskState \cup {"absent"}] /\ retries \in [Task -> Nat]
      /\ wres \in [Worker -> {"none", "ok", "err", "fatal", "complete", "retry", "dead"}]
  BY DEF Types, RegistryTypes, WorkerTypes
<1>4. CASE wres[w] = "ok"
  <2>1. /\ state' = [state EXCEPT ![wtask[w]] = "Completed"]
        /\ wres' = [wres EXCEPT ![w] = "complete"] /\ UNCHANGED retries
    BY <1>4 DEF WorkerSettle
  <2> QED BY <1>1, <1>2, <1>3, <2>1
<1>5. CASE wres[w] # "ok"
  <2>1. /\ retries' = [retries EXCEPT ![wtask[w]] = @ + 1]
        /\ state' = [state EXCEPT ![wtask[w]] = IF Exhausted(w) THEN "Dead" ELSE "Scheduled"]
        /\ wres' = [wres EXCEPT ![w] = IF Exhausted(w) THEN "dead" ELSE "retry"]
    BY <1>5 DEF WorkerSettle
  <2>2. Exhausted(w) \/ retries[wtask[w]] + 1 <= MaxRetries
    BY SMTT(30), <1>2, <1>3, NumbersAssumption DEF Exhausted
  <2> QED BY <1>1, <1>2, <1>3, <2>1, <2>2
<1> QED BY <1>4, <1>5

LEMMA WorkerLogFacts ==
    ASSUME Types, NEW w \in Worker, WorkerLog(w)
    PROVE  /\ UNCHANGED <<state, retries, runs, wtask, wres, buffer, heap>>
           /\ wtask[w] \in Task /\ wpc[w] = "log" /\ wres[w] \in {"complete", "retry", "dead"}
           /\ wpc'[w] = IF wres[w] = "retry" THEN "push" ELSE "post"
           /\ dlq' = IF wres[w] = "dead" THEN Append(dlq, wtask[w]) ELSE dlq
           /\ \/ Wrote(wres[w], wtask[w], "none", IF wres[w] = "retry" THEN retries[wtask[w]] ELSE 0)
              \/ walClosed /\ UNCHANGED <<wal, walSeq>>
<1> DEFINE rc == IF wres[w] = "retry" THEN retries[wtask[w]] ELSE 0
<1>1. /\ UNCHANGED <<state, retries, runs, wtask, wres, buffer, heap>>
      /\ wpc[w] = "log" /\ Log(wres[w], wtask[w], "none", rc)
      /\ wpc' = [wpc EXCEPT ![w] = IF wres[w] = "retry" THEN "push" ELSE "post"]
      /\ dlq' = IF wres[w] = "dead" THEN Append(dlq, wtask[w]) ELSE dlq
  BY DEF WorkerLog, queues
<1>2. wtask[w] \in Task /\ wres[w] \in {"complete", "retry", "dead"}
  BY <1>1 DEF Types, WorkerTypes, Holding
<1>3. wpc'[w] = IF wres[w] = "retry" THEN "push" ELSE "post"
  BY <1>1 DEF Types, WorkerTypes
<1>4. wres[w] \in RecordType /\ "none" \in TaskState \cup {"absent", "none"} /\ rc \in Nat
  BY <1>2 DEF RecordType, Types, RegistryTypes
<1> HIDE DEF rc
<1>5. Wrote(wres[w], wtask[w], "none", rc) \/ (walClosed /\ UNCHANGED <<wal, walSeq>>)
  BY <1>1, <1>2, <1>4, LogWrites
<1> QED BY <1>1, <1>2, <1>3, <1>5 DEF rc

LEMMA WorkerForceFacts ==
    ASSUME Types, NEW w \in Worker, WorkerForce(w)
    PROVE  /\ UNCHANGED <<wal, walSeq, retries, dlq, runs, buffer, heap>>
           /\ wpc[w] = "force" /\ wpc'[w] = "loop" /\ wtask[w] \in Task /\ wtask'[w] = None
           /\ state'[wtask[w]] \in {"Completed", "Failed"}
<1>1. /\ UNCHANGED <<wal, walSeq, retries, dlq, runs, buffer, heap>>
      /\ wpc[w] = "force" /\ wpc' = [wpc EXCEPT ![w] = "loop"] /\ wtask' = [wtask EXCEPT ![w] = None]
      /\ state' = [state EXCEPT ![wtask[w]] = IF wres[w] = "complete" THEN "Completed" ELSE "Failed"]
  BY DEF WorkerForce, WorkerDone, disk, log, queues
<1>2. wtask[w] \in Task /\ wpc'[w] = "loop" /\ wtask'[w] = None
  BY <1>1 DEF Types, WorkerTypes
<1>3. state'[wtask[w]] \in {"Completed", "Failed"}
  BY <1>1, <1>2 DEF Types, RegistryTypes
<1> QED BY <1>1, <1>2, <1>3

\* The scheduler changes the state only of tasks it has or takes from the heap.
LEMMA SchedFacts ==
    ASSUME Types, SchedStep
    PROVE  /\ UNCHANGED <<wal, walOld, snap, walSeq, walClosed, retries, idemp, dlq, spc, sdata, cpc,
                          wpc, wtask, wres, runs, kpc, kcopy, ktodo, phase, rpos, rtodo, crashes, stops>>
           /\ sched = "run" \/ ready # {} \/ cur # None
           /\ \A t \in Task : \/ state'[t] = state[t]
                              \/ Queued(t) /\ state'[t] \in {"Pending", "Scheduled", "Expired"}
<1> USE DEF SchedStep
<1>1. UNCHANGED <<wal, walOld, snap, walSeq, walClosed, retries, idemp, dlq, spc, sdata, cpc,
                  wpc, wtask, wres, runs, kpc, kcopy, ktodo, phase, rpos, rtodo, crashes, stops>>
  BY DEF SchedPromote, SchedCheck, SchedEnqueue, SchedExit,
     disk, log, registry, clients, workers, ckpt, process
<1>2. sched = "run" \/ ready # {} \/ cur # None
  BY DEF SchedPromote, SchedCheck, SchedEnqueue, SchedExit
<1>3. CASE SchedPromote
  <2>1. PICK due \in SUBSET heap : state' = [t \in Task |-> IF t \in due THEN "Pending" ELSE state[t]]
    BY <1>3 DEF SchedPromote
  <2> QED BY <1>1, <1>2, <2>1 DEF Queued
<1>4. CASE SchedCheck
  <2>1. PICK t \in ready : state' = state \/ state' = [state EXCEPT ![t] = "Expired"]
    BY <1>4 DEF SchedCheck
  <2> QED BY <1>1, <1>2, <2>1 DEF Queued, Types, RegistryTypes
<1>5. CASE SchedEnqueue
  <2>1. state' = state \/ state' = [state EXCEPT ![cur] = "Scheduled"]
    BY <1>5 DEF SchedEnqueue
  <2> QED BY <1>1, <1>2, <2>1 DEF Queued, Types, RegistryTypes
<1>6. CASE SchedExit
  <2>1. state' = state
    BY <1>6 DEF SchedExit, registry
  <2> QED BY <1>1, <1>2, <2>1
<1> QED BY <1>3, <1>4, <1>5, <1>6

\* A checkpoint reads the registry and changes only files and its own variables.
LEMMA CkptFrame ==
    ASSUME CkptBegin \/ CkptStep \/ CkptExit
    PROVE  UNCHANGED <<walSeq, state, retries, idemp, dlq, buffer, heap, spc, sdata, cpc, wpc, wtask, wres, runs,
                       sched, ready, cur, phase, rpos, rtodo, crashes, stops>>
BY DEF CkptBegin, CkptStep, CkptCopy, CkptUnlock, CkptWrite, CkptClose, CkptRename, CkptOpen,
   CkptFault, CkptExit, log, registry, queues, clients, workers, scheduler, process

LEMMA CkptFacts ==
    ASSUME Types, CkptBegin \/ CkptStep \/ CkptExit
    PROVE  \/ /\ kpc = "idle" /\ kpc' = "copy" /\ kcopy'.seq = walSeq /\ ktodo' = Registered
              /\ \A t \in Task : kcopy'.st[t] = "absent" /\ kcopy'.rc[t] = 0
              /\ UNCHANGED <<wal, walOld, snap, walClosed>>
           \/ /\ kpc = "copy" /\ kpc' = "copy" /\ UNCHANGED <<wal, walOld, snap, walClosed>>
              /\ kcopy'.seq = kcopy.seq
              /\ \E t \in ktodo :
                   /\ ktodo' = ktodo \ {t}
                   /\ \A u \in Task : /\ kcopy'.st[u] = IF u = t THEN state[t] ELSE kcopy.st[u]
                                      /\ kcopy'.rc[u] = IF u = t THEN retries[t] ELSE kcopy.rc[u]
           \/ /\ kpc = "copy" /\ kpc' = "write" /\ ktodo = {}
              /\ UNCHANGED <<wal, walOld, snap, walClosed, kcopy, ktodo>>
           \/ /\ kpc = "write" /\ kpc' = "close" /\ snap' = kcopy /\ kcopy' = NoSnapshot
              /\ UNCHANGED <<wal, walOld, walClosed, ktodo>>
           \/ /\ kpc = "close" /\ kpc' = "rename" /\ walClosed' /\ UNCHANGED <<wal, walOld, snap, kcopy, ktodo>>
           \/ /\ kpc = "rename" /\ kpc' = "open" /\ walOld' = wal /\ wal' = <<>>
              /\ UNCHANGED <<snap, walClosed, kcopy, ktodo>>
           \/ /\ kpc = "open" /\ kpc' = IF phase = "final" THEN "exit" ELSE "idle"
              /\ ~walClosed' /\ UNCHANGED <<wal, walOld, snap, kcopy, ktodo>>
           \/ /\ IOFaults /\ kpc \in {"write", "close", "rename", "open"} /\ kpc' \in {"idle", "exit"}
              /\ kcopy' = NoSnapshot /\ UNCHANGED <<wal, snap, ktodo>>
              /\ walOld' = walOld \/ (kpc = "rename" /\ walOld' = <<>>)
           \/ /\ kpc = "idle" /\ kpc' = "exit" /\ phase \in {"cancel", "stop"}
              /\ UNCHANGED <<wal, walOld, snap, walClosed, kcopy, ktodo>>
<1>1. CASE CkptBegin
  <2>1. /\ kpc = "idle" /\ kpc' = "copy" /\ kcopy' = [NoSnapshot EXCEPT !.seq = walSeq] /\ ktodo' = Registered
        /\ UNCHANGED <<wal, walOld, snap, walClosed>>
    BY <1>1 DEF CkptBegin, CkptTasks, disk, log
  <2>2. kcopy'.seq = walSeq /\ \A t \in Task : kcopy'.st[t] = "absent" /\ kcopy'.rc[t] = 0
    BY <2>1 DEF NoSnapshot
  <2> QED BY <2>1, <2>2
<1>2. CASE CkptCopy
  <2>1. /\ kpc = "copy" /\ kpc' = "copy" /\ UNCHANGED <<wal, walOld, snap, walClosed>>
        /\ \E t \in ktodo : /\ ktodo' = ktodo \ {t}
                            /\ kcopy' = [kcopy EXCEPT !.st[t] = state[t], !.rc[t] = retries[t]]
    BY <1>2 DEF CkptCopy, disk, log
  <2>2. kcopy \in Snapshot /\ ktodo \subseteq Task
    BY DEF Types, CkptTypes
  <2>3. PICK t \in ktodo : /\ ktodo' = ktodo \ {t}
                           /\ kcopy' = [kcopy EXCEPT !.st[t] = state[t], !.rc[t] = retries[t]]
    BY <2>1
  <2>4. /\ kcopy'.seq = kcopy.seq
        /\ \A u \in Task : /\ kcopy'.st[u] = IF u = t THEN state[t] ELSE kcopy.st[u]
                           /\ kcopy'.rc[u] = IF u = t THEN retries[t] ELSE kcopy.rc[u]
    BY <2>2, <2>3 DEF Snapshot
  <2> QED BY <2>1, <2>3, <2>4
<1>3. CASE CkptUnlock
  BY <1>3 DEF CkptUnlock, disk, log
<1>4. CASE CkptWrite
  BY <1>4 DEF CkptWrite, log
<1>5. CASE CkptClose
  BY <1>5 DEF CkptClose, disk
<1>6. CASE CkptRename
  BY <1>6 DEF CkptRename, log
<1>7. CASE CkptOpen
  BY <1>7 DEF CkptOpen, CkptReturn, disk
<1>8. CASE CkptFault
  <2>1. /\ IOFaults /\ kpc \in {"write", "close", "rename", "open"} /\ kpc' \in {"idle", "exit"}
        /\ kcopy' = NoSnapshot /\ UNCHANGED <<wal, snap, ktodo>>
        /\ walOld' = walOld \/ (kpc = "rename" /\ walOld' = <<>>)
    BY <1>8 DEF CkptFault, CkptReturn
  <2> QED BY <2>1
<1>9. CASE CkptExit
  BY <1>9 DEF CkptExit, disk, log
<1> QED BY <1>1, <1>2, <1>3, <1>4, <1>5, <1>6, <1>7, <1>8, <1>9 DEF CkptStep

\* The steps of a shutdown before main returns.
StopSteps == StopHTTP \/ CancelContext \/ CloseBuffer \/ FinalCheckpoint

LEMMA StopFacts ==
    ASSUME StopSteps
    PROVE  /\ UNCHANGED <<wal, walOld, snap, walSeq, walClosed, state, retries, idemp, dlq, buffer, heap, spc, sdata, cpc,
                          wpc, wtask, wres, runs, sched, ready, cur, kcopy, ktodo, rpos, rtodo, crashes>>
           /\ \/ phase = "up" /\ phase' = "drain" /\ stops' = stops + 1 /\ UNCHANGED kpc
              \/ phase = "drain" /\ phase' = "cancel" /\ (RequestsDone \/ TimeoutsExpire) /\ UNCHANGED <<stops, kpc>>
              \/ phase = "cancel" /\ phase' = "stop" /\ UNCHANGED <<stops, kpc>>
              \/ /\ phase = "stop" /\ phase' = "final" /\ kpc = "exit" /\ kpc' = "idle" /\ UNCHANGED stops
                 /\ WorkersStopped /\ sched = "exit"
<1>1. UNCHANGED <<wal, walOld, snap, walSeq, walClosed, state, retries, idemp, dlq, buffer, heap, spc, sdata, cpc,
                  wpc, wtask, wres, runs, sched, ready, cur, kcopy, ktodo, rpos, rtodo, crashes>>
  BY DEF StopSteps, StopHTTP, CancelContext, CloseBuffer, FinalCheckpoint,
     disk, log, registry, queues, clients, workers, scheduler, ckpt
<1>2. \/ phase = "up" /\ phase' = "drain" /\ stops' = stops + 1 /\ UNCHANGED kpc
      \/ phase = "drain" /\ phase' = "cancel" /\ (RequestsDone \/ TimeoutsExpire) /\ UNCHANGED <<stops, kpc>>
      \/ phase = "cancel" /\ phase' = "stop" /\ UNCHANGED <<stops, kpc>>
      \/ /\ phase = "stop" /\ phase' = "final" /\ kpc = "exit" /\ kpc' = "idle" /\ UNCHANGED stops
         /\ WorkersStopped /\ sched = "exit"
  BY DEF StopSteps, StopHTTP, CancelContext, CloseBuffer, FinalCheckpoint, ckpt
<1> QED BY <1>1, <1>2

LEMMA RecoverFrame ==
    ASSUME RecoverStep
    PROVE  /\ UNCHANGED <<wal, walOld, snap, spc, sdata, cpc, wtask, wres, runs, ready, cur, kcopy, ktodo, crashes, stops>>
           /\ Booting
BY DEF RecoverStep, LoadSnapshot, ReplayEntry, OpenWAL, RebuildTask, Start, Booting,
   disk, clients, workers, scheduler, ckpt

LEMMA LoadFacts ==
    ASSUME LoadSnapshot
    PROVE  /\ phase = "down" /\ phase' = "replay" /\ rpos' = 1 /\ state' = snap.st /\ retries' = snap.rc
           /\ UNCHANGED <<walSeq, walClosed, dlq, buffer, heap, wpc, sched, kpc, rtodo>>
BY DEF LoadSnapshot, log, queues, workers, scheduler, ckpt

LEMMA ReplayFacts ==
    ASSUME ReplayEntry
    PROVE  /\ phase = "replay" /\ rpos \in DOMAIN wal /\ rpos' = rpos + 1 /\ ApplyEntry(wal[rpos])
           /\ UNCHANGED <<phase, walSeq, walClosed, buffer, heap, wpc, sched, kpc, rtodo>>
BY DEF ReplayEntry, log, queues, workers, scheduler, ckpt

LEMMA OpenFacts ==
    ASSUME OpenWAL
    PROVE  /\ phase = "replay" /\ phase' = "rebuild" /\ rpos = Len(wal) + 1 /\ ~walClosed' /\ rtodo' = Registered
           /\ UNCHANGED <<state, retries, idemp, dlq, buffer, heap, wpc, sched, kpc, rpos>>
BY DEF OpenWAL, registry, queues, workers, scheduler, ckpt

LEMMA RebuildFacts ==
    ASSUME Types, NEW t \in Task, RebuildTask(t)
    PROVE  /\ phase = "rebuild" /\ t \in rtodo /\ rtodo' = rtodo \ {t}
           /\ UNCHANGED <<phase, walSeq, walClosed, idemp, dlq, wpc, sched, kpc, rpos>>
           /\ \A u \in Task \ {t} : state'[u] = state[u] /\ retries'[u] = retries[u]
           /\ \/ /\ state[t] \in {"Pending", "Running"} /\ state'[t] = "Pending"
                 /\ retries'[t] \in {retries[t], retries[t] + 1}
                 /\ UNCHANGED heap
                 /\ buffer' = Append(buffer, t) \/ (EnqueueErr /\ UNCHANGED buffer)
              \/ state[t] = "Scheduled" /\ heap' = heap \cup {t} /\ UNCHANGED <<state, retries, buffer>>
              \/ state[t] \notin {"Pending", "Running", "Scheduled"} /\ UNCHANGED <<state, retries, buffer, heap>>
<1>1. /\ phase = "rebuild" /\ t \in rtodo /\ rtodo' = rtodo \ {t}
      /\ UNCHANGED <<phase, walSeq, walClosed, idemp, dlq, wpc, sched, kpc, rpos>>
  BY DEF RebuildTask, log, workers, scheduler, ckpt
<1>2. \/ /\ state[t] \in {"Pending", "Running"}
         /\ buffer' = Append(buffer, t) \/ (EnqueueErr /\ UNCHANGED buffer)
         /\ state' = [state EXCEPT ![t] = "Pending"]
         /\ retries' = IF state[t] = "Running" THEN [retries EXCEPT ![t] = @ + 1] ELSE retries
         /\ UNCHANGED heap
      \/ state[t] = "Scheduled" /\ heap' = heap \cup {t} /\ UNCHANGED <<state, retries, buffer>>
      \/ state[t] \notin {"Pending", "Running", "Scheduled"} /\ UNCHANGED <<state, retries, buffer, heap>>
  BY DEF RebuildTask, queues
<1>3. state \in [Task -> TaskState \cup {"absent"}] /\ retries \in [Task -> Nat]
  BY DEF Types, RegistryTypes
<1> QED BY <1>1, <1>2, <1>3

LEMMA StartFacts ==
    ASSUME Start
    PROVE  /\ phase = "rebuild" /\ phase' = "up" /\ rtodo = {} /\ \A w \in Worker : wpc'[w] = "loop"
           /\ kpc' = IF Checkpointing THEN "idle" ELSE "exit"
           /\ UNCHANGED <<walSeq, walClosed, state, retries, idemp, dlq, buffer, heap, rpos, rtodo>>
BY DEF Start, log, registry, queues

LEMMA EndFacts ==
    ASSUME Types, Crash \/ ShutdownReturns
    PROVE  /\ UNCHANGED <<wal, walOld, snap, runs>> /\ phase # "down" /\ phase' = "down" /\ rpos' = 1 /\ walClosed'
           /\ \A t \in Task : state'[t] = "absent" /\ retries'[t] = 0 /\ cpc'[t] = "idle"
           /\ \A t \in Task : spc'[t] = IF spc[t] \in InFlight THEN "failed" ELSE spc[t]
           /\ \A t \in Task : spc'[t] \notin InFlight
           /\ dlq' = <<>> /\ buffer' = <<>> /\ heap' = {} /\ ready' = {} /\ cur' = None /\ sched' = "exit"
           /\ \A w \in Worker : wpc'[w] = "exit" /\ wtask'[w] = None
           /\ kpc' = "exit" /\ kcopy' = NoSnapshot
           /\ \/ crashes' = crashes + 1 /\ UNCHANGED stops
              \/ UNCHANGED <<crashes, stops>> /\ phase \in {"stop", "final"}
<1>1. ProcessEnds
  BY DEF Crash, ShutdownReturns
<1>2. /\ UNCHANGED <<wal, walOld, snap, runs>> /\ phase' = "down" /\ rpos' = 1 /\ walClosed'
      /\ dlq' = <<>> /\ buffer' = <<>> /\ heap' = {} /\ ready' = {} /\ cur' = None /\ sched' = "exit"
      /\ kpc' = "exit" /\ kcopy' = NoSnapshot
  BY <1>1 DEF ProcessEnds, disk
<1>3. /\ \A t \in Task : state'[t] = "absent" /\ retries'[t] = 0 /\ cpc'[t] = "idle"
      /\ \A t \in Task : spc'[t] = IF spc[t] \in InFlight THEN "failed" ELSE spc[t]
      /\ \A w \in Worker : wpc'[w] = "exit" /\ wtask'[w] = None
  BY <1>1 DEF ProcessEnds
<1>4. \A t \in Task : spc'[t] \notin InFlight
  BY <1>3 DEF InFlight
<1>5. \/ crashes' = crashes + 1 /\ UNCHANGED stops
      \/ UNCHANGED <<crashes, stops>> /\ phase \in {"stop", "final"}
  BY DEF Crash, ShutdownReturns
<1>6. phase # "down"
  BY DEF Crash, ShutdownReturns
<1> QED BY <1>2, <1>3, <1>4, <1>5, <1>6

-----------------------------------------------------------------------------
(* While a process boots, and who gets hold of a task *)

\* Until Start there is neither a request nor a checkpoint.
BootQuiet == Booting => /\ kpc = "exit" /\ kcopy = NoSnapshot
                        /\ \A t \in Task : cpc[t] = "idle"

\* A goroutine of a running process makes a step, one of those the section
\* above describes.
RunStep == \/ \E t \in Task : SubmitRegister(t) \/ SubmitStep(t) \/ CancelCheck(t) \/ CancelStep(t)
           \/ \E w \in Worker : WorkerStep(w)
           \/ SchedStep
           \/ CkptBegin \/ CkptStep \/ CkptExit
           \/ StopSteps

LEMMA Kinds ==
    ASSUME [Next]_vars
    PROVE  UNCHANGED vars \/ RunStep \/ RecoverStep \/ Crash \/ ShutdownReturns
BY DEF Next, RunStep, StopSteps, ShutdownStep

LEMMA RunStepAwake ==
    ASSUME Types, Own, BootQuiet, RunStep
    PROVE  ~Booting /\ ~Booting' /\ UNCHANGED <<rpos, rtodo, crashes>>
<1>1. ASSUME NEW t \in Task, SubmitRegister(t) \/ SubmitStep(t)
      PROVE  ~Booting /\ UNCHANGED <<phase, rpos, rtodo, crashes>>
  BY <1>1, RegisterFacts, SubmitFacts, Awake
<1>2. ASSUME NEW t \in Task, CancelCheck(t) \/ CancelStep(t)
      PROVE  ~Booting /\ UNCHANGED <<phase, rpos, rtodo, crashes>>
  <2>1. UNCHANGED <<phase, rpos, rtodo, crashes>> /\ (Serving \/ cpc[t] # "idle")
    BY <1>2, CancelFacts
  <2> QED BY <2>1 DEF BootQuiet, Serving, Booting
<1>3. ASSUME NEW w \in Worker, WorkerStep(w)
      PROVE  ~Booting /\ UNCHANGED <<phase, rpos, rtodo, crashes>>
  BY <1>3, WorkerFrame, Awake
<1>4. ASSUME SchedStep PROVE ~Booting /\ UNCHANGED <<phase, rpos, rtodo, crashes>>
  BY <1>4, SchedFacts, Awake
<1>5. ASSUME CkptBegin \/ CkptStep \/ CkptExit PROVE ~Booting /\ UNCHANGED <<phase, rpos, rtodo, crashes>>
  <2>1. UNCHANGED <<phase, rpos, rtodo, crashes>>
    BY <1>5, CkptFrame
  <2>2. kpc # "exit"
    BY <1>5, CkptFacts
  <2> QED BY <2>1, <2>2 DEF BootQuiet
<1>6. ASSUME StopSteps PROVE ~Booting /\ ~Booting' /\ UNCHANGED <<rpos, rtodo, crashes>>
  BY <1>6, StopFacts DEF Booting
<1> QED BY <1>1, <1>2, <1>3, <1>4, <1>5, <1>6 DEF RunStep, Booting

LEMMA NextBootQuiet == Types /\ Own /\ BootQuiet /\ [Next]_vars => BootQuiet'
<1> SUFFICES ASSUME Types, Own, BootQuiet, [Next]_vars PROVE BootQuiet'
  OBVIOUS
<1>1. CASE UNCHANGED vars
  BY <1>1 DEF vars, ckpt, clients, process, BootQuiet, Booting
<1>2. CASE RunStep
  BY <1>2, RunStepAwake DEF BootQuiet
<1>3. CASE RecoverStep
  <2>1. UNCHANGED <<kcopy, cpc>> /\ Booting
    BY <1>3, RecoverFrame
  <2>2. UNCHANGED kpc \/ phase' = "up"
    BY <1>3, LoadFacts, ReplayFacts, OpenFacts, RebuildFacts, StartFacts DEF RecoverStep
  <2> QED BY <2>1, <2>2 DEF BootQuiet, Booting
<1>4. CASE Crash \/ ShutdownReturns
  BY <1>4, EndFacts DEF BootQuiet
<1> QED BY <1>1, <1>2, <1>3, <1>4, Kinds

\* A running process gets hold of a task only when it is submitted.
LEMMA RunTakes ==
    ASSUME Types, Types', Own, RunStep, NEW t \in Task, Has(t)'
    PROVE  Has(t) \/ SubmitRegister(t)
<1>0. /\ buffer \in Seq(Task) /\ Range(buffer) \subseteq Task /\ heap \subseteq Task /\ ready \subseteq Task
      /\ cur \in Task \cup {None} /\ None \notin Task
  BY PlaceTypes
<1>1. ASSUME NEW u \in Task, SubmitRegister(u), u # t PROVE Has(t)
  <2>1. UNCHANGED <<buffer, heap, ready, cur, wpc, wtask>> /\ spc'[t] = spc[t]
    BY <1>1, RegisterFacts
  <2> QED BY <2>1 DEF Has, Queued, Holds
<1>2. ASSUME NEW u \in Task, SubmitStep(u) PROVE Has(t)
  <2>1. /\ UNCHANGED <<ready, cur, wpc, wtask>> /\ spc[u] \in InFlight
        /\ \A x \in Task \ {u} : spc'[x] = spc[x]
        /\ heap' \in {heap, heap \cup {u}} /\ buffer' \in {buffer, Append(buffer, u)}
    BY <1>2, SubmitFacts
  <2>2. CASE u = t
    BY <2>1, <2>2 DEF Has
  <2>3. CASE u # t
    <3>1. Range(buffer') \subseteq Range(buffer) \cup {u}
      <4>1. Range(Append(buffer, u)) = Range(buffer) \cup {u}
        BY ZenonT(60), <1>0, AppendFacts
      <4> QED BY <2>1, <4>1
    <3> QED BY <2>1, <2>3, <3>1 DEF Has, Queued, Holds
  <2> QED BY <2>2, <2>3
<1>3. ASSUME NEW u \in Task, CancelCheck(u) \/ CancelStep(u) PROVE Has(t)
  <2>1. UNCHANGED <<spc, buffer, ready, cur, wpc, wtask>> /\ heap' \subseteq heap
    BY <1>3, CancelFacts
  <2> QED BY <2>1 DEF Has, Queued, Holds
<1>4. ASSUME NEW w \in Worker, WorkerStep(w) PROVE Has(t)
  <2>1. UNCHANGED <<spc, ready, cur>> /\ \A v \in Worker \ {w} : wpc'[v] = wpc[v] /\ wtask'[v] = wtask[v]
    BY <1>4, WorkerFrame
  <2>2. CASE WorkerLoop(w) \/ WorkerDequeue(w) \/ WorkerExec(w) \/ WorkerPush(w) \/ WorkerPost(w)
    <3>1. CASE buffer # <<>> /\ buffer' = Tail(buffer) /\ wtask'[w] = Head(buffer) /\ UNCHANGED heap
      <4>1. Range(buffer) = Range(buffer') \cup {Head(buffer)}
        BY <1>0, <3>1, TailFacts
      <4> QED BY <2>1, <3>1, <4>1 DEF Has, Queued, Holds
    <3>2. CASE UNCHANGED <<buffer, wtask>> /\ heap' = heap \cup {wtask[w]} /\ wpc[w] = "push"
      BY <2>1, <3>2 DEF Has, Queued, Holds, Holding
    <3>3. CASE UNCHANGED <<buffer, heap>> /\ (wpc'[w] \in Holding => wpc[w] \in Holding /\ wtask'[w] = wtask[w])
      BY <2>1, <3>3 DEF Has, Queued, Holds
    <3> QED BY <2>2, <3>1, <3>2, <3>3, WorkerIdleFacts DEF Holding
  <2>3. CASE ~(WorkerLoop(w) \/ WorkerDequeue(w) \/ WorkerExec(w) \/ WorkerPush(w) \/ WorkerPost(w))
    <3>1. WorkerMark(w) \/ WorkerStart(w) \/ WorkerLogStart(w) \/ WorkerSettle(w) \/ WorkerLog(w) \/ WorkerForce(w)
      BY <1>4, <2>3 DEF WorkerStep
    <3>2. UNCHANGED <<buffer, heap>> /\ (wpc'[w] \in Holding => wpc[w] \in Holding /\ wtask'[w] = wtask[w])
      BY <3>1, WorkerMarkFacts, WorkerLogStartFacts, WorkerSettleFacts, WorkerLogFacts, WorkerForceFacts DEF Holding
    <3> QED BY <2>1, <3>2 DEF Has, Queued, Holds
  <2> QED BY <2>2, <2>3
<1>5. ASSUME SchedStep PROVE Has(t)
  <2>1. UNCHANGED <<spc, wpc, wtask>>
    BY <1>5, SchedFacts
  <2>2. Queued(t)' => Queued(t)
    <3>1. CASE SchedPromote
      BY <3>1 DEF SchedPromote, Queued
    <3>2. CASE SchedCheck
      BY <3>2, NoneAssumption DEF SchedCheck, queues, Queued
    <3>3. CASE SchedEnqueue
      <4>1. /\ heap' \in {heap, heap \cup {cur}} /\ buffer' \in {buffer, Append(buffer, cur)}
            /\ cur # None /\ cur' = None /\ ready' \in {ready, {}}
        BY <3>3 DEF SchedEnqueue
      <4>2. cur \in Task
        BY <1>0, <4>1
      <4>3. Range(Append(buffer, cur)) = Range(buffer) \cup {cur}
        BY SMTT(30), <1>0, <4>2, AppendFacts
      <4>4. Range(buffer)' \subseteq Range(buffer) \cup {cur}
        <5>1. CASE buffer' = buffer
          BY <5>1
        <5>2. CASE buffer' = Append(buffer, cur)
          BY <4>3, <5>2
        <5> QED BY <4>1, <5>1, <5>2
      <4>5. t # None /\ heap' \subseteq heap \cup {cur} /\ ready' \subseteq ready
        BY <1>0, <4>1
      <4> QED BY <4>1, <4>4, <4>5 DEF Queued
    <3>4. CASE SchedExit
      BY <3>4 DEF SchedExit, queues, Queued
    <3> QED BY <1>5, <3>1, <3>2, <3>3, <3>4 DEF SchedStep
  <2> QED BY <2>1, <2>2 DEF Has, Holds
<1>6. ASSUME CkptBegin \/ CkptStep \/ CkptExit \/ StopSteps PROVE Has(t)
  <2>1. UNCHANGED <<spc, buffer, heap, ready, cur, wpc, wtask>>
    BY <1>6, CkptFrame, StopFacts
  <2> QED BY <2>1 DEF Has, Queued, Holds
<1> QED BY <1>1, <1>2, <1>3, <1>4, <1>5, <1>6 DEF RunStep

\* Recovery gets hold of the tasks that it finds unfinished.
LEMMA RecoverTakes ==
    ASSUME Types, Own, RecoverStep, NEW t \in Task, Has(t)'
    PROVE  Has(t) \/ (RebuildTask(t) /\ state[t] \in {"Pending", "Running", "Scheduled"})
<1>1. UNCHANGED <<spc, ready, cur, wtask>>
  BY RecoverFrame
<1>2. \A w \in Worker : ~Holds(w, t)'
  <2>1. \A w \in Worker : wpc[w] = "exit"
    BY RecoverFrame DEF Own, BootAlone
  <2>2. \A w \in Worker : wpc'[w] \in {"exit", "loop"}
    BY <2>1, LoadFacts, ReplayFacts, OpenFacts, RebuildFacts, StartFacts DEF RecoverStep
  <2> QED BY <2>2 DEF Holds, Holding
<1>3. CASE UNCHANGED <<buffer, heap>>
  BY <1>1, <1>2, <1>3 DEF Has, Queued
<1>4. ASSUME NEW u \in Task, RebuildTask(u), ~UNCHANGED <<buffer, heap>>
      PROVE  Has(t) \/ (u = t /\ state[t] \in {"Pending", "Running", "Scheduled"})
  <2>1. /\ heap' \in {heap, heap \cup {u}} /\ buffer' \in {buffer, Append(buffer, u)}
        /\ state[u] \in {"Pending", "Running", "Scheduled"}
    BY <1>4, RebuildFacts
  <2>2. Range(buffer') \subseteq Range(buffer) \cup {u}
    <3>1. Range(Append(buffer, u)) = Range(buffer) \cup {u}
      BY AppendFacts, PlaceTypes
    <3> QED BY <2>1, <3>1
  <2> QED BY <1>1, <1>2, <2>1, <2>2 DEF Has, Queued
<1> QED BY <1>3, <1>4, LoadFacts, ReplayFacts, OpenFacts, StartFacts DEF RecoverStep

LEMMA EndTakes ==
    ASSUME Types, Crash \/ ShutdownReturns, NEW t \in Task
    PROVE  ~Has(t)'
<1>1. spc'[t] \notin InFlight /\ buffer' = <<>> /\ heap' = {} /\ ready' = {} /\ cur' = None
      /\ \A w \in Worker : wpc'[w] = "exit"
  BY EndFacts
<1>2. Range(buffer') = {}
  BY SMTT(30), <1>1 DEF Range
<1> QED BY <1>1, <1>2, NoneAssumption DEF Has, Queued, Holds, Holding

-----------------------------------------------------------------------------
(* Who may change a variable of a running process *)

LEMMA SpcMoves ==
    ASSUME Types, RunStep, NEW t \in Task, spc'[t] # spc[t]
    PROVE  SubmitRegister(t) \/ SubmitStep(t)
<1>1. ASSUME NEW u \in Task, SubmitRegister(u) \/ SubmitStep(u) PROVE u = t
  BY <1>1, RegisterFacts, SubmitFacts
<1>2. ASSUME NEW u \in Task, CancelCheck(u) \/ CancelStep(u) PROVE FALSE
  BY <1>2, CancelFacts
<1>3. ASSUME NEW w \in Worker, WorkerStep(w) PROVE FALSE
  BY <1>3, WorkerFrame
<1>4. ASSUME SchedStep \/ CkptBegin \/ CkptStep \/ CkptExit \/ StopSteps PROVE FALSE
  BY <1>4, SchedFacts, CkptFrame, StopFacts
<1> QED BY <1>1, <1>2, <1>3, <1>4 DEF RunStep

LEMMA WtaskMoves ==
    ASSUME Types, RunStep, NEW w \in Worker, wtask'[w] # wtask[w]
    PROVE  wtask'[w] = None \/ wtask'[w] \in Range(buffer)
<1>1. ASSUME NEW u \in Task, SubmitRegister(u) \/ SubmitStep(u) \/ CancelCheck(u) \/ CancelStep(u) PROVE FALSE
  BY <1>1, RegisterFacts, SubmitFacts, CancelFacts
<1>2. ASSUME SchedStep \/ CkptBegin \/ CkptStep \/ CkptExit \/ StopSteps PROVE FALSE
  BY <1>2, SchedFacts, CkptFrame, StopFacts
<1>3. ASSUME NEW v \in Worker, WorkerStep(v) PROVE wtask'[w] = None \/ wtask'[w] \in Range(buffer)
  <2>1. v = w
    BY <1>3, WorkerFrame
  <2>2. CASE WorkerLoop(v) \/ WorkerDequeue(v) \/ WorkerExec(v) \/ WorkerPush(v) \/ WorkerPost(v)
    <3>1. CASE buffer # <<>> /\ wtask'[v] = Head(buffer)
      <4>1. buffer \in Seq(Task)
        BY PlaceTypes
      <4> QED BY <2>1, <3>1, <4>1, TailFacts
    <3> QED BY <2>1, <2>2, <3>1, WorkerIdleFacts
  <2>3. CASE WorkerMark(v) \/ WorkerStart(v) \/ WorkerLogStart(v) \/ WorkerSettle(v) \/ WorkerLog(v)
    BY <2>3, WorkerMarkFacts, WorkerLogStartFacts, WorkerSettleFacts, WorkerLogFacts
  <2>4. CASE WorkerForce(v)
    BY <2>1, <2>4, WorkerForceFacts
  <2> QED BY <1>3, <2>2, <2>3, <2>4 DEF WorkerStep
<1> QED BY <1>1, <1>2, <1>3 DEF RunStep

LEMMA StateMoves ==
    ASSUME Types, RunStep, NEW t \in Task, state'[t] # state[t]
    PROVE  \/ SubmitRegister(t) /\ spc'[t] = "marshal" /\ state'[t] \in {"Pending", "Scheduled"}
           \/ spc[t] = "rollback" /\ spc'[t] = "failed" /\ state'[t] = "absent"
           \/ cpc[t] = "set" /\ state'[t] = "Cancelled"
           \/ \E w \in Worker : /\ WorkerStep(w) /\ Holds(w, t) /\ wpc[w] # "log"
                                /\ state'[t] \in {"Running", "Completed", "Dead", "Scheduled"}
           \/ \E w \in Worker : wtask[w] = t /\ wpc[w] = "force" /\ state'[t] \in {"Completed", "Failed"}
           \/ Queued(t) /\ SchedStep /\ state'[t] \in {"Pending", "Scheduled", "Expired"}
<1>1. ASSUME NEW u \in Task, SubmitRegister(u)
      PROVE  SubmitRegister(t) /\ spc'[t] = "marshal" /\ state'[t] \in {"Pending", "Scheduled"}
  <2>1. u = t
    BY <1>1, RegisterFacts
  <2> QED BY <1>1, <2>1, RegisterFacts
<1>2. ASSUME NEW u \in Task, SubmitStep(u)
      PROVE  spc[t] = "rollback" /\ spc'[t] = "failed" /\ state'[t] = "absent"
  <2>1. u = t
    BY <1>2, SubmitFacts
  <2> QED BY <1>2, <2>1, SubmitFacts
<1>3. ASSUME NEW u \in Task, CancelCheck(u) \/ CancelStep(u) PROVE cpc[t] = "set" /\ state'[t] = "Cancelled"
  <2>1. u = t
    BY <1>3, CancelFacts
  <2> QED BY <1>3, <2>1, CancelFacts
<1>4. ASSUME NEW w \in Worker, WorkerStep(w)
      PROVE  \/ Holds(w, t) /\ wpc[w] # "log" /\ state'[t] \in {"Running", "Completed", "Dead", "Scheduled"}
             \/ wtask[w] = t /\ wpc[w] = "force" /\ state'[t] \in {"Completed", "Failed"}
  <2>1. wtask[w] = t
    BY <1>4, WorkerFrame
  <2>2. ~(WorkerLoop(w) \/ WorkerDequeue(w) \/ WorkerExec(w) \/ WorkerPush(w) \/ WorkerPost(w))
    BY WorkerIdleFacts
  <2>3. ~WorkerLogStart(w) /\ ~WorkerLog(w)
    BY WorkerLogStartFacts, WorkerLogFacts
  <2>4. CASE WorkerMark(w) \/ WorkerStart(w)
    BY <2>1, <2>4, WorkerMarkFacts DEF Holds, Holding
  <2>5. CASE WorkerSettle(w)
    BY <2>1, <2>5, WorkerSettleFacts DEF Holds, Holding
  <2>6. CASE WorkerForce(w)
    BY <2>1, <2>6, WorkerForceFacts
  <2> QED BY <1>4, <2>2, <2>3, <2>4, <2>5, <2>6 DEF WorkerStep
<1>5. ASSUME SchedStep PROVE Queued(t) /\ state'[t] \in {"Pending", "Scheduled", "Expired"}
  BY <1>5, SchedFacts
<1>6. ASSUME CkptBegin \/ CkptStep \/ CkptExit \/ StopSteps PROVE FALSE
  BY <1>6, CkptFrame, StopFacts
<1> QED BY <1>1, <1>2, <1>3, <1>4, <1>5, <1>6 DEF RunStep

\* The log is written by Submit, CancelTask and the workers, and rotated.
LEMMA WalMoves ==
    ASSUME Types, RunStep
    PROVE  \/ UNCHANGED <<wal, walSeq>>
           \/ /\ kpc = "rename" /\ kpc' = "open" /\ wal' = <<>> /\ walOld' = wal
              /\ UNCHANGED <<walSeq, snap, state, spc, phase>> /\ (CkptBegin \/ CkptStep \/ CkptExit)
           \/ \E t \in Task : /\ SubmitStep(t) /\ spc[t] = "append" /\ spc'[t] = "route"
                              /\ Wrote("enqueue", t, sdata[t], 0)
           \/ \E t \in Task : CancelStep(t) /\ cpc[t] = "log" /\ Wrote("cancel", t, "none", 0)
           \/ \E w \in Worker : /\ WorkerLogStart(w) /\ wtask[w] \in Task /\ wpc[w] = "logstart"
                                /\ Wrote("start", wtask[w], "none", 0)
           \/ \E w \in Worker : /\ WorkerLog(w) /\ wtask[w] \in Task /\ wpc[w] = "log" /\ wres[w] \in {"complete", "retry", "dead"}
                                /\ Wrote(wres[w], wtask[w], "none", IF wres[w] = "retry" THEN retries[wtask[w]] ELSE 0)
<1>1. ASSUME NEW t \in Task, SubmitRegister(t) PROVE UNCHANGED <<wal, walSeq>>
  BY <1>1, RegisterFacts
<1>2. ASSUME NEW t \in Task, SubmitStep(t)
      PROVE  \/ UNCHANGED <<wal, walSeq>>
             \/ spc[t] = "append" /\ spc'[t] = "route" /\ Wrote("enqueue", t, sdata[t], 0)
  BY <1>2, SubmitFacts
<1>3. ASSUME NEW t \in Task, CancelStep(t) PROVE UNCHANGED <<wal, walSeq>> \/ (cpc[t] = "log" /\ Wrote("cancel", t, "none", 0))
  BY <1>3, CancelFacts
<1>7. ASSUME NEW t \in Task, CancelCheck(t) PROVE UNCHANGED <<wal, walSeq>>
  BY <1>7 DEF CancelCheck, disk, log
<1>4. ASSUME NEW w \in Worker, WorkerStep(w)
      PROVE  \/ UNCHANGED <<wal, walSeq>>
             \/ WorkerLogStart(w) /\ wtask[w] \in Task /\ wpc[w] = "logstart" /\ Wrote("start", wtask[w], "none", 0)
             \/ /\ WorkerLog(w) /\ wtask[w] \in Task /\ wpc[w] = "log" /\ wres[w] \in {"complete", "retry", "dead"}
                /\ Wrote(wres[w], wtask[w], "none", IF wres[w] = "retry" THEN retries[wtask[w]] ELSE 0)
  BY <1>4, WorkerIdleFacts, WorkerMarkFacts, WorkerLogStartFacts, WorkerSettleFacts, WorkerLogFacts,
     WorkerForceFacts DEF WorkerStep
<1>5. ASSUME SchedStep \/ StopSteps PROVE UNCHANGED <<wal, walSeq>>
  BY <1>5, SchedFacts, StopFacts
<1>6. ASSUME CkptBegin \/ CkptStep \/ CkptExit
      PROVE  \/ UNCHANGED <<wal, walSeq>>
             \/ /\ kpc = "rename" /\ kpc' = "open" /\ wal' = <<>> /\ walOld' = wal
                /\ UNCHANGED <<walSeq, snap, state, spc, phase>>
  BY <1>6, CkptFrame, CkptFacts
<1> QED BY <1>1, <1>2, <1>3, <1>4, <1>5, <1>6, <1>7 DEF RunStep

-----------------------------------------------------------------------------
(* Submissions *)

\* the states of a task that no worker has taken yet
Waiting == {"Pending", "Scheduled", "Cancelled"}

\* a Submit that has logged its task
Placed == {"route", "push", "enq", "acked", "failed"}

\* Until it is placed a task changes state only by being cancelled, and workers
\* have no part in it.
Waits ==
    /\ \A t \in Task : spc[t] \in InFlight => state[t] \in Waiting
    /\ \A t \in Task : spc[t] = "append" => sdata[t] \in Waiting
    /\ \A w \in Worker : wtask[w] # None => spc[wtask[w]] \notin InFlight

LEMMA RunWaits == ASSUME Types, Types', Own, Waits, RunStep PROVE Waits'
<1>0. /\ \A t \in Task : spc[t] \in InFlight \/ t \in New => ~Queued(t)
      /\ \A w \in Worker : wtask[w] \notin New
      /\ wtask \in [Worker -> Task \cup {None}] /\ None \notin Task
  BY NoneAssumption DEF Own, Exclusive, UnknownInMemory, Types, WorkerTypes
<1>1. ASSUME NEW t \in Task, spc'[t] \in InFlight PROVE state'[t] \in Waiting
  <2>1. CASE state'[t] # state[t]
    <3>1. ASSUME NEW w \in Worker, wtask[w] = t PROVE spc[t] \notin InFlight /\ spc[t] # "new"
      BY <1>0, <3>1 DEF Waits, New
    <3>2. CASE spc'[t] = spc[t]
      BY <1>0, <1>1, <2>1, <3>1, <3>2, StateMoves DEF Waiting, InFlight, Holds
    <3>3. CASE spc'[t] # spc[t]
      <4>1. spc[t] = "new" \/ spc[t] \in InFlight
        BY <3>3, SpcMoves, RegisterFacts, SubmitFacts
      <4>2. ~Queued(t)
        BY <1>0, <4>1 DEF New
      <4> QED BY <1>1, <2>1, <3>1, <4>1, <4>2, StateMoves DEF Waiting, InFlight, Holds
    <3> QED BY <3>2, <3>3
  <2>2. CASE state'[t] = state[t]
    <3>1. CASE spc[t] \in InFlight
      BY <2>2, <3>1 DEF Waits
    <3>2. CASE spc[t] \notin InFlight
      <4>1. SubmitRegister(t)
        BY <1>1, <3>2, SpcMoves, SubmitFacts
      <4> QED BY <1>1, <4>1, RegisterFacts DEF InFlight, Waiting
    <3> QED BY <3>1, <3>2
  <2> QED BY <2>1, <2>2
<1>2. ASSUME NEW t \in Task, spc'[t] = "append" PROVE sdata'[t] \in Waiting
  <2>1. CASE spc[t] = "append"
    <3>1. ASSUME NEW u \in Task, SubmitStep(u) PROVE sdata'[t] = sdata[t]
      BY <1>2, <2>1, <3>1, SubmitFacts
    <3>2. ASSUME NEW u \in Task, SubmitRegister(u) \/ CancelCheck(u) \/ CancelStep(u) PROVE sdata' = sdata
      BY <3>2, RegisterFacts, CancelFacts
    <3>3. ASSUME NEW w \in Worker, WorkerStep(w) PROVE sdata' = sdata
      BY <3>3, WorkerFrame
    <3>4. ASSUME SchedStep \/ CkptBegin \/ CkptStep \/ CkptExit \/ StopSteps PROVE sdata' = sdata
      BY <3>4, SchedFacts, CkptFrame, StopFacts
    <3>5. sdata'[t] = sdata[t]
      BY <3>1, <3>2, <3>3, <3>4 DEF RunStep
    <3> QED BY <2>1, <3>5 DEF Waits
  <2>2. CASE spc[t] # "append"
    <3>1. SubmitStep(t)
      BY <1>2, <2>2, SpcMoves, RegisterFacts
    <3>2. spc[t] = "marshal" /\ sdata'[t] = state[t]
      BY <1>2, <2>2, <3>1, SubmitFacts
    <3> QED BY <3>2 DEF Waits, InFlight
  <2> QED BY <2>1, <2>2
<1>3. ASSUME NEW w \in Worker, wtask'[w] # None PROVE spc'[wtask'[w]] \notin InFlight
  <2>1. wtask'[w] \in Task
    BY <1>3 DEF Types, WorkerTypes
  <2>2. spc[wtask'[w]] \notin InFlight /\ wtask'[w] \notin New
    <3>1. CASE wtask'[w] = wtask[w]
      BY <1>0, <1>3, <3>1 DEF Waits
    <3>2. CASE wtask'[w] # wtask[w]
      <4>1. Queued(wtask'[w])
        BY <1>3, <3>2, WtaskMoves DEF Queued
      <4> QED BY <1>0, <2>1, <4>1 DEF Own, UnknownInMemory
    <3> QED BY <3>1, <3>2
  <2>3. spc'[wtask'[w]] = spc[wtask'[w]]
    BY <2>1, <2>2, SpcMoves, RegisterFacts, SubmitFacts
  <2> QED BY <2>2, <2>3
<1> QED BY <1>1, <1>2, <1>3 DEF Waits

LEMMA NextWaits == Types /\ Types' /\ Own /\ Waits /\ [Next]_vars => Waits'
<1> SUFFICES ASSUME Types, Types', Own, Waits, [Next]_vars PROVE Waits'
  OBVIOUS
<1>1. CASE UNCHANGED vars
  BY <1>1 DEF vars, registry, clients, workers, Waits
<1>2. CASE RecoverStep
  <2>1. \A t \in Task : spc[t] \notin InFlight
    BY <1>2, RecoverFrame DEF Own, BootAlone
  <2>2. UNCHANGED <<spc, sdata, wtask>>
    BY <1>2, RecoverFrame
  <2> QED BY <2>1, <2>2 DEF Waits, InFlight
<1>3. CASE Crash \/ ShutdownReturns
  <2>1. \A t \in Task : spc'[t] \notin InFlight
    BY <1>3, EndFacts
  <2>2. \A w \in Worker : wtask'[w] = None
    BY <1>3, EndFacts
  <2> QED BY <2>1, <2>2 DEF Waits, InFlight
<1> QED BY <1>1, <1>2, <1>3, RunWaits, Kinds

\* What the records say of a task's submission: only a CancelTask can get ahead
\* of the Enqueue record.
LogShape ==
    /\ \A i \in DOMAIN wal : wal[i].seq > 0
    /\ \A i \in DOMAIN wal : wal[i].type = "enqueue" => wal[i].st \in Waiting
    /\ \A i \in DOMAIN wal : wal[i].type # "cancel" => spc[wal[i].task] \in Placed
    /\ \A i, j \in DOMAIN wal :
         i < j /\ wal[j].type = "enqueue" /\ wal[i].task = wal[j].task => wal[i].type = "cancel"

LEMMA RecordTypes ==
    ASSUME Types, NEW i \in DOMAIN wal
    PROVE  wal[i].task \in Task /\ wal[i].type \in RecordType /\ wal[i].seq \in Nat /\ wal[i].rc \in Nat /\ i \in Nat
<1>1. wal \in Seq(Record)
  BY DEF Types, DiskTypes
<1>2. wal[i] \in Record /\ i \in Nat
  BY SMTT(30), <1>1
<1> QED BY <1>2 DEF Record

LEMMA LaterRecordTypes ==
    ASSUME Types', NEW i \in DOMAIN wal'
    PROVE  wal'[i].task \in Task /\ wal'[i].type \in RecordType /\ wal'[i].seq \in Nat /\ wal'[i].rc \in Nat /\ i \in Nat
<1>1. wal' \in Seq(Record)
  BY DEF Types, DiskTypes
<1>2. wal'[i] \in Record /\ i \in Nat
  BY SMTT(30), <1>1
<1> QED BY <1>2 DEF Record

LEMMA PlacedStays ==
    ASSUME Types, [Next]_vars, NEW t \in Task, spc[t] \in Placed
    PROVE  spc'[t] \in Placed
<1>1. CASE RunStep
  <2>1. CASE spc'[t] = spc[t]
    BY <2>1
  <2>2. CASE spc'[t] # spc[t]
    <3>1. SubmitStep(t)
      BY <1>1, <2>2, SpcMoves, RegisterFacts DEF Placed
    <3> QED BY <3>1, SubmitFacts DEF Placed
  <2> QED BY <2>1, <2>2
<1>2. CASE Crash \/ ShutdownReturns
  BY <1>2, EndFacts DEF Placed
<1>3. CASE RecoverStep \/ UNCHANGED vars
  BY <1>3, RecoverFrame DEF vars, clients
<1> QED BY <1>1, <1>2, <1>3, Kinds

\* A record about a task that was placed before keeps the shape.
LEMMA ShapeGrows ==
    ASSUME Types, LogShape, NEW type, NEW t \in Task, NEW st, NEW rc, Wrote(type, t, st, rc),
           \A u \in Task : spc[u] \in Placed => spc'[u] \in Placed,
           type = "enqueue" => st \in Waiting /\ spc[t] \notin Placed,
           type # "cancel" => spc'[t] \in Placed
    PROVE  LogShape'
<1> DEFINE n == Len(wal) + 1
<1>1. /\ DOMAIN wal' = DOMAIN wal \cup {n} /\ n \in Nat
      /\ \A i \in DOMAIN wal : i \in Nat /\ i < n /\ wal'[i] = wal[i]
      /\ wal'[n].seq = walSeq + 1 /\ wal'[n].type = type /\ wal'[n].task = t /\ wal'[n].st = st
      /\ walSeq \in Nat
  BY SMTT(30) DEF Wrote, Types, DiskTypes
<1> HIDE DEF n
<1>2. \A i \in DOMAIN wal : wal[i].task \in Task
  BY RecordTypes
<1>3. \A i \in DOMAIN wal' : wal'[i].seq > 0
  BY SMTT(30), <1>1 DEF LogShape
<1>4. \A i \in DOMAIN wal' : wal'[i].type = "enqueue" => wal'[i].st \in Waiting
  BY <1>1 DEF LogShape
<1>5. \A i \in DOMAIN wal' : wal'[i].type # "cancel" => spc'[wal'[i].task] \in Placed
  BY <1>1, <1>2 DEF LogShape
<1>6. ASSUME NEW i \in DOMAIN wal', NEW j \in DOMAIN wal', i < j, wal'[j].type = "enqueue", wal'[i].task = wal'[j].task
      PROVE  wal'[i].type = "cancel"
  <2>1. i \in DOMAIN wal /\ wal'[i] = wal[i]
    BY SMTT(30), <1>1, <1>6
  <2>2. CASE j \in DOMAIN wal
    BY <1>1, <1>6, <2>1, <2>2 DEF LogShape
  <2>3. CASE j = n
    BY <1>1, <1>6, <2>1, <2>3 DEF LogShape
  <2> QED BY <1>1, <2>2, <2>3
<1> QED BY <1>3, <1>4, <1>5, <1>6 DEF LogShape

LEMMA NextLogShape == Types /\ Types' /\ Own /\ Waits /\ LogShape /\ [Next]_vars => LogShape'
<1> SUFFICES ASSUME Types, Types', Own, Waits, LogShape, [Next]_vars PROVE LogShape'
  OBVIOUS
<1>1. \A u \in Task : spc[u] \in Placed => spc'[u] \in Placed
  BY PlacedStays
<1>2. CASE UNCHANGED wal
  <2>1. \A i \in DOMAIN wal : wal[i].task \in Task
    BY RecordTypes
  <2> QED BY <1>1, <1>2, <2>1 DEF LogShape
<1>3. ASSUME NEW w \in Worker, wtask[w] \in Task PROVE spc[wtask[w]] \in Placed
  <2>1. spc[wtask[w]] \notin InFlight /\ wtask[w] \notin New
    BY <1>3, NoneAssumption DEF Waits, Own, UnknownInMemory
  <2> QED BY <1>3, <2>1 DEF New, Placed, Types, ClientTypes
<1>4. CASE RunStep /\ wal' # wal
  <2>1. CASE wal' = <<>>
    BY SMTT(30), <2>1 DEF LogShape
  <2>2. ASSUME NEW t \in Task, spc[t] = "append", spc'[t] = "route", Wrote("enqueue", t, sdata[t], 0)
        PROVE  LogShape'
    <3>1. sdata[t] \in Waiting /\ spc[t] \notin Placed /\ spc'[t] \in Placed
      BY <2>2 DEF Waits, Placed
    <3> QED BY <1>1, <2>2, <3>1, ShapeGrows
  <2>3. ASSUME NEW t \in Task, Wrote("cancel", t, "none", 0) PROVE LogShape'
    BY <1>1, <2>3, ShapeGrows
  <2>4. ASSUME NEW w \in Worker, wtask[w] \in Task, NEW type \in {"start", "complete", "retry", "dead"}, NEW rc,
               Wrote(type, wtask[w], "none", rc)
        PROVE  LogShape'
    <3>1. spc'[wtask[w]] \in Placed /\ type # "enqueue"
      BY <1>1, <1>3, <2>4
    <3> QED BY <1>1, <2>4, <3>1, ShapeGrows
  <2> QED BY <1>4, <2>1, <2>2, <2>3, <2>4, WalMoves
<1>5. CASE RecoverStep \/ Crash \/ ShutdownReturns \/ UNCHANGED vars
  BY <1>2, <1>5, RecoverFrame, EndFacts DEF vars, disk
<1> QED BY <1>2, <1>4, <1>5, Kinds

-----------------------------------------------------------------------------
(* The snapshot *)

\* a submission that was answered with 201, or may still be
Live(t) == spc[t] \in InFlight \cup {"acked"}

\* What snapshot.json holds of such a task is in the registry, and on its way to
\* the next snapshot.
Snapshots ==
    \A t \in Task : Live(t) =>
        /\ snap.st[t] # "absent" /\ phase # "down" => state[t] # "absent"
        /\ kcopy.st[t] # "absent" => state[t] # "absent"
        /\ snap.st[t] # "absent" /\ kpc = "copy" => t \in ktodo \/ kcopy.st[t] # "absent"
        /\ snap.st[t] # "absent" /\ kpc = "write" => kcopy.st[t] # "absent"

LEMMA LiveMoves ==
    ASSUME Types, [Next]_vars, NEW t \in Task, Live(t)'
    PROVE  Live(t) \/ (RunStep /\ SubmitRegister(t) /\ state'[t] # "absent")
<1>1. CASE RunStep
  <2>1. CASE spc'[t] = spc[t]
    BY <2>1 DEF Live
  <2>2. CASE SubmitRegister(t)
    BY <1>1, <2>2, RegisterFacts DEF Live, InFlight
  <2>3. CASE SubmitStep(t)
    BY <2>3, SubmitFacts DEF Live
  <2> QED BY <1>1, <2>1, <2>2, <2>3, SpcMoves
<1>2. CASE Crash \/ ShutdownReturns
  BY <1>2, EndFacts DEF Live
<1>3. CASE RecoverStep \/ UNCHANGED vars
  BY <1>3, RecoverFrame DEF vars, clients, Live
<1> QED BY <1>1, <1>2, <1>3, Kinds

\* Recovery never takes a task out of the registry.
LEMMA RecoverKeeps ==
    ASSUME Types, LogShape, RecoverStep, phase # "down", NEW t \in Task, state[t] # "absent"
    PROVE  state'[t] # "absent"
<1>1. CASE ReplayEntry
  <2>1. rpos \in DOMAIN wal /\ ApplyEntry(wal[rpos])
    BY <1>1, ReplayFacts
  <2>2. wal[rpos].type \in RecordType /\ (wal[rpos].type = "enqueue" => wal[rpos].st \in Waiting)
    BY <2>1, RecordTypes DEF LogShape
  <2>3. StateAfter(wal[rpos]) # "absent"
    BY <2>2 DEF StateAfter, RecordType, Waiting
  <2>4. state' = state \/ state' = [state EXCEPT ![wal[rpos].task] = StateAfter(wal[rpos])]
    BY <2>1 DEF ApplyEntry, registry
  <2> QED BY <2>3, <2>4 DEF Types, RegistryTypes
<1>2. ASSUME NEW u \in Task, RebuildTask(u) PROVE state'[t] # "absent"
  BY <1>2, RebuildFacts
<1> QED BY <1>1, <1>2, LoadFacts, OpenFacts, StartFacts DEF RecoverStep

LEMMA RunSnapshots == ASSUME Types, Own, BootQuiet, Snapshots, RunStep, [Next]_vars PROVE Snapshots'
<1> USE DEF Snapshots
<1>0. phase # "down" /\ phase' # "down"
  BY RunStepAwake DEF Booting
<1>1. ASSUME NEW t \in Task, SubmitRegister(t), UNCHANGED <<snap, kcopy, ktodo, kpc>>, NEW u \in Task, Live(u)'
      PROVE  /\ snap'.st[u] # "absent" /\ phase' # "down" => state'[u] # "absent"
             /\ kcopy'.st[u] # "absent" => state'[u] # "absent"
             /\ snap'.st[u] # "absent" /\ kpc' = "copy" => u \in ktodo' \/ kcopy'.st[u] # "absent"
             /\ snap'.st[u] # "absent" /\ kpc' = "write" => kcopy'.st[u] # "absent"
  <2>1. CASE u = t
    <3>1. t \in New
      BY <1>1, RegisterFacts
    <3>2. snap.st[t] = "absent" /\ kcopy.st[t] = "absent"
      BY <3>1 DEF Own, UnknownOnDisk
    <3> QED BY <1>1, <2>1, <3>2
  <2>2. CASE u # t
    <3>1. state'[u] = state[u] /\ spc'[u] = spc[u]
      BY <1>1, <2>2, RegisterFacts
    <3>2. Live(u)
      BY <1>1, <3>1 DEF Live
    <3> QED BY <1>0, <1>1, <3>1, <3>2
  <2> QED BY <2>1, <2>2
<1>2. ASSUME NEW t \in Task, SubmitRegister(t) PROVE Snapshots'
  <2>1. UNCHANGED <<snap, kcopy, ktodo, kpc>>
    BY <1>2, RegisterFacts
  <2> QED BY <1>1, <1>2, <2>1
<1>3. ASSUME \A t \in Task : ~SubmitRegister(t) PROVE \A t \in Task : Live(t)' => Live(t) /\ (state[t] # "absent" => state'[t] # "absent")
  <2> SUFFICES ASSUME NEW t \in Task, Live(t)' PROVE Live(t) /\ (state[t] # "absent" => state'[t] # "absent")
    OBVIOUS
  <2>1. Live(t)
    BY <1>3, LiveMoves
  <2>2. ~(spc'[t] = "failed")
    BY DEF Live, InFlight
  <2> QED BY <1>3, <2>1, <2>2, StateMoves
<1>4. ASSUME \A t \in Task : ~SubmitRegister(t), UNCHANGED <<snap, kcopy, ktodo>>, kpc' = kpc \/ kpc' \notin {"copy", "write"}
      PROVE  Snapshots'
  BY <1>0, <1>3, <1>4
<1>5. ASSUME CkptBegin \/ CkptStep \/ CkptExit, \A t \in Task : ~SubmitRegister(t) PROVE Snapshots'
  <2>1. UNCHANGED <<state, spc>>
    BY <1>5, CkptFrame
  <2>2. \A t \in Task : Live(t)' <=> Live(t)
    BY <2>1 DEF Live
  <2>3. \A t \in Task : NoSnapshot.st[t] = "absent"
    BY DEF NoSnapshot
  <2>4. CASE kpc = "idle" /\ kpc' = "copy" /\ ktodo' = Registered /\ (\A t \in Task : kcopy'.st[t] = "absent") /\ UNCHANGED snap
    BY <1>0, <2>1, <2>2, <2>4 DEF Registered
  <2>5. ASSUME kpc = "copy", kpc' = "copy", UNCHANGED snap, NEW t \in ktodo, ktodo' = ktodo \ {t},
               \A u \in Task : kcopy'.st[u] = IF u = t THEN state[t] ELSE kcopy.st[u]
        PROVE  Snapshots'
    BY <1>0, <2>1, <2>2, <2>5
  <2>6. CASE kpc = "copy" /\ kpc' = "write" /\ ktodo = {} /\ UNCHANGED <<snap, kcopy, ktodo>>
    BY <1>0, <2>1, <2>2, <2>6
  <2>7. CASE kpc' \notin {"copy", "write"} /\ snap' \in {snap, kcopy} /\ kcopy' \in {kcopy, NoSnapshot}
    <3> SUFFICES ASSUME NEW t \in Task, Live(t)
                 PROVE  /\ snap'.st[t] # "absent" => state'[t] # "absent"
                        /\ kcopy'.st[t] # "absent" => state'[t] # "absent"
      BY <2>2, <2>7
    <3> QED BY <1>0, <2>1, <2>3, <2>7
  <2>8. \/ kpc = "idle" /\ kpc' = "copy" /\ ktodo' = Registered /\ (\A t \in Task : kcopy'.st[t] = "absent") /\ UNCHANGED snap
        \/ /\ kpc = "copy" /\ kpc' = "copy" /\ UNCHANGED snap
           /\ \E t \in ktodo : ktodo' = ktodo \ {t} /\ \A u \in Task : kcopy'.st[u] = IF u = t THEN state[t] ELSE kcopy.st[u]
        \/ kpc = "copy" /\ kpc' = "write" /\ ktodo = {} /\ UNCHANGED <<snap, kcopy, ktodo>>
        \/ kpc' \notin {"copy", "write"} /\ snap' \in {snap, kcopy} /\ kcopy' \in {kcopy, NoSnapshot}
    BY <1>5, CkptFacts
  <2> QED BY <2>4, <2>5, <2>6, <2>7, <2>8
<1>6. ASSUME NEW t \in Task, SubmitStep(t) \/ CancelCheck(t) \/ CancelStep(t) PROVE UNCHANGED <<snap, kcopy, ktodo, kpc>>
  BY <1>6, SubmitFacts, CancelFacts
<1>7. ASSUME NEW w \in Worker, WorkerStep(w) PROVE UNCHANGED <<snap, kcopy, ktodo, kpc>>
  BY <1>7, WorkerFrame
<1>8. ASSUME SchedStep PROVE UNCHANGED <<snap, kcopy, ktodo, kpc>>
  BY <1>8, SchedFacts
<1>9. ASSUME StopSteps PROVE UNCHANGED <<snap, kcopy, ktodo>> /\ (kpc' = kpc \/ kpc' \notin {"copy", "write"})
  BY <1>9, StopFacts
<1> QED BY <1>2, <1>4, <1>5, <1>6, <1>7, <1>8, <1>9 DEF RunStep

LEMMA NextSnapshots ==
    Types /\ Types' /\ Own /\ BootQuiet /\ BootQuiet' /\ LogShape /\ Snapshots /\ [Next]_vars => Snapshots'
<1> SUFFICES ASSUME Types, Types', Own, BootQuiet, BootQuiet', LogShape, Snapshots, [Next]_vars PROVE Snapshots'
  OBVIOUS
<1>0. \A t \in Task : NoSnapshot.st[t] = "absent"
  BY DEF NoSnapshot
<1>1. CASE UNCHANGED vars
  <2>1. UNCHANGED <<spc, snap, phase, state, kcopy, kpc, ktodo>>
    BY <1>1 DEF vars, disk, registry, clients, ckpt, process
  <2>2. \A t \in Task : Live(t)' <=> Live(t)
    BY <2>1 DEF Live
  <2> QED BY <2>1, <2>2 DEF Snapshots
<1>2. CASE RecoverStep
  <2>1. UNCHANGED <<spc, snap, kcopy>> /\ kcopy = NoSnapshot /\ kpc = "exit" /\ kpc' \notin {"copy", "write"}
    <3>1. UNCHANGED <<spc, snap, kcopy>> /\ Booting
      BY <1>2, RecoverFrame
    <3>2. kcopy = NoSnapshot /\ kpc = "exit"
      BY <3>1 DEF BootQuiet
    <3>3. UNCHANGED kpc \/ kpc' = IF Checkpointing THEN "idle" ELSE "exit"
      BY <1>2, LoadFacts, ReplayFacts, OpenFacts, RebuildFacts, StartFacts DEF RecoverStep
    <3> QED BY <3>1, <3>2, <3>3
  <2>2. \A t \in Task : Live(t)' <=> Live(t)
    BY <2>1 DEF Live
  <2>3. CASE phase = "down"
    <3>1. state' = snap.st
      BY <1>2, <2>3, LoadFacts, ReplayFacts, OpenFacts, RebuildFacts, StartFacts DEF RecoverStep
    <3> QED BY <1>0, <2>1, <2>2, <3>1 DEF Snapshots
  <2>4. CASE phase # "down"
    <3>1. \A t \in Task : state[t] # "absent" => state'[t] # "absent"
      BY <1>2, <2>4, RecoverKeeps
    <3> QED BY <1>0, <2>1, <2>2, <2>4, <3>1 DEF Snapshots
  <2> QED BY <2>3, <2>4
<1>3. CASE Crash \/ ShutdownReturns
  <2>1. phase' = "down" /\ kcopy' = NoSnapshot /\ kpc' = "exit"
    BY <1>3, EndFacts
  <2> QED BY <1>0, <2>1 DEF Snapshots
<1> QED BY <1>1, <1>2, <1>3, RunSnapshots, Kinds

LEMMA SnapshotWritten ==
    ASSUME Types, Snapshots, [Next]_vars, NEW t \in Task, spc[t] = "acked", snap.st[t] # "absent"
    PROVE  snap'.st[t] # "absent"
<1>1. CASE UNCHANGED snap
  BY <1>1
<1>2. CASE kpc = "write" /\ snap' = kcopy
  BY <1>2 DEF Snapshots, Live
<1>3. ASSUME RunStep PROVE UNCHANGED snap \/ (kpc = "write" /\ snap' = kcopy)
  <2>1. ASSUME NEW u \in Task, SubmitRegister(u) \/ SubmitStep(u) \/ CancelCheck(u) \/ CancelStep(u) PROVE UNCHANGED snap
    BY <2>1, RegisterFacts, SubmitFacts, CancelFacts
  <2>2. ASSUME NEW w \in Worker, WorkerStep(w) PROVE UNCHANGED snap
    BY <2>2, WorkerFrame
  <2>3. ASSUME SchedStep \/ StopSteps PROVE UNCHANGED snap
    BY <2>3, SchedFacts, StopFacts
  <2>4. ASSUME CkptBegin \/ CkptStep \/ CkptExit PROVE UNCHANGED snap \/ (kpc = "write" /\ snap' = kcopy)
    BY <2>4, CkptFacts
  <2> QED BY <1>3, <2>1, <2>2, <2>3, <2>4 DEF RunStep
<1>4. ASSUME RecoverStep \/ Crash \/ ShutdownReturns \/ UNCHANGED vars PROVE UNCHANGED snap
  BY <1>4, RecoverFrame, EndFacts DEF vars, disk
<1> QED BY <1>1, <1>2, <1>3, <1>4, Kinds

\* Conjunction of the invariants about submissions and snapshots.
Kept == BootQuiet /\ Waits /\ LogShape /\ Snapshots

LEMMA AlwaysKept == Spec => []Kept
<1>1. Init => Kept
  <2> SUFFICES ASSUME Init PROVE Kept
    OBVIOUS
  <2> USE DEF Init
  <2>1. BootQuiet
    BY DEF BootQuiet
  <2>2. Waits
    BY DEF Waits, InFlight
  <2>3. LogShape
    BY SMTT(30) DEF LogShape
  <2>4. Snapshots
    BY DEF Snapshots, NoSnapshot
  <2> QED BY <2>1, <2>2, <2>3, <2>4 DEF Kept
<1>2. Types /\ Types' /\ Own /\ Kept /\ [Next]_vars => Kept'
  BY NextBootQuiet, NextWaits, NextLogShape, NextSnapshots DEF Kept
<1> QED BY <1>1, <1>2, AlwaysTypes, AlwaysOwn, PTL DEF Spec

\* An acknowledged task that is in snapshot.json is in every later snapshot, for
\* every configuration, with checkpoints that run while tasks are submitted,
\* cancelled, executed and rolled back, that fail half-way, or are cut off by a
\* crash.
THEOREM EngineAckedStaysInSnapshot == Spec => AckedStaysInSnapshot
<1>1. Types /\ Kept /\ [Next]_vars
        => [\A t \in Task : (spc[t] = "acked" /\ snap.st[t] # "absent") => snap'.st[t] # "absent"]_vars
  BY SnapshotWritten DEF Kept
<1> QED BY <1>1, AlwaysTypes, AlwaysKept, PTL DEF Spec, AckedStaysInSnapshot

-----------------------------------------------------------------------------
(* What only some steps move *)

LEMMA PhaseMoves ==
    ASSUME Types, RunStep
    PROVE  \/ UNCHANGED <<phase, stops>>
           \/ phase = "up" /\ phase' = "drain" /\ stops' = stops + 1
           \/ phase \in {"drain", "cancel", "stop"} /\ phase' \in {"cancel", "stop", "final"} /\ UNCHANGED stops
<1>1. ASSUME NEW u \in Task, SubmitRegister(u) \/ SubmitStep(u) \/ CancelCheck(u) \/ CancelStep(u)
      PROVE  UNCHANGED <<phase, stops>>
  BY <1>1, RegisterFacts, SubmitFacts, CancelFacts
<1>2. ASSUME NEW w \in Worker, WorkerStep(w) PROVE UNCHANGED <<phase, stops>>
  BY <1>2, WorkerFrame
<1>3. ASSUME SchedStep \/ CkptBegin \/ CkptStep \/ CkptExit PROVE UNCHANGED <<phase, stops>>
  BY <1>3, SchedFacts, CkptFrame
<1>4. ASSUME StopSteps
      PROVE  \/ phase = "up" /\ phase' = "drain" /\ stops' = stops + 1
             \/ phase \in {"drain", "cancel", "stop"} /\ phase' \in {"cancel", "stop", "final"} /\ UNCHANGED stops
  BY <1>4, StopFacts
<1> QED BY <1>1, <1>2, <1>3, <1>4 DEF RunStep

LEMMA OffCheckpoint ==
    ASSUME Types, RunStep, ~(CkptBegin \/ CkptStep \/ CkptExit)
    PROVE  UNCHANGED <<snap, walOld, kcopy, ktodo>> /\ kpc' \in {kpc, "idle"}
<1>1. ASSUME NEW u \in Task, SubmitRegister(u) \/ SubmitStep(u) \/ CancelCheck(u) \/ CancelStep(u)
      PROVE  UNCHANGED <<snap, walOld, kcopy, ktodo, kpc>>
  BY <1>1, RegisterFacts, SubmitFacts, CancelFacts
<1>2. ASSUME NEW w \in Worker, WorkerStep(w) PROVE UNCHANGED <<snap, walOld, kcopy, ktodo, kpc>>
  BY <1>2, WorkerFrame
<1>3. ASSUME SchedStep PROVE UNCHANGED <<snap, walOld, kcopy, ktodo, kpc>>
  BY <1>3, SchedFacts
<1>4. ASSUME StopSteps PROVE UNCHANGED <<snap, walOld, kcopy, ktodo>> /\ kpc' \in {kpc, "idle"}
  BY <1>4, StopFacts
<1> QED BY <1>1, <1>2, <1>3, <1>4 DEF RunStep

\* A worker moves only by its own steps.
LEMMA OtherSteps ==
    ASSUME Types, RunStep, NEW w \in Worker, ~WorkerStep(w)
    PROVE  UNCHANGED <<wpc[w], wres[w], wtask[w]>>
<1>1. ASSUME NEW u \in Task, SubmitRegister(u) \/ SubmitStep(u) \/ CancelCheck(u) \/ CancelStep(u)
      PROVE  UNCHANGED <<wpc, wres, wtask>>
  BY <1>1, RegisterFacts, SubmitFacts, CancelFacts
<1>2. ASSUME SchedStep \/ CkptBegin \/ CkptStep \/ CkptExit \/ StopSteps PROVE UNCHANGED <<wpc, wres, wtask>>
  BY <1>2, SchedFacts, CkptFrame, StopFacts
<1>3. ASSUME NEW v \in Worker, WorkerStep(v) PROVE UNCHANGED <<wpc[w], wres[w], wtask[w]>>
  BY <1>3, WorkerFrame
<1> QED BY <1>1, <1>2, <1>3 DEF RunStep

\* A worker about to log an outcome has just settled it, or has not moved.
LEMMA AtLog ==
    ASSUME Types, RunStep, NEW w \in Worker, wpc'[w] = "log"
    PROVE  \/ WorkerSettle(w)
           \/ ~WorkerStep(w) /\ wpc[w] = "log" /\ wres'[w] = wres[w] /\ wtask'[w] = wtask[w]
<1>1. CASE WorkerStep(w)
  <2>1. ~(WorkerLoop(w) \/ WorkerDequeue(w) \/ WorkerExec(w) \/ WorkerPush(w) \/ WorkerPost(w))
    BY WorkerIdleFacts
  <2>2. ~(WorkerMark(w) \/ WorkerStart(w) \/ WorkerLogStart(w) \/ WorkerLog(w) \/ WorkerForce(w))
    BY WorkerMarkFacts, WorkerLogStartFacts, WorkerLogFacts, WorkerForceFacts
  <2> QED BY <1>1, <2>1, <2>2 DEF WorkerStep
<1>2. CASE ~WorkerStep(w)
  BY <1>2, OtherSteps
<1> QED BY <1>1, <1>2

\* Only a worker that settles a failure counts a retry.
LEMMA RetriesMoves ==
    ASSUME Types, RunStep, NEW t \in Task, retries'[t] # retries[t]
    PROVE  \E w \in Worker : Holds(w, t) /\ wpc[w] = "settle" /\ retries'[t] = retries[t] + 1
<1>1. ASSUME NEW u \in Task, SubmitRegister(u) \/ SubmitStep(u) \/ CancelCheck(u) \/ CancelStep(u) PROVE FALSE
  BY <1>1, RegisterFacts, SubmitFacts, CancelFacts
<1>2. ASSUME SchedStep \/ CkptBegin \/ CkptStep \/ CkptExit \/ StopSteps PROVE FALSE
  BY <1>2, SchedFacts, CkptFrame, StopFacts
<1>3. ASSUME NEW w \in Worker, WorkerStep(w)
      PROVE  Holds(w, t) /\ wpc[w] = "settle" /\ retries'[t] = retries[t] + 1
  <2>1. wtask[w] = t
    BY <1>3, WorkerFrame
  <2>2. WorkerSettle(w)
    BY <1>3, WorkerIdleFacts, WorkerMarkFacts, WorkerLogStartFacts, WorkerLogFacts, WorkerForceFacts DEF WorkerStep
  <2> QED BY <2>1, <2>2, WorkerSettleFacts DEF Holds, Holding
<1> QED BY <1>1, <1>2, <1>3 DEF RunStep

\* Whoever has a task finds it in the registry.
Known == \A t \in Task : Has(t) => state[t] # "absent"

\* Submit gives up a task only after placing it, or when it takes it back.
LEMMA RolledBackIsFree ==
    ASSUME Types, Own, RunStep, NEW t \in Task, spc[t] = "rollback", spc'[t] = "failed"
    PROVE  ~Has(t)'
<1>1. SubmitStep(t)
  BY SpcMoves, RegisterFacts
<1>2. UNCHANGED <<buffer, heap, ready, cur, wpc, wtask>>
  BY <1>1, SubmitFacts
<1>3. ~Queued(t) /\ \A w \in Worker : ~Holds(w, t)
  BY DEF Own, Exclusive, InFlight
<1>4. "failed" \notin InFlight
  BY DEF InFlight
<1> QED BY <1>2, <1>3, <1>4 DEF Has, Queued, Holds

LEMMA NextKnown == Types /\ Types' /\ Own /\ LogShape /\ Known /\ [Next]_vars => Known'
<1> SUFFICES ASSUME Types, Types', Own, LogShape, Known, [Next]_vars, NEW t \in Task, Has(t)'
             PROVE  state'[t] # "absent"
  BY DEF Known
<1>1. CASE UNCHANGED vars
  <2>1. UNCHANGED <<spc, buffer, heap, ready, cur, wpc, wtask, state>>
    BY <1>1 DEF vars, registry, queues, clients, workers, scheduler
  <2> QED BY <2>1 DEF Known, Has, Queued, Holds
<1>2. CASE RunStep
  <2>1. CASE Has(t)
    BY <1>2, <2>1, StateMoves, RolledBackIsFree DEF Known
  <2>2. CASE SubmitRegister(t)
    <3>1. CASE spc'[t] = "marshal"
      BY <2>2, <3>1, RegisterFacts
    <3>2. CASE spc'[t] = "duplicate"
      <4>1. UNCHANGED <<buffer, heap, ready, cur, wpc, wtask>> /\ t \in New
        BY <2>2, RegisterFacts
      <4>2. ~Queued(t) /\ \A w \in Worker : wtask[w] # t
        BY <4>1 DEF Own, UnknownInMemory
      <4> QED BY <3>2, <4>1, <4>2 DEF Has, Queued, Holds, InFlight
    <3> QED BY <2>2, <3>1, <3>2, RegisterFacts
  <2> QED BY <1>2, <2>1, <2>2, RunTakes
<1>3. CASE RecoverStep
  <2>1. Has(t) => phase = "rebuild"
    <3>1. Range(<<>>) = {}
      BY SMTT(30) DEF Range
    <3> QED BY <1>3, <3>1, RecoverFrame, NoneAssumption DEF Own, BootAlone, Has, Queued, Holds, Holding
  <2>2. phase = "rebuild" /\ state[t] # "absent"
    BY <1>3, <2>1, RecoverTakes, RebuildFacts DEF Known
  <2> QED BY <1>3, <2>2, RecoverKeeps
<1>4. CASE Crash \/ ShutdownReturns
  BY <1>4, EndTakes
<1> QED BY <1>1, <1>2, <1>3, <1>4, Kinds

LEMMA AlwaysKnown == Spec => []Known
<1>1. Init => Known
  <2> SUFFICES ASSUME Init PROVE Known
    OBVIOUS
  <2>1. /\ buffer = <<>> /\ heap = {} /\ ready = {} /\ cur = None
        /\ (\A t \in Task : spc[t] = "new") /\ \A w \in Worker : wpc[w] = "exit"
    BY DEF Init
  <2>2. Range(buffer) = {}
    BY SMTT(30), <2>1 DEF Range
  <2> QED BY <2>1, <2>2, NoneAssumption DEF Known, Has, Queued, Holds, Holding, InFlight
<1>2. Types /\ Types' /\ Own /\ Kept /\ Known /\ [Next]_vars => Known'
  BY NextKnown DEF Kept
<1> QED BY <1>1, <1>2, AlwaysTypes, AlwaysOwn, AlwaysKept, PTL DEF Spec

===============================================================================
