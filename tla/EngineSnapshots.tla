--------------------------- MODULE EngineSnapshots ----------------------------
(***************************************************************************)
(* What a checkpoint and a shutdown leave on the disk, and that no waiting *)
(* task is forgotten.                                                      *)
(***************************************************************************)
EXTENDS EngineRecords

\* Most steps are first-order; those that need arithmetic or records say SMT.
USE ZenonT(20)

-----------------------------------------------------------------------------
(* What a snapshot covers *)

\* Record r may be skipped by a process that starts from s.
Cov(r, s) ==
    /\ r.type # "cancel" => s.st[r.task] # "absent"
    /\ Final(r) => s.st[r.task] \notin Unfinished
    /\ r.type = "retry" => s.rc[r.task] >= r.rc

Covers ==
    FirstLife =>
        /\ ~Booting => snap.seq <= walSeq
        /\ kpc \in {"copy", "write"} => kcopy.seq <= walSeq
        /\ kpc = "copy" => \A i \in DOMAIN wal : wal[i].seq <= kcopy.seq => wal[i].task \in ktodo \/ Cov(wal[i], kcopy)
        /\ kpc = "write" => \A i \in DOMAIN wal : wal[i].seq <= kcopy.seq => Cov(wal[i], kcopy)
        /\ \A i \in DOMAIN wal : wal[i].seq <= snap.seq => Cov(wal[i], snap)

\* The registry of a running process covers the log.
LEMMA RegistryCovers ==
    ASSUME Types, Finished, Retries, Regime, ~Booting, NEW i \in DOMAIN wal, NEW s,
           s.st[wal[i].task] = state[wal[i].task], s.rc[wal[i].task] = retries[wal[i].task]
    PROVE  Cov(wal[i], s)
<1>1. Seen(i)
  BY DEF Seen, Booting
<1>2. wal[i].task \in Task /\ wal[i].rc \in Nat /\ retries[wal[i].task] \in Nat
  BY RecordTypes DEF Types, RegistryTypes
<1> QED BY <1>1, <1>2 DEF Finished, Retries, Cov, Final

LEMMA RunCovers ==
    ASSUME Types, Types', Own, Kept, Known, Finished, Retries, Covers, RunStep, FirstLife
    PROVE  Covers'
<1>0. /\ ~Booting /\ Regime /\ Waits /\ walSeq \in Nat /\ snap.seq \in Nat /\ kcopy.seq \in Nat
  BY RunStepAwake DEF Kept, Regime, Types, DiskTypes, CkptTypes, Snapshot
<1>1. /\ snap.seq <= walSeq
      /\ kpc \in {"copy", "write"} => kcopy.seq <= walSeq
      /\ kpc = "copy" => \A i \in DOMAIN wal : wal[i].seq <= kcopy.seq => wal[i].task \in ktodo \/ Cov(wal[i], kcopy)
      /\ kpc = "write" => \A i \in DOMAIN wal : wal[i].seq <= kcopy.seq => Cov(wal[i], kcopy)
      /\ \A i \in DOMAIN wal : wal[i].seq <= snap.seq => Cov(wal[i], snap)
  BY <1>0 DEF Covers
<1>2. ASSUME ~(CkptBegin \/ CkptStep \/ CkptExit) PROVE Covers'
  <2>1. UNCHANGED <<snap, kcopy, ktodo>> /\ kpc' \in {kpc, "idle"}
    BY <1>2, OffCheckpoint
  <2>2. walSeq' = walSeq \/ walSeq' = walSeq + 1
    BY <1>2, WalMoves DEF Wrote
  <2>3. \A i \in DOMAIN wal' : (i \in DOMAIN wal /\ wal'[i] = wal[i]) \/ wal'[i].seq = walSeq + 1
    BY <1>0, OldRecords, RunWrites
  <2>4. ASSUME NEW i \in DOMAIN wal', wal'[i].seq <= walSeq PROVE i \in DOMAIN wal /\ wal'[i] = wal[i]
    BY SMTT(30), <1>0, <2>3, <2>4
  <2>5. \A i \in DOMAIN wal' : wal'[i].seq \in Nat
    BY LaterRecordTypes
  <2>6. \A i \in DOMAIN wal' : wal'[i].seq <= snap.seq => i \in DOMAIN wal /\ wal'[i] = wal[i]
    BY SMTT(30), <1>0, <1>1, <2>4, <2>5
  <2>7. kpc \in {"copy", "write"} => \A i \in DOMAIN wal' : wal'[i].seq <= kcopy.seq => i \in DOMAIN wal /\ wal'[i] = wal[i]
    BY SMTT(30), <1>0, <1>1, <2>4, <2>5
  <2>8. snap'.seq <= walSeq' /\ (kpc' \in {"copy", "write"} => kcopy'.seq <= walSeq')
    BY SMTT(30), <1>0, <1>1, <2>1, <2>2
  <2>9. /\ \A i \in DOMAIN wal' : wal'[i].seq <= snap'.seq => Cov(wal'[i], snap')
        /\ kpc' = "copy" => \A i \in DOMAIN wal' : wal'[i].seq <= kcopy'.seq => wal'[i].task \in ktodo' \/ Cov(wal'[i], kcopy')
        /\ kpc' = "write" => \A i \in DOMAIN wal' : wal'[i].seq <= kcopy'.seq => Cov(wal'[i], kcopy')
    BY <1>1, <2>1, <2>6, <2>7
  <2> QED BY <2>8, <2>9 DEF Covers, Cov, Final
<1>3. ASSUME CkptBegin \/ CkptStep \/ CkptExit PROVE Covers'
  <2>0. UNCHANGED <<walSeq, state, retries>>
    BY <1>3, CkptFrame
  <2>1. CASE /\ kpc = "idle" /\ kpc' = "copy" /\ kcopy'.seq = walSeq /\ ktodo' = Registered
             /\ UNCHANGED <<wal, snap>>
    <3>1. ASSUME NEW i \in DOMAIN wal PROVE wal[i].task \in Registered \/ Cov(wal[i], kcopy')
      <4>1. wal[i].task \in Task /\ Seen(i)
        BY <1>0, RecordTypes DEF Seen, Booting
      <4>2. CASE wal[i].type = "cancel"
        BY <4>2 DEF Cov, Final
      <4>3. CASE wal[i].type # "cancel"
        BY <1>0, <4>1, <4>3 DEF Finished, Registered
      <4> QED BY <4>2, <4>3
    <3> QED BY SMTT(30), <1>0, <1>1, <2>0, <2>1, <3>1 DEF Covers, Cov, Final
  <2>2. ASSUME kpc = "copy", kpc' = "copy", UNCHANGED <<wal, snap>>, kcopy'.seq = kcopy.seq, NEW t \in ktodo, ktodo' = ktodo \ {t},
               \A u \in Task : /\ kcopy'.st[u] = IF u = t THEN state[t] ELSE kcopy.st[u]
                               /\ kcopy'.rc[u] = IF u = t THEN retries[t] ELSE kcopy.rc[u]
        PROVE  Covers'
    <3>1. ASSUME NEW i \in DOMAIN wal, wal[i].seq <= kcopy.seq PROVE wal[i].task \in ktodo' \/ Cov(wal[i], kcopy')
      <4>1. wal[i].task \in Task
        BY RecordTypes
      <4>2. CASE wal[i].task = t
        BY <1>0, <2>2, <4>1, <4>2, RegistryCovers
      <4>3. CASE wal[i].task # t
        <5>1. wal[i].task \in ktodo \/ Cov(wal[i], kcopy)
          BY <1>1, <2>2, <3>1
        <5> QED BY <2>2, <4>1, <4>3, <5>1 DEF Cov
      <4> QED BY <4>2, <4>3
    <3> QED BY <1>0, <1>1, <2>0, <2>2, <3>1 DEF Covers, Cov, Final
  <2>3. CASE kpc = "copy" /\ kpc' = "write" /\ ktodo = {} /\ UNCHANGED <<wal, snap, kcopy, ktodo>>
    <3>1. \A i \in DOMAIN wal : wal[i].seq <= kcopy.seq => Cov(wal[i], kcopy)
      BY <1>1, <2>3
    <3> QED BY <1>1, <2>0, <2>3, <3>1 DEF Covers, Cov, Final
  <2>4. CASE kpc = "write" /\ kpc' = "close" /\ snap' = kcopy /\ UNCHANGED wal
    BY <1>1, <2>0, <2>4 DEF Covers, Cov, Final
  <2>5. CASE kpc' \notin {"copy", "write"} /\ snap' = snap /\ (wal' = wal \/ wal' = <<>>)
    BY SMTT(30), <1>1, <2>0, <2>5 DEF Covers, Cov, Final
  <2> QED BY <1>3, <2>1, <2>2, <2>3, <2>4, <2>5, CkptFacts
<1> QED BY <1>2, <1>3

LEMMA LifeEnds == ASSUME Types, Base, Crash \/ ShutdownReturns PROVE ~FirstLife'
<1>1. /\ phase' = "down" /\ crashes \in Nat /\ stops \in Nat
      /\ crashes' = crashes + 1 \/ (UNCHANGED <<crashes, stops>> /\ phase \in {"stop", "final"})
  BY EndFacts DEF Types, ProcessTypes
<1> QED BY SMTT(30), <1>1 DEF FirstLife, Base, Booting

\* Where the checkpoint goroutine is when recovery makes a step.
LEMMA RecoverCkpt == ASSUME Kept, RecoverStep, Types PROVE UNCHANGED <<kcopy, ktodo>> /\ kpc' \in {"idle", "exit"}
<1>1. kpc = "exit" /\ UNCHANGED <<kcopy, ktodo>>
  BY RecoverFrame DEF Kept, BootQuiet
<1> QED BY <1>1, LoadFacts, ReplayFacts, OpenFacts, RebuildFacts, StartFacts DEF RecoverStep

LEMMA NextCovers ==
    Types /\ Types' /\ Own /\ Kept /\ Base /\ Known /\ Finished /\ Retries /\ Covers /\ [Next]_vars => Covers'
<1> SUFFICES ASSUME Types, Types', Own, Kept, Base, Known, Finished, Retries, Covers, [Next]_vars, FirstLife' PROVE Covers'
  BY DEF Covers
<1>0. FirstLife
  BY RegimeMoves DEF Kept
<1>1. CASE UNCHANGED vars
  <2>1. UNCHANGED <<wal, walSeq, snap, kpc, kcopy, ktodo, phase>>
    BY <1>1 DEF vars, disk, log, ckpt, process
  <2> QED BY <1>0, <2>1 DEF Covers, Booting, Cov, Final
<1>2. CASE RunStep
  BY <1>0, <1>2, RunCovers
<1>3. CASE RecoverStep
  <2>1. Booting /\ UNCHANGED <<wal, snap>> /\ kpc' \notin {"copy", "write"} /\ walSeq' \in Nat
    BY <1>3, RecoverFrame, RecoverCkpt DEF Types, DiskTypes
  <2>2. wal = <<>> /\ snap.seq = 0
    BY <1>0, <2>1, NothingLogged, NothingLoaded DEF Regime
  <2> QED BY SMTT(30), <2>1, <2>2 DEF Covers
<1>4. CASE Crash \/ ShutdownReturns
  BY <1>4, LifeEnds
<1> QED BY <1>1, <1>2, <1>3, <1>4, Kinds

LEMMA CoversHolds == Covers => (FirstLife => SnapshotCovers)
BY DEF Covers, SnapshotCovers, Cov, Final, Unfinished

-----------------------------------------------------------------------------
(* Rotation *)

EnqOld(t) == \E i \in DOMAIN walOld : walOld[i].type = "enqueue" /\ walOld[i].task = t
InSnap(t) == snap.st[t] # "absent"
EnqNew(t) == \E i \in DOMAIN wal : wal[i].type = "enqueue" /\ wal[i].task = t /\ wal[i].seq > snap.seq

\* A task that was logged is in the snapshot or in one of the two log files; what
\* is only in wal.old reaches the snapshot before the next rotation.
OnDisk ==
    FirstLife =>
        /\ \A t \in Task : spc[t] \in {"route", "push", "enq", "acked"} => InSnap(t) \/ EnqNew(t) \/ EnqOld(t)
        /\ \A t \in Task : EnqOld(t) =>
             /\ spc[t] \in Placed /\ state[t] # "absent"
             /\ kpc = "copy" => t \in ktodo \/ kcopy.st[t] # "absent"
             /\ kpc = "write" => kcopy.st[t] # "absent"
             /\ kpc \in {"close", "rename"} => InSnap(t)

\* A Submit that reaches the log leaves its record there.
LEMMA SubmitLogged ==
    ASSUME Types, RunStep, NEW t \in Task, spc'[t] \in {"route", "push", "enq", "acked"}
    PROVE  \/ spc[t] \in {"route", "push", "enq", "acked"}
           \/ Wrote("enqueue", t, sdata[t], 0) /\ UNCHANGED snap
<1>1. CASE spc'[t] = spc[t]
  BY <1>1
<1>2. CASE SubmitRegister(t)
  BY <1>2, RegisterFacts
<1>3. CASE SubmitStep(t)
  BY <1>3, SubmitFacts
<1> QED BY <1>1, <1>2, <1>3, SpcMoves

LEMMA RunOnDisk ==
    ASSUME Types, Types', Own, Kept, Base, Known, Finished, Covers, OnDisk, RunStep, [Next]_vars, FirstLife
    PROVE  OnDisk'
<1>0. /\ ~Booting /\ Regime /\ Waits /\ LogShape /\ Snapshots /\ walSeq \in Nat /\ snap.seq \in Nat /\ kcopy.seq \in Nat
      /\ snap.seq <= walSeq
  BY RunStepAwake DEF Kept, Regime, Types, DiskTypes, CkptTypes, Snapshot, Covers
<1>1. /\ \A t \in Task : spc[t] \in {"route", "push", "enq", "acked"} => InSnap(t) \/ EnqNew(t) \/ EnqOld(t)
      /\ \A t \in Task : EnqOld(t) =>
           /\ spc[t] \in Placed /\ state[t] # "absent"
           /\ kpc = "copy" => t \in ktodo \/ kcopy.st[t] # "absent"
           /\ kpc = "write" => kcopy.st[t] # "absent"
           /\ kpc \in {"close", "rename"} => InSnap(t)
  BY DEF OnDisk
<1>2. ASSUME NEW t \in Task, spc[t] \in Placed, state[t] # "absent" PROVE spc'[t] \in Placed /\ state'[t] # "absent"
  <2>1. spc[t] # "rollback"
    BY <1>2 DEF Placed
  <2> QED BY <1>2, <2>1, PlacedStays, StateMoves
<1>3. ASSUME NEW t \in Task, NEW i \in DOMAIN wal, wal[i].type = "enqueue", wal[i].task = t
      PROVE  spc[t] \in Placed /\ state[t] # "absent"
  BY <1>0, <1>3 DEF LogShape, Finished, Seen, Booting
<1>4. ASSUME ~(CkptBegin \/ CkptStep \/ CkptExit) PROVE OnDisk'
  <2>1. UNCHANGED <<snap, walOld, kcopy, ktodo>> /\ kpc' \in {kpc, "idle"}
    BY <1>4, OffCheckpoint
  <2>2. \A i \in DOMAIN wal : i \in DOMAIN wal' /\ wal'[i] = wal[i]
    <3>1. CASE UNCHANGED wal
      BY <3>1
    <3>2. ASSUME NEW type, NEW t, NEW st, NEW rc, Wrote(type, t, st, rc)
          PROVE  \A i \in DOMAIN wal : i \in DOMAIN wal' /\ wal'[i] = wal[i]
      BY <3>2 DEF Wrote
    <3> QED BY <1>4, <3>1, <3>2, WalMoves
  <2>3. \A t \in Task : (EnqOld(t)' <=> EnqOld(t)) /\ (InSnap(t)' <=> InSnap(t)) /\ (EnqNew(t) => EnqNew(t)')
    BY <2>1, <2>2 DEF EnqOld, InSnap, EnqNew
  <2>4. ASSUME NEW t \in Task, Wrote("enqueue", t, sdata[t], 0) PROVE EnqNew(t)'
    <3>1. Len(wal) + 1 \in DOMAIN wal' /\ wal'[Len(wal) + 1].type = "enqueue" /\ wal'[Len(wal) + 1].task = t
          /\ wal'[Len(wal) + 1].seq = walSeq + 1
      BY <2>4 DEF Wrote
    <3>2. wal'[Len(wal) + 1].seq > snap'.seq
      BY SMTT(30), <1>0, <2>1, <3>1
    <3> QED BY <3>1, <3>2 DEF EnqNew
  <2>5. ASSUME NEW t \in Task, spc'[t] \in {"route", "push", "enq", "acked"} PROVE InSnap(t)' \/ EnqNew(t)' \/ EnqOld(t)'
    BY <1>1, <2>3, <2>4, <2>5, SubmitLogged
  <2> QED BY <1>1, <1>2, <2>1, <2>3, <2>5 DEF OnDisk
<1>5. ASSUME CkptBegin \/ CkptStep \/ CkptExit PROVE OnDisk'
  <2>0. UNCHANGED <<walSeq, state, spc>>
    BY <1>5, CkptFrame
  <2>1. CASE /\ kpc = "idle" /\ kpc' = "copy" /\ ktodo' = Registered /\ UNCHANGED <<wal, walOld, snap>>
    BY <1>1, <2>0, <2>1 DEF OnDisk, EnqOld, InSnap, EnqNew, Registered
  <2>2. ASSUME kpc = "copy", kpc' = "copy", UNCHANGED <<wal, walOld, snap>>, NEW t \in ktodo, ktodo' = ktodo \ {t},
               \A u \in Task : kcopy'.st[u] = IF u = t THEN state[t] ELSE kcopy.st[u]
        PROVE  OnDisk'
    <3>1. \A u \in Task : EnqOld(u) => u \in ktodo' \/ kcopy'.st[u] # "absent"
      BY <1>1, <2>2
    <3> QED BY <1>1, <2>0, <2>2, <3>1 DEF OnDisk, EnqOld, InSnap, EnqNew
  <2>3. CASE kpc = "copy" /\ kpc' = "write" /\ ktodo = {} /\ UNCHANGED <<wal, walOld, snap, kcopy>>
    BY <1>1, <2>0, <2>3 DEF OnDisk, EnqOld, InSnap, EnqNew
  <2>4. CASE kpc = "write" /\ kpc' = "close" /\ snap' = kcopy /\ UNCHANGED <<wal, walOld>>
    <3>1. \A t \in Task : EnqOld(t) => InSnap(t)'
      BY <1>1, <2>4 DEF InSnap
    <3>2. ASSUME NEW t \in Task, spc[t] \in {"route", "push", "enq", "acked"} PROVE InSnap(t)' \/ EnqNew(t)' \/ EnqOld(t)'
      <4>1. CASE InSnap(t)
        <5>1. Live(t)
          BY <3>2 DEF Live, InFlight
        <5> QED BY <1>0, <2>4, <4>1, <5>1 DEF Snapshots, InSnap
      <4>2. CASE EnqNew(t)
        <5>1. PICK i \in DOMAIN wal : wal[i].type = "enqueue" /\ wal[i].task = t
          BY <4>2 DEF EnqNew
        <5>2. CASE wal[i].seq > kcopy.seq
          BY <2>4, <5>1, <5>2 DEF EnqNew
        <5>3. CASE ~(wal[i].seq > kcopy.seq)
          <6>1. wal[i].seq <= kcopy.seq
            BY SMTT(30), <1>0, <5>3, RecordTypes
          <6>2. Cov(wal[i], kcopy)
            BY <2>4, <6>1 DEF Covers
          <6> QED BY <2>4, <5>1, <6>2 DEF Cov, InSnap
        <5> QED BY <5>2, <5>3
      <4> QED BY <1>1, <2>4, <3>1, <3>2, <4>1, <4>2
    <3> QED BY <1>1, <2>0, <2>4, <3>1, <3>2 DEF OnDisk, EnqOld
  <2>5. CASE kpc = "rename" /\ kpc' = "open" /\ walOld' = wal /\ wal' = <<>> /\ UNCHANGED snap
    <3>1. \A t \in Task : EnqOld(t)' => spc'[t] \in Placed /\ state'[t] # "absent"
      BY <1>3, <2>0, <2>5 DEF EnqOld
    <3>2. \A t \in Task : (EnqNew(t) => EnqOld(t)') /\ (InSnap(t) => InSnap(t)')
      BY <2>5 DEF EnqOld, EnqNew, InSnap
    <3>3. \A t \in Task : EnqOld(t) => InSnap(t)'
      BY <1>1, <2>5 DEF InSnap
    <3> QED BY <1>1, <2>0, <2>5, <3>1, <3>2, <3>3 DEF OnDisk
  <2>6. CASE /\ kpc' \in {"idle", "exit"} /\ UNCHANGED <<wal, snap>>
             /\ walOld' = walOld \/ (kpc = "rename" /\ walOld' = <<>>)
    <3>1. \A t \in Task : (EnqNew(t) => EnqNew(t)') /\ (InSnap(t) => InSnap(t)') /\ (EnqOld(t)' => EnqOld(t))
      BY SMTT(30), <2>6 DEF EnqOld, EnqNew, InSnap
    <3>2. \A t \in Task : EnqOld(t) => EnqOld(t)' \/ InSnap(t)
      BY <1>1, <2>6 DEF EnqOld
    <3> QED BY <1>1, <2>0, <2>6, <3>1, <3>2 DEF OnDisk
  <2>7. CASE kpc = "close" /\ kpc' = "rename" /\ UNCHANGED <<wal, walOld, snap>>
    BY <1>1, <2>0, <2>7 DEF OnDisk, EnqOld, InSnap, EnqNew
  <2> QED BY <1>5, <2>1, <2>2, <2>3, <2>4, <2>5, <2>6, <2>7, CkptFacts
<1> QED BY <1>4, <1>5

LEMMA NextOnDisk ==
    Types /\ Types' /\ Own /\ Kept /\ Base /\ Known /\ Finished /\ Covers /\ OnDisk /\ [Next]_vars => OnDisk'
<1> SUFFICES ASSUME Types, Types', Own, Kept, Base, Known, Finished, Covers, OnDisk, [Next]_vars, FirstLife' PROVE OnDisk'
  BY DEF OnDisk
<1>0. FirstLife
  BY RegimeMoves DEF Kept
<1>1. CASE UNCHANGED vars
  <2>1. UNCHANGED <<wal, walOld, snap, kpc, kcopy, ktodo, spc, state>>
    BY <1>1 DEF vars, disk, ckpt, clients, registry
  <2> QED BY <1>0, <2>1 DEF OnDisk, EnqOld, EnqNew, InSnap
<1>2. CASE RunStep
  BY <1>0, <1>2, RunOnDisk
<1>3. CASE RecoverStep
  <2>1. Booting /\ UNCHANGED <<walOld, spc>>
    BY <1>3, RecoverFrame
  <2>2. \A t \in Task : spc[t] = "new" /\ ~EnqOld(t)
    BY <1>0, <2>1 DEF Base, OnDisk, Placed
  <2> QED BY <2>1, <2>2 DEF OnDisk, EnqOld
<1>4. CASE Crash \/ ShutdownReturns
  BY <1>4, LifeEnds
<1> QED BY <1>1, <1>2, <1>3, <1>4, Kinds

LEMMA OnDiskHolds == OnDisk => (FirstLife => AckedOnDisk)
BY DEF OnDisk, AckedOnDisk, Recoverable, EnqueueRecord, InSnap, EnqNew, EnqOld

-----------------------------------------------------------------------------
(* The theorems on checkpoints *)

\* The inductive invariant, relative to Types, Own, Kept and Recorded.
Covered == Covers /\ OnDisk

LEMMA AlwaysCovered == Spec => []Covered
<1>1. Init => Covered
  <2> SUFFICES ASSUME Init PROVE Covered
    OBVIOUS
  <2>1. /\ wal = <<>> /\ walOld = <<>> /\ snap = NoSnapshot /\ kpc = "exit" /\ phase = "down"
        /\ \A t \in Task : spc[t] = "new"
    BY DEF Init
  <2>2. DOMAIN wal = {} /\ DOMAIN walOld = {}
    BY SMTT(30), <2>1
  <2> QED BY <2>1, <2>2 DEF Covered, Covers, OnDisk, EnqOld, Booting
<1>2. Types /\ Types' /\ Own /\ Own' /\ Kept /\ Recorded /\ Covered /\ [Next]_vars => Covered'
  BY NextCovers, NextOnDisk DEF Recorded, Covered, Kept
<1> QED BY <1>1, <1>2, AlwaysTypes, AlwaysOwn, AlwaysKept, AlwaysRecorded, PTL DEF Spec

\* Recover may skip what LastSeq says it may: the snapshot accounts for it.
THEOREM EngineSnapshotCovers == Spec => [](Regime => SnapshotCovers)
<1>1. ASSUME Types, LogShape, Base, LogOnly PROVE SnapshotCovers
  <2>1. snap.seq = 0
    BY SMTT(30), <1>1 DEF Base, NoSnapshot
  <2>2. \A i \in DOMAIN wal : ~(wal[i].seq <= snap.seq)
    BY SMTT(30), <1>1, <2>1, RecordTypes DEF LogShape
  <2> QED BY <2>2 DEF SnapshotCovers
<1>2. Types /\ Kept /\ Recorded /\ Covered => (Regime => SnapshotCovers)
  BY <1>1, CoversHolds DEF Kept, Recorded, Covered, Regime
<1> QED BY <1>2, AlwaysTypes, AlwaysKept, AlwaysRecorded, AlwaysCovered, PTL

\* Rotation drops no acknowledged task: what the snapshot lacks is in wal.bin or
\* in wal.old, also when file operations fail.
THEOREM EngineAckedOnDisk == Spec => [](Regime => AckedOnDisk)
<1>1. Types /\ Kept /\ Recorded /\ Covered => (Regime => AckedOnDisk)
  BY LoggedRecovers, OnDiskHolds DEF Kept, Recorded, Covered, Regime, AckedRecoverable, AckedOnDisk
<1> QED BY <1>1, AlwaysTypes, AlwaysKept, AlwaysRecorded, AlwaysCovered, PTL

-----------------------------------------------------------------------------
(* Shutdown without timeouts and I/O errors *)

Quiet == ~TimeoutsExpire /\ ~IOFaults

\* A task that is not registered, or not placed yet, has no retries to save.
NoneToSave ==
    /\ \A t \in Task : state[t] = "absent" \/ spc[t] \in InFlight \/ t \in New => retries[t] = 0
    /\ \A t \in Task : snap.st[t] = "absent" => snap.rc[t] = 0
    /\ \A t \in Task : kcopy.st[t] = "absent" => kcopy.rc[t] = 0

\* Each stage of Shutdown leaves less that can move: the clients are gone when
\* the context is cancelled, the pool and the scheduler when the last
\* checkpoint begins.
Stages ==
    /\ sched = "exit" => ready = {} /\ cur = None
    /\ phase \in {"cancel", "stop", "final"} => RequestsDone
    /\ phase = "final" => WorkersStopped /\ sched = "exit"

SavedIn(s, t) == s.st[t] = state[t] /\ s.rc[t] = retries[t]

LastCheckpoint ==
    phase = "final" =>
        /\ kpc = "copy" => \A t \in Task \ ktodo : SavedIn(kcopy, t)
        /\ kpc = "write" => \A t \in Task : SavedIn(kcopy, t)
        /\ kpc \in {"close", "rename", "open", "exit"} => \A t \in Task : SavedIn(snap, t)
        /\ kpc \in {"open", "exit"} => wal = <<>>

LEMMA RunNoneToSave ==
    ASSUME Types, Types', Own, Known, NoneToSave, RunStep
    PROVE  NoneToSave'
<1>1. ASSUME NEW t \in Task, state'[t] = "absent" \/ spc'[t] \in InFlight \/ t \in New' PROVE retries'[t] = 0
  <2>1. CASE retries'[t] # retries[t]
    <3>1. PICK w \in Worker : Holds(w, t) /\ wpc[w] = "settle"
      BY <2>1, RetriesMoves
    <3>2. state[t] # "absent" /\ spc[t] \notin InFlight /\ t \notin New
      BY <3>1 DEF Known, Has, Own, Exclusive, UnknownInMemory, Holds
    <3>3. spc'[t] = spc[t]
      BY <3>2, SpcMoves, RegisterFacts, SubmitFacts
    <3>4. state'[t] # "absent"
      BY <3>2, StateMoves DEF InFlight
    <3> QED BY <1>1, <3>2, <3>3, <3>4 DEF New
  <2>2. CASE retries'[t] = retries[t]
    <3>1. state[t] = "absent" \/ spc[t] \in InFlight \/ t \in New
      <4>1. CASE spc'[t] # spc[t]
        BY <4>1, SpcMoves, RegisterFacts, SubmitFacts DEF New
      <4>2. CASE spc'[t] = spc[t]
        BY <1>1, <4>2, StateMoves DEF InFlight, New
      <4> QED BY <4>1, <4>2
    <3> QED BY <2>2, <3>1 DEF NoneToSave
  <2> QED BY <2>1, <2>2
<1>2. /\ \A t \in Task : snap'.st[t] = "absent" => snap'.rc[t] = 0
      /\ \A t \in Task : kcopy'.st[t] = "absent" => kcopy'.rc[t] = 0
  <2>1. CASE ~(CkptBegin \/ CkptStep \/ CkptExit)
    BY <2>1, OffCheckpoint DEF NoneToSave
  <2>2. CASE CkptBegin \/ CkptStep \/ CkptExit
    <3>1. \A t \in Task : NoSnapshot.rc[t] = 0
      BY DEF NoSnapshot
    <3>2. \A t \in ktodo : t \in Task /\ (state[t] = "absent" => retries[t] = 0)
      BY DEF NoneToSave, Types, CkptTypes
    <3>3. snap' = snap \/ snap' = kcopy
      BY <2>2, CkptFacts
    <3>4. \/ kcopy' = kcopy \/ kcopy' = NoSnapshot \/ \A t \in Task : kcopy'.rc[t] = 0
          \/ \E t \in ktodo : \A u \in Task : /\ kcopy'.st[u] = IF u = t THEN state[t] ELSE kcopy.st[u]
                                              /\ kcopy'.rc[u] = IF u = t THEN retries[t] ELSE kcopy.rc[u]
      BY <2>2, CkptFacts
    <3> QED BY <3>1, <3>2, <3>3, <3>4 DEF NoneToSave
  <2> QED BY <2>1, <2>2
<1> QED BY <1>1, <1>2 DEF NoneToSave

LEMMA RecoverNoneToSave ==
    ASSUME Types, Own, Kept, NoneToSave, RecoverStep
    PROVE  NoneToSave'
<1>0. /\ UNCHANGED <<snap, kcopy, spc>> /\ Booting /\ \A t \in Task : spc[t] \notin InFlight
      /\ state \in [Task -> TaskState \cup {"absent"}] /\ retries \in [Task -> Nat]
      /\ \A t \in New : state[t] = "absent" /\ snap.st[t] = "absent"
  BY RecoverFrame DEF Own, BootAlone, UnknownInMemory, UnknownOnDisk, Types, RegistryTypes
<1>1. \A t \in Task : state[t] = "absent" \/ t \in New => retries[t] = 0
  BY DEF NoneToSave
<1>2. CASE LoadSnapshot
  <2>1. \A t \in Task : state'[t] = "absent" \/ t \in New' => retries'[t] = 0
    BY <1>0, <1>2, LoadFacts DEF New, NoneToSave
  <2> QED BY <1>0, <2>1 DEF NoneToSave
<1>3. CASE ReplayEntry
  <2> DEFINE r == wal[rpos]
  <2>1. rpos \in DOMAIN wal /\ ApplyEntry(r) /\ r.task \in Task /\ r.type \in RecordType
    BY <1>3, ReplayFacts, RecordTypes
  <2>2. r.task \notin New
    BY <2>1 DEF Own, UnknownOnDisk, Range
  <2>3. StateAfter(r) # "absent"
    BY <2>1 DEF StateAfter, RecordType, Kept, LogShape, Waiting
  <2>4. \/ UNCHANGED <<state, retries>>
        \/ /\ state' = [state EXCEPT ![r.task] = StateAfter(r)]
           /\ retries' = retries \/ retries' = [retries EXCEPT ![r.task] = r.rc]
    BY <2>1 DEF ApplyEntry, registry
  <2>5. \A t \in Task : state'[t] = "absent" \/ t \in New => retries'[t] = 0
    BY <1>0, <1>1, <2>1, <2>2, <2>3, <2>4
  <2> QED BY <1>0, <2>5 DEF NoneToSave, New
<1>4. CASE OpenWAL \/ Start
  <2>1. UNCHANGED <<state, retries>>
    BY <1>4, OpenFacts, StartFacts
  <2> QED BY <1>0, <2>1 DEF NoneToSave, New
<1>5. ASSUME NEW u \in Task, RebuildTask(u) PROVE NoneToSave'
  <2>1. \A t \in Task : \/ state'[t] = state[t] /\ retries'[t] = retries[t]
                        \/ state[t] # "absent" /\ state'[t] = "Pending"
    BY <1>5, RebuildFacts
  <2> QED BY <1>0, <1>1, <2>1 DEF NoneToSave, New
<1> QED BY <1>2, <1>3, <1>4, <1>5 DEF RecoverStep

\* No request is being served any more.
LEMMA ClientsGone ==
    ASSUME Quiet, Stages, phase \in {"cancel", "stop", "final"}, Types, NEW t \in Task
    PROVE  ~(SubmitRegister(t) \/ SubmitStep(t) \/ CancelCheck(t) \/ CancelStep(t))
<1>1. ~Serving /\ spc[t] \notin InFlight /\ cpc[t] \in {"idle", "done"}
  BY DEF Quiet, Serving, Stages, RequestsDone
<1>2. ~SubmitRegister(t) /\ ~SubmitStep(t)
  BY <1>1, RegisterFacts, SubmitFacts
<1>3. ~(CancelCheck(t) \/ CancelStep(t))
  BY <1>1, CancelFacts
<1> QED BY <1>2, <1>3

LEMMA SchedStops ==
    ASSUME RunStep, Types, sched' = "exit"
    PROVE  (UNCHANGED <<sched, ready, cur>> \/ SchedStep) /\ (SchedStep => (ready' = {} /\ cur' = None) \/ sched = "exit")
<1>1. ASSUME NEW u \in Task, SubmitRegister(u) \/ SubmitStep(u) \/ CancelCheck(u) \/ CancelStep(u) PROVE UNCHANGED <<sched, ready, cur>>
  BY <1>1, RegisterFacts, SubmitFacts, CancelFacts
<1>2. ASSUME NEW w \in Worker, WorkerStep(w) PROVE UNCHANGED <<sched, ready, cur>>
  BY <1>2, WorkerFrame
<1>3. ASSUME CkptBegin \/ CkptStep \/ CkptExit \/ StopSteps PROVE UNCHANGED <<sched, ready, cur>>
  BY <1>3, CkptFrame, StopFacts
<1>4. ASSUME SchedStep PROVE (ready' = {} /\ cur' = None) \/ sched = "exit"
  BY <1>4 DEF SchedStep, SchedPromote, SchedCheck, SchedEnqueue, SchedExit
<1> QED BY <1>1, <1>2, <1>3, <1>4 DEF RunStep

\* In the last stage only the checkpoint moves.
LEMMA OnlyCheckpoint ==
    ASSUME Quiet, Stages, phase = "final", Types, RunStep
    PROVE  CkptBegin \/ CkptStep \/ CkptExit
<1>1. WorkersStopped /\ sched = "exit" /\ ready = {} /\ cur = None
  BY DEF Stages
<1>2. ~SchedStep
  BY <1>1, SchedFacts
<1>3. \A w \in Worker : ~WorkerStep(w)
  BY <1>1, WorkerFrame DEF WorkersStopped
<1>4. ~StopSteps
  BY StopFacts
<1> QED BY <1>2, <1>3, <1>4, ClientsGone DEF RunStep

LEMMA RunStages == ASSUME Types, Quiet, Stages, RunStep PROVE Stages'
<1>1. sched' = "exit" => ready' = {} /\ cur' = None
  BY SchedStops, SchedFacts DEF Stages
<1>2. CASE StopSteps
  <2>1. UNCHANGED <<spc, cpc, wpc, sched>>
    BY <1>2, StopFacts
  <2>2. phase' \in {"cancel", "stop", "final"} => RequestsDone
    BY <1>2, StopFacts DEF Stages, Quiet
  <2>3. phase' = "final" => WorkersStopped /\ sched = "exit"
    BY <1>2, StopFacts
  <2> QED BY <1>1, <2>1, <2>2, <2>3 DEF Stages, RequestsDone, WorkersStopped
<1>3. CASE ~StopSteps
  <2>1. ASSUME NEW u \in Task, SubmitRegister(u) \/ SubmitStep(u) \/ CancelCheck(u) \/ CancelStep(u) PROVE UNCHANGED phase
    BY <2>1, RegisterFacts, SubmitFacts, CancelFacts
  <2>2. ASSUME NEW w \in Worker, WorkerStep(w) PROVE UNCHANGED <<phase, spc, cpc>>
    BY <2>2, WorkerFrame
  <2>3. ASSUME SchedStep \/ CkptBegin \/ CkptStep \/ CkptExit PROVE UNCHANGED <<phase, spc, cpc, wpc>>
    BY <2>3, SchedFacts, CkptFrame
  <2>4. phase' = phase
    BY <1>3, <2>1, <2>2, <2>3 DEF RunStep
  <2>5. ASSUME phase \in {"cancel", "stop", "final"} PROVE RequestsDone'
    <3>1. UNCHANGED <<spc, cpc>>
      BY <1>3, <2>2, <2>3, <2>5, ClientsGone DEF RunStep
    <3> QED BY <2>5, <3>1 DEF Stages, RequestsDone
  <2>6. ASSUME phase = "final" PROVE WorkersStopped' /\ sched' = "exit"
    <3>1. UNCHANGED <<wpc, sched>>
      BY <2>6, OnlyCheckpoint, CkptFrame
    <3> QED BY <2>6, <3>1 DEF Stages, WorkersStopped
  <2> QED BY <1>1, <2>4, <2>5, <2>6 DEF Stages
<1> QED BY <1>2, <1>3

LEMMA RunLastCheckpoint ==
    ASSUME Types, Quiet, NoneToSave, Stages, LastCheckpoint, RunStep
    PROVE  LastCheckpoint'
<1> SUFFICES ASSUME phase' = "final" PROVE LastCheckpoint'
  BY DEF LastCheckpoint
<1>1. CASE phase # "final"
  <2>1. ASSUME NEW u \in Task, SubmitRegister(u) \/ SubmitStep(u) \/ CancelCheck(u) \/ CancelStep(u) PROVE UNCHANGED phase
    BY <2>1, RegisterFacts, SubmitFacts, CancelFacts
  <2>2. ASSUME NEW w \in Worker, WorkerStep(w) PROVE UNCHANGED phase
    BY <2>2, WorkerFrame
  <2>3. ASSUME SchedStep \/ CkptBegin \/ CkptStep \/ CkptExit PROVE UNCHANGED phase
    BY <2>3, SchedFacts, CkptFrame
  <2>4. StopSteps
    BY <1>1, <2>1, <2>2, <2>3 DEF RunStep
  <2>5. kpc' = "idle"
    BY <1>1, <2>4, StopFacts
  <2> QED BY <2>5 DEF LastCheckpoint
<1>2. CASE phase = "final"
  <2>0. (CkptBegin \/ CkptStep \/ CkptExit) /\ UNCHANGED <<state, retries>> /\ ~IOFaults
    BY <1>2, OnlyCheckpoint, CkptFrame DEF Quiet
  <2>1. /\ kpc = "copy" => \A t \in Task \ ktodo : SavedIn(kcopy, t)
        /\ kpc = "write" => \A t \in Task : SavedIn(kcopy, t)
        /\ kpc \in {"close", "rename", "open", "exit"} => \A t \in Task : SavedIn(snap, t)
        /\ kpc \in {"open", "exit"} => wal = <<>>
    BY <1>2 DEF LastCheckpoint
  <2>2. CASE /\ kpc' = "copy" /\ ktodo' = Registered
             /\ \A t \in Task : kcopy'.st[t] = "absent" /\ kcopy'.rc[t] = 0
    <3>1. \A t \in Task \ Registered : state[t] = "absent" /\ retries[t] = 0
      BY DEF Registered, NoneToSave
    <3> QED BY <2>0, <2>2, <3>1 DEF LastCheckpoint, SavedIn
  <2>3. ASSUME kpc = "copy", kpc' = "copy", NEW t \in ktodo, ktodo' = ktodo \ {t},
               \A u \in Task : /\ kcopy'.st[u] = IF u = t THEN state[t] ELSE kcopy.st[u]
                               /\ kcopy'.rc[u] = IF u = t THEN retries[t] ELSE kcopy.rc[u]
        PROVE  LastCheckpoint'
    BY <2>0, <2>1, <2>3 DEF LastCheckpoint, SavedIn
  <2>4. CASE kpc = "copy" /\ kpc' = "write" /\ ktodo = {} /\ UNCHANGED kcopy
    BY <2>0, <2>1, <2>4 DEF LastCheckpoint, SavedIn
  <2>5. CASE kpc = "write" /\ kpc' = "close" /\ snap' = kcopy
    BY <2>0, <2>1, <2>5 DEF LastCheckpoint, SavedIn
  <2>6. CASE kpc = "close" /\ kpc' = "rename" /\ UNCHANGED snap
    BY <2>0, <2>1, <2>6 DEF LastCheckpoint, SavedIn
  <2>7. CASE kpc = "rename" /\ kpc' = "open" /\ wal' = <<>> /\ UNCHANGED snap
    BY <2>0, <2>1, <2>7 DEF LastCheckpoint, SavedIn
  <2>8. CASE kpc = "open" /\ kpc' = (IF phase = "final" THEN "exit" ELSE "idle") /\ UNCHANGED <<wal, snap>>
    BY <2>0, <2>1, <2>8 DEF LastCheckpoint, SavedIn
  <2> QED BY <1>2, <2>0, <2>2, <2>3, <2>4, <2>5, <2>6, <2>7, <2>8, CkptFacts
<1> QED BY <1>1, <1>2

Stopping == NoneToSave /\ (Quiet => Stages /\ LastCheckpoint)

LEMMA NextStopping == Types /\ Types' /\ Own /\ Kept /\ Known /\ Stopping /\ [Next]_vars => Stopping'
<1> SUFFICES ASSUME Types, Types', Own, Kept, Known, Stopping, [Next]_vars PROVE Stopping'
  OBVIOUS
<1>1. CASE UNCHANGED vars
  <2>1. UNCHANGED <<wal, snap, kpc, kcopy, ktodo, spc, cpc, wpc, sched, ready, cur, state, retries, phase>>
    BY <1>1 DEF vars, disk, ckpt, clients, registry, workers, scheduler, process
  <2> QED BY <2>1 DEF Stopping, NoneToSave, Stages, LastCheckpoint, SavedIn, New, RequestsDone, WorkersStopped
<1>2. CASE RunStep
  BY <1>2, RunNoneToSave, RunStages, RunLastCheckpoint DEF Stopping
<1>3. CASE RecoverStep
  <2>1. UNCHANGED <<ready, cur>> /\ ready = {} /\ cur = None
    BY <1>3, RecoverFrame DEF Own, BootAlone
  <2>2. phase' \in {"replay", "rebuild", "up"}
    BY <1>3, LoadFacts, ReplayFacts, OpenFacts, RebuildFacts, StartFacts DEF RecoverStep
  <2> QED BY <1>3, <2>1, <2>2, RecoverNoneToSave DEF Stopping, Stages, LastCheckpoint
<1>4. CASE Crash \/ ShutdownReturns
  <2>1. /\ UNCHANGED snap /\ phase' = "down" /\ ready' = {} /\ cur' = None /\ kcopy' = NoSnapshot
        /\ \A t \in Task : retries'[t] = 0
    BY <1>4, EndFacts
  <2>2. \A t \in Task : NoSnapshot.rc[t] = 0
    BY DEF NoSnapshot
  <2> QED BY <2>1, <2>2 DEF Stopping, NoneToSave, Stages, LastCheckpoint
<1> QED BY <1>1, <1>2, <1>3, <1>4, Kinds

LEMMA AlwaysStopping == Spec => []Stopping
<1>1. Init => Stopping
  <2> SUFFICES ASSUME Init PROVE Stopping
    OBVIOUS
  <2>1. /\ snap = NoSnapshot /\ kcopy = NoSnapshot /\ phase = "down" /\ ready = {} /\ cur = None
        /\ \A t \in Task : retries[t] = 0
    BY DEF Init
  <2>2. \A t \in Task : NoSnapshot.rc[t] = 0
    BY DEF NoSnapshot
  <2> QED BY <2>1, <2>2 DEF Stopping, NoneToSave, Stages, LastCheckpoint
<1>2. Types /\ Types' /\ Own /\ Kept /\ Known /\ Stopping /\ [Next]_vars => Stopping'
  BY NextStopping
<1> QED BY <1>1, <1>2, AlwaysTypes, AlwaysOwn, AlwaysKept, AlwaysKnown, PTL DEF Spec

\* A shutdown in which no timeout expires and no file operation fails leaves
\* the registry in the snapshot, task by task and retry by retry, and an empty
\* log, whatever was running when the signal came.
THEOREM EngineCleanStopSaves == Spec => [](Quiet => CleanStopSaves)
<1>1. ASSUME Types, Stages, LastCheckpoint, phase = "final", kpc = "exit" PROVE wal = <<>> /\ snap.st = state /\ snap.rc = retries
  <2>1. wal = <<>> /\ \A t \in Task : snap.st[t] = state[t] /\ snap.rc[t] = retries[t]
    BY <1>1 DEF LastCheckpoint, SavedIn
  <2>2. /\ snap.st \in [Task -> TaskState \cup {"absent"}] /\ snap.rc \in [Task -> Nat]
        /\ state \in [Task -> TaskState \cup {"absent"}] /\ retries \in [Task -> Nat]
    BY <1>1 DEF Types, DiskTypes, RegistryTypes, Snapshot
  <2> QED BY SMTT(30), <2>1, <2>2
<1>2. Types /\ Stopping => (Quiet => CleanStopSaves)
  BY <1>1 DEF Stopping, CleanStopSaves
<1> QED BY <1>2, AlwaysTypes, AlwaysStopping, PTL

-----------------------------------------------------------------------------
(* No waiting task is forgotten *)

\* Nobody cancels, and the queue makes callers wait or has room for any number of
\* different tasks.
Roomy == /\ Cancellable = {}
         /\ Policy # "reject" \/ \A s \in Seq(Task) : IsInjective(s) => Len(s) <= Capacity

\* Enqueue then fails only when the queue is closed.
LEMMA RoomForOneMore ==
    ASSUME Types, Own, Roomy, NEW t \in Task, t \notin Range(buffer), EnqueueErr
    PROVE  BufClosed
<1> SUFFICES ASSUME \A s \in Seq(Task) : IsInjective(s) => Len(s) <= Capacity, ~HasRoom PROVE FALSE
  BY DEF EnqueueErr, Roomy
<1>1. buffer \in Seq(Task) /\ IsInjective(buffer)
  BY DEF Types, QueueTypes, Own, Exclusive
<1>2. Append(buffer, t) \in Seq(Task) /\ IsInjective(Append(buffer, t)) /\ Len(Append(buffer, t)) = Len(buffer) + 1
  BY <1>1, AppendFacts
<1>3. Len(buffer) + 1 <= Capacity
  BY <1>2
<1>4. Len(buffer) \in Nat /\ Capacity \in Nat
  BY SMTT(30), <1>1, NumbersAssumption
<1> QED BY SMTT(30), <1>3, <1>4 DEF HasRoom

\* How a task can leave everybody's hands.
Dropped(t) ==
    \/ state'[t] = "absent"
    \/ spc[t] = "enq" /\ EnqueueErr
    \/ \E w \in Worker : WorkerLog(w) /\ wtask[w] = t /\ wres[w] # "retry"
    \/ \E u \in Task : CancelStep(u)
    \/ state'[t] \in {"Cancelled", "Expired"}
    \/ BufClosed

LEMMA SubmitDrops ==
    ASSUME Types, Own, NEW u \in Task, SubmitRegister(u) \/ SubmitStep(u), NEW t \in Task, Has(t), ~Has(t)'
    PROVE  Dropped(t)
<1>0. UNCHANGED <<ready, cur, wpc, wtask>> /\ \A x \in Task \ {u} : spc'[x] = spc[x]
  BY RegisterFacts, SubmitFacts
<1>1. /\ \A x \in Task : x \in heap => x \in heap'
      /\ \A x \in Task : x \in Range(buffer) => x \in Range(buffer')
  <2>1. (buffer' = buffer \/ buffer' = Append(buffer, u)) /\ heap \subseteq heap'
    BY RegisterFacts, SubmitFacts
  <2>2. Range(Append(buffer, u)) = Range(buffer) \cup {u}
    BY PlaceTypes, AppendFacts
  <2> QED BY <2>1, <2>2
<1>2. (Queued(t) => Queued(t)') /\ \A w \in Worker : Holds(w, t) => Holds(w, t)'
  BY <1>0, <1>1 DEF Queued, Holds
<1>3. t = u /\ spc[t] \in InFlight /\ spc'[t] \notin InFlight /\ ~Queued(t)'
  BY <1>0, <1>2 DEF Has
<1>4. SubmitStep(t)
  BY <1>3, RegisterFacts DEF InFlight
<1>5. ASSUME spc'[t] = "acked" PROVE FALSE
  <2>1. heap' = heap \cup {t} \/ buffer' = Append(buffer, t)
    BY <1>4, <1>5, SubmitFacts
  <2>2. Range(Append(buffer, t)) = Range(buffer) \cup {t}
    BY PlaceTypes, AppendFacts
  <2>3. t \in heap' \/ t \in Range(buffer')
    BY <2>1, <2>2
  <2> QED BY <1>3, <2>3 DEF Queued
<1>6. state'[t] = "absent" \/ (spc[t] = "enq" /\ EnqueueErr)
  BY <1>3, <1>4, <1>5, SubmitFacts DEF InFlight
<1> QED BY <1>6 DEF Dropped

LEMMA WorkerDrops ==
    ASSUME Types, Own, NEW w \in Worker, WorkerStep(w), NEW t \in Task, Has(t), ~Has(t)'
    PROVE  Dropped(t)
<1>0. /\ UNCHANGED <<spc, ready, cur>>
      /\ \A v \in Worker \ {w} : wpc'[v] = wpc[v] /\ wtask'[v] = wtask[v]
  BY WorkerFrame
<1>1. \A v \in Worker : ~Holds(v, t)'
  BY DEF Has
<1>2. t \notin Range(buffer') /\ t \notin heap'
  BY DEF Has, Queued
<1>3. t \in Range(buffer) \/ t \in heap \/ Holds(w, t)
  <2>1. \A v \in Worker \ {w} : ~Holds(v, t)
    BY <1>0, <1>1 DEF Holds
  <2>2. spc[t] \notin InFlight /\ t \notin ready /\ t # cur
    BY <1>0 DEF Has, Queued
  <2> QED BY <2>1, <2>2 DEF Has, Queued
<1>4. CASE WorkerLoop(w) \/ WorkerDequeue(w) \/ WorkerExec(w) \/ WorkerPush(w) \/ WorkerPost(w)
  <2>1. CASE UNCHANGED <<buffer, heap, wtask>> /\ (wpc[w] \in Holding => wpc'[w] \in Holding)
    BY <1>1, <1>2, <1>3, <2>1 DEF Holds
  <2>2. CASE /\ wpc[w] = "deq" /\ wpc'[w] = "got" /\ wtask'[w] = Head(buffer) /\ buffer # <<>>
             /\ buffer' = Tail(buffer) /\ UNCHANGED heap
    <3>1. Range(buffer) = Range(Tail(buffer)) \cup {Head(buffer)}
      BY <2>2, PlaceTypes, TailFacts
    <3> QED BY <1>1, <1>2, <1>3, <2>2, <3>1 DEF Holds, Holding
  <2>3. CASE wpc[w] = "push" /\ wpc'[w] = "post" /\ heap' = heap \cup {wtask[w]} /\ UNCHANGED <<wtask, buffer>>
    BY <1>2, <1>3, <2>3 DEF Holds
  <2>4. CASE wpc[w] = "post" /\ UNCHANGED <<buffer, heap>>
    BY <1>2, <1>3, <2>4 DEF Holds, Holding
  <2> QED BY <1>4, <2>1, <2>2, <2>3, <2>4, WorkerIdleFacts DEF Holding
<1>5. CASE WorkerMark(w) \/ WorkerStart(w) \/ WorkerLogStart(w) \/ WorkerSettle(w)
  <2>1. UNCHANGED <<buffer, heap, wtask>> /\ wpc'[w] \in Holding
    BY <1>5, WorkerMarkFacts, WorkerLogStartFacts, WorkerSettleFacts DEF Holding
  <2> QED BY <1>1, <1>2, <1>3, <2>1 DEF Holds
<1>6. CASE WorkerLog(w)
  <2>1. UNCHANGED <<buffer, heap, wtask>> /\ (wres[w] = "retry" => wpc'[w] \in Holding)
    BY <1>6, WorkerLogFacts DEF Holding
  <2> QED BY <1>1, <1>2, <1>3, <1>6, <2>1 DEF Holds, Dropped
<1>7. CASE WorkerForce(w)
  <2>1. UNCHANGED <<buffer, heap>> /\ wpc[w] = "force"
    BY <1>7, WorkerForceFacts
  <2> QED BY <1>2, <1>3, <2>1 DEF Holds, Holding
<1> QED BY <1>4, <1>5, <1>6, <1>7 DEF WorkerStep

LEMMA SchedDrops ==
    ASSUME Types, Own, SchedStep, NEW t \in Task, Has(t), ~Has(t)'
    PROVE  Dropped(t)
<1>0. UNCHANGED <<spc, wpc, wtask>>
  BY SchedFacts
<1>1. Queued(t) /\ ~Queued(t)'
  BY <1>0 DEF Has, Holds
<1>2. CASE SchedPromote
  <2>1. PICK due \in SUBSET heap : heap' = heap \ due /\ ready' = due
    BY <1>2 DEF SchedPromote
  <2>2. UNCHANGED <<buffer, cur>> /\ ready = {}
    BY <1>2 DEF SchedPromote
  <2> QED BY <1>1, <2>1, <2>2 DEF Queued
<1>3. CASE SchedCheck
  <2>1. UNCHANGED <<buffer, heap>> /\ cur = None
    BY <1>3 DEF SchedCheck, queues
  <2>2. PICK u \in ready : /\ ready' = ready \ {u}
                           /\ \/ state[u] = "Cancelled" /\ UNCHANGED state
                              \/ state' = [state EXCEPT ![u] = "Expired"]
                              \/ cur' = u
    BY <1>3 DEF SchedCheck
  <2>3. t = u /\ cur' # u
    BY <1>1, <2>1, <2>2, PlaceTypes DEF Queued
  <2>4. state \in [Task -> TaskState \cup {"absent"}]
    BY DEF Types, RegistryTypes
  <2> QED BY <2>2, <2>3, <2>4 DEF Dropped
<1>4. CASE SchedEnqueue
  <2>1. CASE buffer' = Append(buffer, cur) /\ UNCHANGED <<heap, ready>> /\ cur # None
    <3>1. Range(buffer') = Range(buffer) \cup {cur}
      BY SMTT(30), <2>1, PlaceTypes, AppendFacts
    <3> QED BY <1>1, <2>1, <3>1 DEF Queued
  <2>2. CASE heap' = heap \cup {cur} /\ UNCHANGED <<buffer, ready>>
    BY <1>1, <2>2 DEF Queued
  <2>3. CASE BufClosed
    BY <2>3 DEF Dropped
  <2> QED BY <1>4, <2>1, <2>2, <2>3 DEF SchedEnqueue
<1>5. CASE SchedExit
  <2>1. UNCHANGED <<buffer, heap, ready, cur>>
    BY <1>5 DEF SchedExit, queues
  <2> QED BY <1>1, <2>1 DEF Queued
<1> QED BY <1>2, <1>3, <1>4, <1>5 DEF SchedStep

LEMMA RunDrops ==
    ASSUME Types, Own, RunStep, NEW t \in Task, Has(t), ~Has(t)'
    PROVE  Dropped(t)
<1>1. ASSUME NEW u \in Task, CancelCheck(u) \/ CancelStep(u) PROVE Dropped(t)
  <2>1. CASE CancelStep(u)
    BY <2>1 DEF Dropped
  <2>2. CASE CancelCheck(u)
    <3>1. UNCHANGED <<spc, buffer, heap, ready, cur, wpc, wtask>>
      BY <2>2 DEF CancelCheck, queues, scheduler, workers
    <3> QED BY <3>1 DEF Has, Queued, Holds
  <2> QED BY <1>1, <2>1, <2>2
<1>2. ASSUME CkptBegin \/ CkptStep \/ CkptExit \/ StopSteps PROVE FALSE
  <2>1. UNCHANGED <<spc, buffer, heap, ready, cur, wpc, wtask>>
    BY <1>2, CkptFrame, StopFacts
  <2> QED BY <2>1 DEF Has, Queued, Holds
<1> QED BY <1>1, <1>2, SubmitDrops, WorkerDrops, SchedDrops DEF RunStep

\* Somebody has every task that waits, or rebuildQueues is about to place it; a
\* worker that lets go of a task has settled it.
Orphans ==
    /\ \A t \in Task : cpc[t] = "idle"
    /\ \A w \in Worker, t \in Task : wpc[w] = "log" /\ wtask[w] = t /\ wres[w] # "retry" => state[t] \notin {"Pending", "Scheduled"}
    /\ phase \in {"rebuild", "up", "drain"} =>
         \A t \in Task : state[t] \in {"Pending", "Scheduled"} => Has(t) \/ (phase = "rebuild" /\ t \in rtodo)

LEMMA RunOrphans ==
    ASSUME Types, Types', Own, BootQuiet, Orphans, RunStep, Roomy
    PROVE  Orphans'
<1>0. ~Booting /\ ~Booting' /\ UNCHANGED rtodo
  BY RunStepAwake
<1>1. \A t \in Task : cpc'[t] = "idle"
  <2>1. ASSUME NEW u \in Task, CancelCheck(u) \/ CancelStep(u) PROVE FALSE
    BY <2>1, CancelFacts DEF Orphans, Roomy
  <2>2. ASSUME NEW u \in Task, SubmitRegister(u) \/ SubmitStep(u) PROVE UNCHANGED cpc
    BY <2>2, RegisterFacts, SubmitFacts
  <2>3. ASSUME NEW w \in Worker, WorkerStep(w) PROVE UNCHANGED cpc
    BY <2>3, WorkerFrame
  <2>4. ASSUME SchedStep \/ CkptBegin \/ CkptStep \/ CkptExit \/ StopSteps PROVE UNCHANGED cpc
    BY <2>4, SchedFacts, CkptFrame, StopFacts
  <2> QED BY <2>1, <2>2, <2>3, <2>4 DEF RunStep, Orphans
<1>2. ASSUME NEW w \in Worker, NEW t \in Task, wpc'[w] = "log", wtask'[w] = t, wres'[w] # "retry"
      PROVE  state'[t] \notin {"Pending", "Scheduled"}
  <2>1. CASE WorkerSettle(w)
    BY <1>2, <2>1, WorkerSettleFacts
  <2>2. CASE wpc[w] = "log" /\ wres'[w] = wres[w] /\ wtask'[w] = wtask[w]
    <3>1. wtask[w] = t /\ Holds(w, t) /\ t \notin New /\ state[t] \notin {"Pending", "Scheduled"}
      BY <1>2, <2>2, PlaceTypes DEF Orphans, Holds, Holding, Own, UnknownInMemory
    <3>2. ~Queued(t) /\ \A v \in Worker : Holds(v, t) => wpc[v] = "log"
      BY <2>2, <3>1 DEF Own, Exclusive
    <3>3. ~SubmitRegister(t)
      BY <3>1, RegisterFacts
    <3> QED BY <3>1, <3>2, <3>3, StateMoves
  <2> QED BY <1>2, <2>1, <2>2, AtLog
<1>3. ASSUME phase' \in {"rebuild", "up", "drain"}, NEW t \in Task, state'[t] \in {"Pending", "Scheduled"}, ~Has(t)'
      PROVE  FALSE
  <2>1. phase \in {"up", "drain"}
    BY <1>0, <1>3, PhaseMoves DEF Booting
  <2>2. ~BufClosed
    BY <2>1 DEF BufClosed
  <2>3. Has(t)
    <3>1. CASE state'[t] = state[t]
      BY <1>3, <2>1, <3>1 DEF Orphans
    <3>2. CASE state'[t] # state[t]
      <4>1. ~(SubmitRegister(t) /\ spc'[t] = "marshal")
        BY <1>3 DEF Has, InFlight
      <4> QED BY <1>3, <3>2, <4>1, StateMoves DEF Has
    <3> QED BY <3>1, <3>2
  <2>4. Dropped(t)
    BY <1>3, <2>3, RunDrops
  <2>5. ~(spc[t] = "enq" /\ EnqueueErr)
    <3>1. spc[t] = "enq" => t \notin Range(buffer)
      BY DEF Own, Exclusive, Queued, InFlight
    <3> QED BY <2>2, <3>1, RoomForOneMore
  <2>6. ASSUME NEW w \in Worker, WorkerLog(w), wtask[w] = t, wres[w] # "retry" PROVE FALSE
    <3>1. wpc[w] = "log" /\ state' = state
      BY <2>6, WorkerLogFacts
    <3> QED BY <1>3, <2>6, <3>1 DEF Orphans
  <2>7. ASSUME NEW u \in Task, CancelStep(u) PROVE FALSE
    BY <2>7, CancelFacts DEF Orphans, Roomy
  <2> QED BY <1>3, <2>2, <2>4, <2>5, <2>6, <2>7 DEF Dropped
<1> QED BY <1>1, <1>2, <1>3 DEF Orphans

LEMMA RecoverOrphans ==
    ASSUME Types, Own, Orphans, RecoverStep, Roomy
    PROVE  Orphans'
<1>1. UNCHANGED <<cpc, spc, ready, cur>> /\ Booting /\ \A w \in Worker : wpc[w] = "exit"
  BY RecoverFrame DEF Own, BootAlone
<1>2. \A w \in Worker : wpc'[w] \in {"exit", "loop"} /\ \A t \in Task : ~Holds(w, t)
  BY <1>1, LoadFacts, ReplayFacts, OpenFacts, RebuildFacts, StartFacts DEF RecoverStep, Holds, Holding
<1>3. CASE LoadSnapshot \/ ReplayEntry
  BY <1>1, <1>2, <1>3, LoadFacts, ReplayFacts DEF Orphans
<1>4. CASE OpenWAL
  <2>1. phase' = "rebuild" /\ rtodo' = Registered /\ UNCHANGED state
    BY <1>4, OpenFacts
  <2>2. \A t \in Task : state[t] \in {"Pending", "Scheduled"} => t \in Registered
    BY DEF Registered
  <2> QED BY <1>1, <1>2, <2>1, <2>2 DEF Orphans
<1>5. ASSUME NEW u \in Task, RebuildTask(u) PROVE Orphans'
  <2>1. ASSUME NEW t \in Task \ {u}, state'[t] \in {"Pending", "Scheduled"} PROVE Has(t)' \/ t \in rtodo'
    <3>1. Has(t) \/ t \in rtodo
      BY <1>5, <2>1, RebuildFacts DEF Orphans
    <3>2. rtodo' = rtodo \ {u} /\ heap \subseteq heap' /\ (buffer' = buffer \/ buffer' = Append(buffer, u))
      BY <1>5, RebuildFacts
    <3>3. Range(Append(buffer, u)) = Range(buffer) \cup {u}
      BY PlaceTypes, AppendFacts
    <3>4. Has(t) => Has(t)'
      BY <1>1, <1>2, <3>2, <3>3 DEF Has, Queued
    <3> QED BY <3>1, <3>2, <3>4
  <2>2. ASSUME state'[u] \in {"Pending", "Scheduled"} PROVE Has(u)'
    <3>1. u \in rtodo /\ phase = "rebuild"
      BY <1>5, RebuildFacts
    <3>2. u \notin Range(buffer) /\ ~BufClosed
      BY <3>1 DEF Own, BootAlone, Booting, BufClosed
    <3>3. ~EnqueueErr
      BY <3>2, RoomForOneMore
    <3>4. heap' = heap \cup {u} \/ buffer' = Append(buffer, u)
      BY <1>5, <2>2, <3>3, RebuildFacts
    <3>5. Range(Append(buffer, u)) = Range(buffer) \cup {u}
      BY PlaceTypes, AppendFacts
    <3>6. u \in heap' \/ u \in Range(buffer')
      BY <3>4, <3>5
    <3> QED BY <3>6 DEF Has, Queued
  <2>3. phase' = "rebuild"
    BY <1>5, RebuildFacts
  <2> QED BY <1>1, <1>2, <2>1, <2>2, <2>3 DEF Orphans
<1>6. CASE Start
  <2>1. phase = "rebuild" /\ rtodo = {} /\ UNCHANGED <<state, buffer, heap>>
    BY <1>6, StartFacts
  <2>2. \A t \in Task : state'[t] \in {"Pending", "Scheduled"} => Has(t)
    BY <2>1 DEF Orphans
  <2>3. \A t \in Task : Has(t) => Has(t)'
    BY <1>1, <1>2, <2>1 DEF Has, Queued
  <2> QED BY <1>1, <1>2, <2>2, <2>3 DEF Orphans
<1> QED BY <1>3, <1>4, <1>5, <1>6 DEF RecoverStep

LEMMA NextOrphans == Types /\ Types' /\ Own /\ Kept /\ (Roomy => Orphans) /\ [Next]_vars => (Roomy' => Orphans')
<1> SUFFICES ASSUME Types, Types', Own, Kept, Roomy, Orphans, [Next]_vars PROVE Orphans'
  BY DEF Roomy
<1>1. CASE UNCHANGED vars
  <2>1. UNCHANGED <<cpc, wpc, wtask, wres, state, phase, rtodo, spc, buffer, heap, ready, cur>>
    BY <1>1 DEF vars, clients, registry, workers, scheduler, process, queues
  <2> QED BY <2>1 DEF Orphans, Has, Queued, Holds
<1>2. CASE RunStep
  BY <1>2, RunOrphans DEF Kept
<1>3. CASE RecoverStep
  BY <1>3, RecoverOrphans
<1>4. CASE Crash \/ ShutdownReturns
  <2>1. phase' = "down" /\ (\A t \in Task : cpc'[t] = "idle") /\ \A w \in Worker : wpc'[w] = "exit"
    BY <1>4, EndFacts
  <2> QED BY <2>1 DEF Orphans
<1> QED BY <1>1, <1>2, <1>3, <1>4, Kinds

LEMMA AlwaysOrphans == Spec => [](Roomy => Orphans)
<1>1. Init => (Roomy => Orphans)
  BY DEF Init, Orphans
<1> QED BY <1>1, NextOrphans, AlwaysTypes, AlwaysOwn, AlwaysKept, PTL DEF Spec

\* When nobody cancels and the queue never turns a task away, every task that
\* waits is held by a request, a queue, the scheduler or a worker, through
\* crashes, restarts and checkpoints.
THEOREM EngineNoOrphan == Spec => [](Roomy => NoOrphan)
<1>1. Types /\ (Roomy => Orphans) => (Roomy => NoOrphan)
  <2> SUFFICES ASSUME Types, Roomy, Orphans, phase \in {"up", "drain"}, NEW t \in Task, state[t] \in {"Pending", "Scheduled"}
               PROVE  t \in Owned
    BY DEF NoOrphan
  <2> QED BY OwnedIsHas DEF Orphans
<1> QED BY <1>1, AlwaysTypes, AlwaysOrphans, PTL

===============================================================================
