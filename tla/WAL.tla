---------------------------------- MODULE WAL ----------------------------------
(***************************************************************************)
(* internal/wal at file level, with the rotation and the recovery the      *)
(* engine drives it through.  Bytes are counted in cells, the three reads  *)
(* Replay makes of a record: magic, length, body.  A cell goes from bufio's *)
(* buffer to the page cache and from there to the disk.                    *)
(*                                                                         *)
(* w.mu makes each call of the log atomic for other goroutines but not for *)
(* a crash, so a call has a step for each thing it does to the file.  What *)
(* goroutines do between calls is the subject of Engine.                   *)
(***************************************************************************)
EXTENDS Integers, Sequences, Functions

CONSTANTS Policies,      \* the values of wal.sync_policy to consider
          BufSize,       \* capacity of bufio's buffer, in cells
          IOFaults,      \* write and fsync may fail
          MaxAppends,    \* bound on the number of Append calls
          MaxCrashes,    \* bound on kills and power failures
          MaxRotations   \* bound on rotations

ASSUME WALAssumption == /\ Policies \subseteq {"every", "batch", "none"}
                        /\ BufSize \in Nat /\ BufSize >= 3 /\ IOFaults \in BOOLEAN
                        /\ MaxAppends \in Nat /\ MaxCrashes \in Nat /\ MaxRotations \in Nat

VARIABLES
    policy,        \* WAL.policy
    file, synced,  \* the cells the kernel has of wal.bin; how many are on the disk
    buf, werr,     \* WAL.writer: its buffer and its sticky error
    seq, closed,   \* WAL.seq and WAL.closed
    pc,            \* what the open call does next
    call,          \* "append", "sync", "rotate", "stop" or "none"
    cerr,          \* Close has met an error
    phase,         \* "down", "up", or "refused": Recover returned an error
    issued,        \* Append calls so far; the n-th writes entry n
    acked,         \* entries whose Append returned nil since the last rotation
    crashes, rotations

object  == <<buf, werr, seq, closed, cerr>>
bounds  == <<crashes, rotations>>
vars == <<policy, file, synced, object, pc, call, phase, issued, acked, bounds>>

Part == <<"magic", "len", "body">>

\* encodeRecord.  val is what Replay checks of a cell: 1 for the right magic, the
\* cells the length announces for the body, 1 for a body that fits its checksum.
Frame(e, s) == [i \in 1 .. 3 |-> [part |-> Part[i], entry |-> e, seq |-> s, val |-> 1]]

Take(s, n) == SubSeq(s, 1, n)
Drop(s, n) == SubSeq(s, n + 1, Len(s))

-----------------------------------------------------------------------------
(* Replay *)

\* the cells that the length field at cell p announces, 0 for what is no such field
Announced(f, p) == IF f[p].part = "len" THEN f[p].val ELSE 0

\* The loop reads a record at cell p: magic, length, and the announced bytes are one
\* body that matches its checksum.
Reads(f, p) == /\ p + 2 <= Len(f)
               /\ f[p].part = "magic" /\ f[p].val = 1
               /\ Announced(f, p + 1) = 1
               /\ f[p + 2].part = "body" /\ f[p + 2].val = 1

\* (mutant) a bad checksum is always taken for a torn tail
BadChecksumTail(f, p, n) == FALSE

\* A checksum mismatch is a torn write at the end of the file, corruption before.
BadChecksum(f, p, n) == p + 1 + n < Len(f)

\* The record at cell p, which the loop does not read, makes Replay return an error;
\* one that the end of the file cuts short does not.
Corrupt(f, p) ==
    /\ p <= Len(f)
    /\ \/ f[p].part # "magic" \/ f[p].val # 1
       \/ /\ p < Len(f)
          /\ LET n == Announced(f, p + 1)
             IN  n = 0 \/ (p + 1 + n <= Len(f) /\ BadChecksum(f, p, n))

\* How often the loop goes round: up to the first record that it does not read.
\* What matches its checksum is three cells long, so the k-th starts at 3k - 2.
Rounds(f) == CHOOSE n \in 0 .. Len(f) :
                 ~Reads(f, 3 * n + 1) /\ \A k \in 1 .. n : Reads(f, 3 * k - 2)

\* (mutant) a record that cannot be read is skipped
ReplaySkips(f) ==
    LET read == SelectSeq([k \in 1 .. Len(f) \div 3 |-> 3 * k - 2], LAMBDA p : Reads(f, p))
    IN  [recs |-> [k \in DOMAIN read |-> [entry |-> f[read[k] + 2].entry, seq |-> f[read[k] + 2].seq]],
         end  |-> 3 * Len(read),
         err  |-> FALSE]

\* The records of file f, where the last valid one ends, and whether Replay
\* returns an error.
Replay(f) ==
    LET n == Rounds(f)
    IN  [recs |-> [k \in 1 .. n |-> [entry |-> f[3 * k].entry, seq |-> f[3 * k].seq]],
         end  |-> 3 * n,
         err  |-> Corrupt(f, 3 * n + 1)]

\* (mutant) the file is not repaired
RepairNothing(f) == f
\* (mutant) the file is cut where the last valid record starts
RepairToStart(f) == Take(f, IF Replay(f).end > 3 THEN Replay(f).end - 3 ELSE 0)

\* the truncation at the end of Replay
Repair(f) == Take(f, Replay(f).end)

-----------------------------------------------------------------------------
Init == /\ policy \in Policies
        /\ file = <<>> /\ synced = 0
        /\ buf = <<>> /\ werr = FALSE /\ seq = 0 /\ closed = TRUE /\ cerr = FALSE
        /\ pc = "idle" /\ call = "none" /\ phase = "down"
        /\ issued = 0 /\ acked = {} /\ crashes = 0 /\ rotations = 0

Ready == phase = "up" /\ pc = "idle"

\* the open call returns
Return == pc' = "idle" /\ call' = "none"

\* (mutant) the number of a record that could not be made durable is used again
FailsRollback == seq' = (IF call = "append" THEN seq - 1 ELSE seq) /\ UNCHANGED acked
\* (mutant) the error is dropped
FailsIgnored == acked' = (IF call = "append" THEN acked \cup {issued} ELSE acked) /\ UNCHANGED seq

\* Append rolls seq back when Write fails but not when Flush or Sync does.
Fails == UNCHANGED <<seq, acked>>

\* The cells that bufio.Writer.Write sends to the file: a buffer full when they do
\* not fit, which may split a record.
Spill(cells) == IF Len(cells) > BufSize THEN BufSize ELSE 0

\* Append up to Write; an error of the writer is sticky.
AppendWrite ==
    LET cells == buf \o Frame(issued + 1, seq + 1) IN
    /\ Ready /\ issued < MaxAppends
    /\ issued' = issued + 1
    /\ \/ /\ closed \/ werr
          /\ UNCHANGED <<file, object, pc, call, acked>>
       \/ /\ ~closed /\ ~werr
          /\ file' = file \o Take(cells, Spill(cells)) /\ buf' = Drop(cells, Spill(cells))
          /\ seq' = seq + 1
          /\ \/ policy = "every" /\ pc' = "flush" /\ call' = "append" /\ UNCHANGED acked
             \/ policy # "every" /\ acked' = acked \cup {issued'} /\ UNCHANGED <<pc, call>>
          /\ UNCHANGED <<werr, closed, cerr>>
       \/ /\ IOFaults /\ ~closed /\ ~werr
          /\ \E n \in 0 .. Spill(cells) - 1 :
               file' = file \o Take(cells, n) /\ buf' = Drop(Take(cells, BufSize), n)
          /\ werr' = TRUE
          /\ UNCHANGED <<seq, closed, cerr, pc, call, acked>>
    /\ UNCHANGED <<policy, synced, phase, bounds>>

\* Flush (no fsync) and Sync, which the engine does not call.
CallSync ==
    /\ Ready /\ ~closed /\ buf # <<>>
    /\ pc' = "flush" /\ call' \in {"flush", "sync"}
    /\ UNCHANGED <<policy, file, synced, object, phase, issued, acked, bounds>>

\* bufio.Writer.Flush, in Append, Flush, Sync and Close.  Close goes on after an
\* error, the others return it.
FlushStep ==
    /\ pc = "flush"
    /\ \/ /\ ~werr
          /\ file' = file \o buf /\ buf' = <<>>
          /\ IF call = "flush" THEN Return ELSE pc' = "fsync" /\ UNCHANGED call
          /\ UNCHANGED <<werr, seq, cerr, acked>>
       \/ /\ werr \/ (IOFaults /\ buf # <<>>)
          /\ werr' = TRUE
          /\ \E n \in IF werr THEN {0} ELSE 0 .. Len(buf) - 1 :
               file' = file \o Take(buf, n) /\ buf' = Drop(buf, n)
          /\ Fails
          /\ IF closed THEN pc' = "fsync" /\ cerr' = TRUE /\ UNCHANGED call
                       ELSE Return /\ UNCHANGED cerr
    /\ UNCHANGED <<policy, synced, closed, phase, issued, bounds>>

\* where Close goes on to: rotateWAL returns on an error, Shutdown returns anyway
AfterClose(err) == IF call = "rotate" /\ err THEN Return
                   ELSE pc' = (IF call = "rotate" THEN "rename" ELSE "exit") /\ UNCHANGED call

\* file.Sync, in Append, Sync and Close.
SyncStep ==
    /\ pc = "fsync"
    /\ \/ /\ synced' = Len(file)
          /\ acked' = IF call = "append" THEN acked \cup {issued} ELSE acked
          /\ IF closed THEN AfterClose(cerr) ELSE Return
          /\ UNCHANGED <<seq, cerr>>
       \/ /\ IOFaults
          /\ Fails
          /\ IF closed THEN AfterClose(TRUE) /\ cerr' = TRUE ELSE Return /\ UNCHANGED cerr
          /\ UNCHANGED synced
    /\ UNCHANGED <<policy, file, buf, werr, closed, phase, issued, bounds>>

\* (mutant) Close does not flush the buffer
CloseUnflushed(c) ==
    /\ closed' = TRUE /\ call' = c
    /\ pc' = IF closed THEN (IF c = "rotate" THEN "rename" ELSE "exit") ELSE "fsync"

\* Close: nothing to do when closed before, whatever came of that.
Close(c) ==
    /\ closed' = TRUE /\ call' = c
    /\ pc' = IF closed THEN (IF c = "rotate" THEN "rename" ELSE "exit") ELSE "flush"

\* rotateWAL, after the snapshot has been written
Rotate ==
    /\ Ready /\ rotations < MaxRotations
    /\ rotations' = rotations + 1
    /\ Close("rotate")
    /\ UNCHANGED <<policy, file, synced, buf, werr, seq, cerr, phase, issued, acked, crashes>>

\* wal.bin becomes wal.old; what it held is the snapshot's now
RotateRename ==
    /\ pc = "rename"
    /\ \/ file' = <<>> /\ synced' = 0 /\ acked' = {} /\ buf' = <<>> /\ pc' = "open" /\ UNCHANGED call
       \/ IOFaults /\ Return /\ UNCHANGED <<file, synced, acked, buf>>
    /\ UNCHANGED <<policy, werr, seq, closed, cerr, phase, issued, bounds>>

\* Open and SetSeq(old.LastSeq())
RotateOpen ==
    /\ pc = "open"
    /\ \/ closed' = FALSE /\ werr' = FALSE /\ cerr' = FALSE
       \/ IOFaults /\ UNCHANGED <<closed, werr, cerr>>
    /\ Return
    /\ UNCHANGED <<policy, file, synced, buf, seq, phase, issued, acked, bounds>>

\* The process ends: its memory is gone, the page cache is not.
Forget == /\ buf' = <<>> /\ werr' = FALSE /\ seq' = 0 /\ closed' = TRUE /\ cerr' = FALSE
          /\ Return /\ phase' = "down"
          /\ UNCHANGED <<policy, issued, acked, rotations>>

\* the last step of Shutdown
StopLog == Ready /\ Close("stop")
           /\ UNCHANGED <<policy, file, synced, buf, werr, seq, cerr, phase, issued, acked, bounds>>

Exit == pc = "exit" /\ Forget /\ UNCHANGED <<file, synced, crashes>>

Kill == /\ phase = "up" /\ crashes < MaxCrashes /\ crashes' = crashes + 1
        /\ Forget /\ UNCHANGED <<file, synced>>

\* Of what was not synced a prefix survives, and the last body may be garbled.
PowerFailure ==
    /\ crashes < MaxCrashes /\ crashes' = crashes + 1
    /\ \E n \in synced .. Len(file) :
         /\ \/ file' = Take(file, n)
            \/ n > synced /\ file[n].part = "body" /\ file' = [Take(file, n) EXCEPT ![n].val = 0]
         /\ synced' = n
    /\ Forget

\* Recover: Replay, Open, SetSeq(lastSeq) if lastSeq > 0.
Recover ==
    LET r == Replay(file) IN
    /\ phase = "down"
    /\ phase' = IF r.err THEN "refused" ELSE "up"
    /\ closed' = r.err
    /\ file' = IF r.err THEN file ELSE Repair(file)
    /\ synced' = IF synced > Len(file') THEN Len(file') ELSE synced
    /\ seq' = IF r.err \/ r.recs = <<>> THEN 0 ELSE r.recs[Len(r.recs)].seq
    /\ UNCHANGED <<policy, buf, werr, cerr, pc, call, issued, acked, bounds>>

Next == AppendWrite \/ CallSync \/ FlushStep \/ SyncStep \/ Rotate \/ RotateRename \/ RotateOpen
        \/ StopLog \/ Exit \/ Kill \/ PowerFailure \/ Recover

Spec == Init /\ [][Next]_vars

-----------------------------------------------------------------------------
\* the entries of the records that Replay reads
Entries(f) == [k \in 1 .. Rounds(f) |-> f[3 * k].entry]

\* sync_policy every: an entry whose Append returned nil is in the synced part of
\* the file, in a record that Replay returns, until a rotation hands it over to
\* the snapshot.  "a successful Append() call guarantees the record is durable".
AckedDurable == policy = "every" => acked \subseteq Range(Entries(Take(file, synced)))

\* Whatever the policy, and whatever crashes and I/O errors have done, the log is
\* an append-only sequence that loses suffixes only, never below what was synced.
Log == INSTANCE DurableLog WITH
           Entry <- 1 .. MaxAppends,
           log <- Entries(file \o buf),
           durable <- Len(Entries(Take(file, synced))),
           acked <- IF policy = "every" THEN acked ELSE {}
ImplementsLog == Log!Spec

\* The numbers of the records in the log increase strictly, through failed
\* appends and recoveries: Recover's filter on LastSeq depends on it.
SeqIncreasing == LET r == Replay(file \o buf).recs
                 IN  \A i, j \in DOMAIN r : i < j => r[i].seq < r[j].seq

\* A crash at any point leaves a file that Recover accepts.
NeverRefused == phase # "refused"

\* A log closed without error has everything on the disk, under every policy.
CloseKeepsAll == (pc \in {"rename", "exit"} /\ ~cerr) => buf = <<>> /\ synced = Len(file)

\* Damage to the magic or the body of any record but the last, while the process
\* is down, makes Replay return an error instead of the records it can still read.
DamageReported == phase = "down" =>
    \A p \in 1 .. 3 * (Len(Replay(file).recs) - 1) :
        file[p].part # "len" => Replay([file EXCEPT ![p].val = 0]).err

StartsWith(s, t) == Len(t) <= Len(s) /\ \A i \in DOMAIN t : t[i] = s[i]

\* Whatever a damaged length field says, Replay yields no record that was not
\* written, and none after a gap.
LengthNeverMisread == phase = "down" =>
    \A p \in DOMAIN file, n \in 0 .. 4 :
        file[p].part = "len" => StartsWith(Replay(file).recs, Replay([file EXCEPT ![p].val = n]).recs)
=================================================================================
