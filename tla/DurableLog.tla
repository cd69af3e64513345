------------------------------- MODULE DurableLog -------------------------------
(***************************************************************************)
(* What internal/wal promises: a sequence of entries that only grows at    *)
(* its end.  A crash may cut off a suffix, but nothing below the durable   *)
(* mark; an entry is acknowledged only below that mark.  A rotation, which *)
(* its caller makes once a snapshot holds the entries, starts over.        *)
(***************************************************************************)
EXTENDS Naturals, Sequences, Functions

CONSTANT Entry

VARIABLES log, durable, acked

lvars == <<log, durable, acked>>

Init == log = <<>> /\ durable = 0 /\ acked = {}

Write(e) == log' = Append(log, e) /\ UNCHANGED <<durable, acked>>

Harden == /\ durable' \in durable .. Len(log)
          /\ acked' \in {acked} \cup {acked \cup {e} : e \in Range(SubSeq(log, 1, durable'))}
          /\ UNCHANGED log

Lose == /\ \E k \in durable .. Len(log) : log' = SubSeq(log, 1, k)
        /\ UNCHANGED <<durable, acked>>

\* a crash may also reveal that more had reached the disk than was known
Settle == /\ \E k \in durable .. Len(log) : log' = SubSeq(log, 1, k) /\ durable' = k
          /\ UNCHANGED acked

Reset == log' = <<>> /\ durable' = 0 /\ acked' = {}

Next == (\E e \in Entry : Write(e)) \/ Harden \/ Lose \/ Settle \/ Reset

Spec == Init /\ [][Next]_lvars
=================================================================================
