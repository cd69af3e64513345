------------------------------ MODULE MCRingBuffer ------------------------------
(* RingBuffer with the small sets of goroutines and tasks TLC explores. *)
EXTENDS RingBuffer

CONSTANTS t1, t2, p1, p2, c1, c2, nil

TwoTasks == {t1, t2}
TwoProducers == {p1, p2}
TwoConsumers == {c1, c2}
=================================================================================
