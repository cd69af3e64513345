----------------------------- MODULE MCDelayedHeap -----------------------------
(* DelayedHeap with six interchangeable tasks: the smallest heap in which Remove *)
(* has to sift up.                                                           *)
EXTENDS DelayedHeap

CONSTANTS t1, t2, t3, t4, t5, t6

SixTasks == {t1, t2, t3, t4, t5, t6}
Symmetry == Permutations(SixTasks)
=================================================================================
