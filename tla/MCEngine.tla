-------------------------------- MODULE MCEngine --------------------------------
(* Engine with the small sets of tasks, keys and workers TLC explores. *)
EXTENDS Engine, TLC

CONSTANTS t1, t2, t3, k, w1, w2, none

OneTask    == {t1}
TwoTasks   == {t1, t2}
ThreeTasks == {t1, t2, t3}
OneWorker  == {w1}
TwoWorkers == {w1, w2}

NoKeys  == [t \in Task |-> None]
SameKey == [t \in Task |-> k]
PairKey == [t \in Task |-> IF t = t1 THEN None ELSE k]

JustT1  == {t1}
JustT2  == {t2}
Nobody  == {}

AllOutcomes == {"ok", "err", "fatal"}
OkErr       == {"ok", "err"}
OnlyErr     == {"err"}
OnlyOk      == {"ok"}

\* Tasks that differ only in their name are alike: t2 and t3 under PairKey, t1 and
\* t2 under SameKey; and so are workers.
PairSymmetry == Permutations({t2, t3})
TaskSymmetry == Permutations(TwoWorkers) \cup Permutations(TwoTasks)
=================================================================================
