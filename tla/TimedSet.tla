-------------------------------- MODULE TimedSet --------------------------------
(***************************************************************************)
(* What the delayed heap promises to its callers: a set of tasks with      *)
(* deadlines.  out is what the last PromoteReady, Pop or Remove returned.  *)
(***************************************************************************)
EXTENDS Integers, SequencesExt

CONSTANTS Task, Time

VARIABLES held, due, out

tvars == <<held, due, out>>

Init == held = {} /\ due = [t \in Task |-> 0] /\ out = <<>>

Push(t, d) == /\ t \notin held
              /\ held' = held \cup {t} /\ due' = [due EXCEPT ![t] = d] /\ out' = <<>>

\* The tasks of S leave, earliest deadline first.
Leave(S) == /\ S \subseteq held /\ held' = held \ S
            /\ Range(out') = S /\ IsInjective(out')
            /\ \A i, j \in DOMAIN out' : i < j => due[out'[i]] <= due[out'[j]]
            /\ due' = [t \in Task |-> IF t \in S THEN 0 ELSE due[t]]

RemoveTask(t) == IF t \in held THEN Leave({t}) ELSE out' = <<>> /\ UNCHANGED <<held, due>>

PromoteReady(now) == Leave({t \in held : due[t] <= now})

Pop == \E t \in held : (\A u \in held : due[t] <= due[u]) /\ Leave({t})

Next == \/ \E t \in Task : (\E d \in Time : Push(t, d)) \/ RemoveTask(t)
        \/ \E now \in Time : PromoteReady(now)
        \/ Pop

Spec == Init /\ [][Next]_tvars
=================================================================================
