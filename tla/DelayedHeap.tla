------------------------------ MODULE DelayedHeap ------------------------------
(***************************************************************************)
(* internal/queue/heap.go: an array kept in heap order by container/heap,  *)
(* each task knowing its place in it.  dh.mu makes each method one step.   *)
(***************************************************************************)
EXTENDS Integers, SequencesExt

CONSTANTS Task, Time,
          RemoveFresh   \* Remove is called for tasks that never were in the heap

ASSUME HeapAssumption == Time \subseteq Nat /\ RemoveFresh \in BOOLEAN

VARIABLES inner,       \* delayedHeapInner; position i + 1 for Go's index i
          heapIndex,   \* task.heapIndex; 0 before the first Push
          due,         \* task.ScheduledAt of the tasks in the heap
          out          \* the tasks that the last call took out

vars == <<inner, heapIndex, due, out>>

-----------------------------------------------------------------------------
(* container/heap on h = [arr, idx]; i, j and n are Go's indices and d the    *)
(* deadlines                                                               *)

Less(h, d, i, j) == d[h.arr[i + 1]] < d[h.arr[j + 1]]

\* (mutant) heapIndex is updated for one of the two tasks
SwapHalf(h, i, j) ==
    [arr |-> [h.arr EXCEPT ![i + 1] = h.arr[j + 1], ![j + 1] = h.arr[i + 1]],
     idx |-> [h.idx EXCEPT ![h.arr[j + 1]] = i]]

Swap(h, i, j) ==
    [arr |-> [h.arr EXCEPT ![i + 1] = h.arr[j + 1], ![j + 1] = h.arr[i + 1]],
     idx |-> [h.idx EXCEPT ![h.arr[j + 1]] = i, ![h.arr[i + 1]] = j]]

RECURSIVE Up(_, _, _)
Up(h, d, j) == LET i == (j - 1) \div 2
               IN  IF j = 0 \/ ~Less(h, d, j, i) THEN h ELSE Up(Swap(h, i, j), d, i)

\* the smaller child of i among the first n
Child(h, d, i, n) == LET l == 2 * i + 1
                     IN  IF l + 1 < n /\ Less(h, d, l + 1, l) THEN l + 1 ELSE l

RECURSIVE Down(_, _, _, _)
Down(h, d, i, n) ==
    LET c == Child(h, d, i, n)
    IN  IF 2 * i + 1 >= n \/ ~Less(h, d, c, i) THEN h ELSE Down(Swap(h, i, c), d, c, n)

\* delayedHeapInner.Pop: the last task leaves
DropLast(h) == [arr |-> Front(h.arr), idx |-> [h.idx EXCEPT ![Last(h.arr)] = -1]]

\* delayedHeapInner.Push, then up
HeapPush(h, d, t) == Up([arr |-> Append(h.arr, t), idx |-> [h.idx EXCEPT ![t] = Len(h.arr)]], d, Len(h.arr))

HeapPop(h, d) == LET n == Len(h.arr) - 1 IN DropLast(Down(Swap(h, 0, n), d, 0, n))

\* (mutant) the task moved into the hole is sifted down only
HeapRemoveDown(h, d, i) == LET n == Len(h.arr) - 1 IN DropLast(Down(Swap(h, i, n), d, i, n))

\* heap.Remove: the last task moves into the hole and is sifted down, or else up.
HeapRemove(h, d, i) ==
    LET n     == Len(h.arr) - 1
        moved == Swap(h, i, n)
        down  == Down(moved, d, i, n)
    IN  DropLast(IF n = i THEN h ELSE IF down = moved THEN Up(moved, d, i) ELSE down)

\* the loop of PromoteReady
RECURSIVE PopReady(_, _, _)
PopReady(h, done, now) ==
    IF (IF h.arr = <<>> THEN TRUE ELSE due[h.arr[1]] > now) THEN [heap |-> h, ready |-> done]
    ELSE PopReady(HeapPop(h, due), Append(done, h.arr[1]), now)

-----------------------------------------------------------------------------
Heap == [arr |-> inner, idx |-> heapIndex]

\* the heap becomes h, which the tasks of s have left
Becomes(h, s) ==
    /\ inner' = h.arr /\ heapIndex' = h.idx /\ out' = s
    /\ due' = [t \in Task |-> IF t \in Range(s) THEN 0 ELSE due[t]]

Init == inner = <<>> /\ heapIndex = [t \in Task |-> 0] /\ due = [t \in Task |-> 0] /\ out = <<>>

Push(t) ==
    /\ t \notin Range(inner)
    /\ \E d \in Time :
         /\ due' = [due EXCEPT ![t] = d]
         /\ LET h == HeapPush(Heap, due', t) IN inner' = h.arr /\ heapIndex' = h.idx
    /\ out' = <<>>

Pop == inner # <<>> /\ Becomes(HeapPop(Heap, due), <<inner[1]>>)

\* Remove goes by heapIndex, which is -1 for a task that has left the heap.
RemoveTask(t) ==
    /\ RemoveFresh \/ t \in Range(inner) \/ heapIndex[t] = -1
    /\ IF heapIndex[t] \in 0 .. Len(inner) - 1
       THEN Becomes(HeapRemove(Heap, due, heapIndex[t]), <<inner[heapIndex[t] + 1]>>)
       ELSE Becomes(Heap, <<>>)

PromoteReady(now) == LET r == PopReady(Heap, <<>>, now) IN Becomes(r.heap, r.ready)

Next == \/ \E t \in Task : Push(t) \/ RemoveTask(t)
        \/ Pop
        \/ \E now \in Time : PromoteReady(now)

Spec == Init /\ [][Next]_vars

-----------------------------------------------------------------------------
\* Every task in the heap knows its place and no other task claims one: what
\* Remove relies on when it takes a task from the middle.  And no task is due
\* before its parent, so the earliest is at the root: what NextDeadline and
\* PromoteReady rely on.
WellFormed == /\ \A i \in DOMAIN inner : heapIndex[inner[i]] = i - 1
              /\ \A t \in Task \ Range(inner) : heapIndex[t] \in {0, -1}
              /\ \A j \in 1 .. Len(inner) - 1 : ~Less(Heap, due, j, (j - 1) \div 2)

\* Seen from outside the array is a set: PromoteReady returns all tasks that are due
\* and only those, earliest first, and Remove takes the task it is given.
Abstract == INSTANCE TimedSet WITH held <- Range(inner)
ImplementsSet == Abstract!Spec
=================================================================================
