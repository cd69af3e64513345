------------------------------- MODULE BoundedFIFO -------------------------------
(***************************************************************************)
(* What internal/queue.RingBuffer promises its callers, without array      *)
(* indices, mutex or condition variable: a FIFO of at most Cap tasks that  *)
(* can be closed.  Every operation takes effect in one step between its    *)
(* call and its return, and what it returns is right for the queue at that *)
(* step.                                                                   *)
(***************************************************************************)
EXTENDS Integers, Sequences

CONSTANTS Task, Producer, Consumer, Cap, Nil

VARIABLES policy,   \* what becomes of a task when the queue is full: "reject" or "block"
          queue,    \* the tasks in the queue, oldest first
          closed,   \* Close has been called
          open,     \* the goroutines inside a call
          item,     \* item[p]: the argument of p's Enqueue, the result of p's Dequeue
          ret       \* ret[p]: what p's last call returned

Proc == Producer \cup Consumer

vars == <<policy, queue, closed, open, item, ret>>

Init == /\ policy \in {"reject", "block"}
        /\ queue = <<>>
        /\ closed = FALSE
        /\ open = {}
        /\ item = [p \in Proc |-> Nil]
        /\ ret = [p \in Proc |-> "none"]

Call(p, x) == /\ p \notin open
              /\ open' = open \cup {p}
              /\ item' = [item EXCEPT ![p] = x]
              /\ ret' = [ret EXCEPT ![p] = "none"]
              /\ UNCHANGED <<policy, queue, closed>>

Return(p, x, r) == /\ open' = open \ {p}
                   /\ item' = [item EXCEPT ![p] = x]
                   /\ ret' = [ret EXCEPT ![p] = r]

\* A task is accepted only while the queue is open and has room.
Put(p) == /\ p \in open
          /\ ~closed
          /\ Len(queue) < Cap
          /\ queue' = Append(queue, item[p])
          /\ Return(p, item[p], "ok")
          /\ UNCHANGED <<policy, closed>>

\* A task is refused only when the queue is closed, or is full under the
\* reject policy; the queue is then untouched.
Refuse(p) == /\ p \in open
             /\ \/ closed /\ Return(p, item[p], "closed")
                \/ /\ ~closed
                   /\ policy = "reject"
                   /\ Len(queue) = Cap
                   /\ Return(p, item[p], "full")
             /\ UNCHANGED <<policy, queue, closed>>

\* The oldest task is handed to exactly one consumer, closed or not.
Get(c) == /\ c \in open
          /\ queue # <<>>
          /\ queue' = Tail(queue)
          /\ Return(c, Head(queue), "ok")
          /\ UNCHANGED <<policy, closed>>

\* A consumer is sent away only when the queue is closed and drained.
Drained(c) == /\ c \in open
              /\ queue = <<>>
              /\ closed
              /\ Return(c, Nil, "closed")
              /\ UNCHANGED <<policy, queue, closed>>

\* A non-blocking take: the whole call is one step.
TryGet(c) == /\ c \notin open
             /\ open' = open
             /\ UNCHANGED <<policy, closed>>
             /\ \/ /\ queue # <<>>
                   /\ queue' = Tail(queue)
                   /\ item' = [item EXCEPT ![c] = Head(queue)]
                   /\ ret' = [ret EXCEPT ![c] = "ok"]
                \/ /\ queue = <<>>
                   /\ queue' = queue
                   /\ item' = [item EXCEPT ![c] = Nil]
                   /\ ret' = [ret EXCEPT ![c] = "empty"]

Shut == closed' = TRUE /\ UNCHANGED <<policy, queue, open, item, ret>>

Next == \/ \E p \in Producer : (\E x \in Task : Call(p, x)) \/ Put(p) \/ Refuse(p)
        \/ \E c \in Consumer : Call(c, Nil) \/ Get(c) \/ Drained(c) \/ TryGet(c)
        \/ Shut

Spec == Init /\ [][Next]_vars
=================================================================================
