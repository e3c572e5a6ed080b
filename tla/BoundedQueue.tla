---------------------------- MODULE BoundedQueue ----------------------------
(***************************************************************************)
(* The generic queue of utils/queue.h: an array of MAX_SIZE items and two  *)
(* indices, the items being those strictly between them.  It is no ring:   *)
(* the indices only move back when a dequeue empties the queue.            *)
(***************************************************************************)
EXTENDS Integers, Sequences

CONSTANTS MaxSize,   \* MAX_SIZE
          Items,     \* the values of TYPE
          Zeroed     \* the value of memory that was only cleared

queue_init == [items |-> [k \in 0..(MaxSize - 1) |-> Zeroed],
               front |-> -1, rear |-> 0]

empty(q) == q.front = q.rear - 1

fullLate(q) == q.rear > MaxSize

full(q) == q.rear = MaxSize

\* A refused item leaves the queue as it is
enqueue(q, v) ==
  IF full(q) THEN q
  ELSE [items |-> [q.items EXCEPT ![q.rear] = v],
        front |-> q.front, rear |-> q.rear + 1]

dequeueForgets(q) ==
  IF empty(q) THEN q ELSE [items |-> q.items, front |-> -1, rear |-> 0]

dequeue(q) ==
  IF empty(q) THEN q
  ELSE IF q.front + 1 = q.rear - 1
  THEN [items |-> q.items, front |-> -1, rear |-> 0]
  ELSE [items |-> q.items, front |-> q.front + 1, rear |-> q.rear]

\* Only for a queue that is not empty
peek(q) == q.items[q.front + 1]

Queue == [items : [0..(MaxSize - 1) -> Items],
          front : -1..(MaxSize - 1), rear : 0..MaxSize]

-----------------------------------------------------------------------------
(* What the queue stands for *)

\* The number of queued items
Size(q) == q.rear - q.front - 1

=============================================================================
