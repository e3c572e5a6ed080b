------------------------- MODULE LogPipelineProofs -------------------------
(***************************************************************************)
(* Proofs about the logging path: type correctness, the exactness of the   *)
(* drop count, that the path implements the lossy log, and that the        *)
(* daemon's count of lost records is exact and never exceeds what the      *)
(* processes counted themselves.                                           *)
(***************************************************************************)
EXTENDS LogPipeline, SequenceTheorems, NatFacts, TLAPS

-----------------------------------------------------------------------------
(* The queue *)

Cells == 0..(QueueSize - 1)

\* A queue as queue.h leaves it: the indices never cross
WellFormed(q) == q \in Q!Queue /\ q.front < q.rear

\* The cells that hold queued items
Live(q) == {k \in Cells : q.front < k /\ k < q.rear}

LEMMA InitFacts ==
  /\ WellFormed(Q!queue_init)
  /\ Live(Q!queue_init) = {}
  /\ Q!Size(Q!queue_init) = 0
  BY LogAssumption
  DEF WellFormed, Live, Cells, Q!queue_init, Q!Queue, Q!Size, Records, NoRecord

\* An accepted item takes a new last cell, a refused one changes nothing
LEMMA EnqueueFacts ==
  ASSUME NEW q, WellFormed(q), NEW v \in Records
  PROVE  /\ WellFormed(Q!enqueue(q, v))
         /\ Q!full(q) => Q!enqueue(q, v) = q
         /\ ~Q!full(q) =>
              /\ q.rear \in Cells
              /\ Q!Size(Q!enqueue(q, v)) = Q!Size(q) + 1
              /\ Live(Q!enqueue(q, v)) = Live(q) \cup {q.rear}
              /\ Q!enqueue(q, v).items[q.rear] = v
              /\ \A k \in Live(q) : /\ k < q.rear
                                    /\ Q!enqueue(q, v).items[k] = q.items[k]
<1>1. /\ q.items \in [Cells -> Records]
      /\ q.front \in -1..(QueueSize - 1)
      /\ q.rear \in 0..QueueSize
      /\ q.front < q.rear
      /\ QueueSize \in Nat \ {0}
  BY LogAssumption DEF WellFormed, Q!Queue, Cells
<1>2. CASE Q!full(q)
  BY <1>2 DEF Q!enqueue
<1>3. CASE ~Q!full(q)
  <2> DEFINE r == [items |-> [q.items EXCEPT ![q.rear] = v],
                   front |-> q.front, rear |-> q.rear + 1]
  <2>1. Q!enqueue(q, v) = r
    BY <1>3 DEF Q!enqueue
  <2>2. q.rear \in Cells
    BY <1>1, <1>3 DEF Q!full, Cells
  <2>3. /\ r.items = [q.items EXCEPT ![q.rear] = v]
        /\ r.front = q.front
        /\ r.rear = q.rear + 1
        /\ r = [items |-> [q.items EXCEPT ![q.rear] = v], front |-> q.front,
                rear |-> q.rear + 1]
    OBVIOUS
  <2> HIDE DEF r
  <2>4. r \in Q!Queue
    BY <1>1, <2>2, <2>3 DEF Q!Queue, Cells
  <2>5. WellFormed(r) /\ Q!Size(r) = Q!Size(q) + 1
    BY <1>1, <2>3, <2>4 DEF WellFormed, Q!Size
  <2>6. Live(r) = Live(q) \cup {q.rear}
    BY <1>1, <2>2, <2>3 DEF Live, Cells
  <2>7. r.items[q.rear] = v /\ \A k \in Live(q) : k < q.rear /\ r.items[k] = q.items[k]
    BY <1>1, <2>2, <2>3 DEF Live, Cells
  <2> QED
    BY <1>3, <2>1, <2>2, <2>5, <2>6, <2>7
<1> QED
  BY <1>2, <1>3

\* A dequeue frees the first cell, also when it moves the indices back
LEMMA DequeueFacts ==
  ASSUME NEW q, WellFormed(q), ~Q!empty(q)
  PROVE  /\ WellFormed(Q!dequeue(q))
         /\ Q!Size(Q!dequeue(q)) = Q!Size(q) - 1
         /\ Live(Q!dequeue(q)) = Live(q) \ {q.front + 1}
         /\ Q!dequeue(q).items = q.items
         /\ q.front + 1 \in Live(q)
         /\ \A k \in Live(q) : q.front + 1 <= k
         /\ Q!peek(q) = q.items[q.front + 1]
         /\ Q!peek(q) \in Records
<1>1. /\ q.items \in [Cells -> Records]
      /\ q.front \in -1..(QueueSize - 1)
      /\ q.rear \in 0..QueueSize
      /\ q.front < q.rear - 1
      /\ QueueSize \in Nat \ {0}
  BY LogAssumption DEF WellFormed, Q!Queue, Q!empty, Cells
<1>2. /\ q.front + 1 \in Live(q)
      /\ \A k \in Live(q) : q.front + 1 <= k
      /\ Q!peek(q) = q.items[q.front + 1]
      /\ Q!peek(q) \in Records
  BY <1>1 DEF Live, Cells, Q!peek
<1>3. CASE q.front + 1 = q.rear - 1
  <2> DEFINE r == [items |-> q.items, front |-> -1, rear |-> 0]
  <2>1. Q!dequeue(q) = r
    BY <1>3 DEF Q!dequeue
  <2>2. r.items = q.items /\ r.front = -1 /\ r.rear = 0
    OBVIOUS
  <2> HIDE DEF r
  <2>3. r \in Q!Queue
    BY <1>1, <1>3 DEF r, Q!Queue, Cells
  <2>4. WellFormed(r) /\ Q!Size(r) = Q!Size(q) - 1
    BY <1>1, <1>3, <2>2, <2>3 DEF WellFormed, Q!Size
  <2>5. Live(r) = Live(q) \ {q.front + 1}
    BY <1>1, <1>3, <2>2 DEF Live, Cells
  <2> QED
    BY <1>2, <2>1, <2>2, <2>4, <2>5
<1>4. CASE q.front + 1 # q.rear - 1
  <2> DEFINE r == [items |-> q.items, front |-> q.front + 1, rear |-> q.rear]
  <2>1. Q!dequeue(q) = r
    BY <1>4 DEF Q!dequeue
  <2>2. r.items = q.items /\ r.front = q.front + 1 /\ r.rear = q.rear
    OBVIOUS
  <2> HIDE DEF r
  <2>3. r \in Q!Queue
    BY <1>1, <1>4 DEF r, Q!Queue, Cells
  <2>4. WellFormed(r) /\ Q!Size(r) = Q!Size(q) - 1
    BY <1>1, <1>4, <2>2, <2>3 DEF WellFormed, Q!Size
  <2>5. Live(r) = Live(q) \ {q.front + 1}
    BY <1>1, <1>4, <2>2 DEF Live, Cells
  <2> QED
    BY <1>2, <2>1, <2>2, <2>4, <2>5
<1> QED
  BY <1>3, <1>4

-----------------------------------------------------------------------------
(* Types *)

Sound == \A p \in Procs : WellFormed(queue[p])

TypeInd == TypeOK /\ Sound

TrackerRec == [pid : Procs \cup {0}, last_seq : Nat]

LEMMA TrackerFacts ==
  ASSUME NEW t \in Seq(TrackerRec), NEW rec \in Records
  PROVE  /\ Gap(t, rec) \in Nat
         /\ Tracked(t, rec) \in Seq(TrackerRec)
<1> DEFINE k == TrackerOf(t, rec.pid)
           e == [pid |-> rec.pid, last_seq |-> rec.seq]
<1>1. /\ rec.seq \in Nat
      /\ e \in TrackerRec
  BY DEF Records, TrackerRec
<1>2. \A i \in DOMAIN t : t[i] \in TrackerRec
  OBVIOUS
<1>3. \A i \in DOMAIN t : t[i].last_seq \in Nat
  BY <1>2 DEF TrackerRec
<1>4. Gap(t, rec) \in Nat
  <2>1. CASE k \in DOMAIN t /\ rec.seq # t[k].last_seq + 1 /\ rec.seq > t[k].last_seq
    <3>1. Gap(t, rec) = rec.seq - t[k].last_seq - 1
      BY <2>1 DEF Gap
    <3> HIDE DEF k
    <3> QED
      BY <1>1, <1>3, <2>1, <3>1
  <2>2. CASE ~(k \in DOMAIN t /\ rec.seq # t[k].last_seq + 1 /\ rec.seq > t[k].last_seq)
    BY <2>2 DEF Gap
  <2> QED
    BY <2>1, <2>2
<1>5. Tracked(t, rec) \in Seq(TrackerRec)
  <2>1. CASE k = 0
    BY <2>1 DEF Tracked
  <2>2. CASE k # 0 /\ k \in DOMAIN t
    <3>1. Tracked(t, rec) = [t EXCEPT ![k] = e]
      BY <2>2 DEF Tracked
    <3>2. k \in 1..Len(t)
      BY <2>2
    <3> HIDE DEF k, e
    <3> QED
      BY <1>1, <3>1, <3>2, ExceptSeq
  <2>3. CASE k # 0 /\ k \notin DOMAIN t
    <3>1. Tracked(t, rec) = Append(t, e)
      BY <2>3 DEF Tracked
    <3> HIDE DEF e
    <3> QED
      BY <1>1, <3>1
  <2> QED
    BY <2>1, <2>2, <2>3
<1> QED
  BY <1>4, <1>5

\* Queueing a line keeps a process's variables well typed
LEMMA PushType ==
  ASSUME TypeInd, NEW p \in Procs, Push(p)
  PROVE  /\ next_seq' \in [Procs -> Nat]
         /\ queue' \in [Procs -> Q!Queue]
         /\ dropped' \in [Procs -> Nat]
         /\ Sound'
<1> DEFINE v == [pid |-> p, seq |-> next_seq[p]]
<1>1. v \in Records /\ WellFormed(queue[p])
  BY DEF TypeInd, TypeOK, Sound, Records
<1>2. WellFormed(Q!enqueue(queue[p], v))
  <2> HIDE DEF v
  <2> QED
    BY <1>1, EnqueueFacts
<1>3. queue' = [queue EXCEPT ![p] = Q!enqueue(queue[p], v)]
  BY DEF Push
<1> HIDE DEF v
<1>4. queue' \in [Procs -> Q!Queue] /\ Sound'
  BY <1>2, <1>3 DEF TypeInd, TypeOK, Sound, WellFormed
<1>5. next_seq' \in [Procs -> Nat] /\ dropped' \in [Procs -> Nat]
  BY DEF Push, Counted, TypeInd, TypeOK
<1> QED
  BY <1>4, <1>5

\* Types and well-formed queues are kept by every step
LEMMA LogTypeInductive == Spec => []TypeInd
<1>1. Init => TypeInd
  <2> SUFFICES ASSUME Init PROVE TypeInd
    OBVIOUS
  <2>1. WellFormed(Q!queue_init)
    BY InitFacts
  <2>2. queue \in [Procs -> Q!Queue] /\ Sound
    BY <2>1 DEF Init, Sound, WellFormed
  <2>3. pc \in [Procs -> {"none", "run", "drain", "last", "closed", "killed"}]
    BY DEF Init
  <2> QED
    BY <2>2, <2>3 DEF Init, TypeInd, TypeOK
<1>2. TypeInd /\ [Next]_vars => TypeInd'
  <2> SUFFICES ASSUME TypeInd, [Next]_vars PROVE TypeInd'
    OBVIOUS
  <2> USE DEF TypeInd
  <2>1. ASSUME NEW p \in Procs, fork(p) PROVE TypeInd'
    BY <2>1, LogAssumption DEF fork, TypeOK, Sound, daemonVars
  <2>2. ASSUME NEW p \in Procs, log_client_push(p) PROVE TypeInd'
    BY <2>2, PushType DEF log_client_push, TypeOK, daemonVars
  <2>3. ASSUME NEW p \in Procs, log_client_drain(p) PROVE TypeInd'
    BY <2>3, LogAssumption DEF log_client_drain, TypeOK, Sound, daemonVars
  <2>4. ASSUME NEW p \in Procs, shutting_down(p) PROVE TypeInd'
    BY <2>4, PushType, LogAssumption DEF shutting_down, TypeOK, daemonVars
  <2>5. ASSUME NEW p \in Procs, drain_one(p) PROVE TypeInd'
    <3>1. WellFormed(queue[p]) /\ ~Q!empty(queue[p])
      BY <2>5 DEF drain_one, Sound
    <3>2. WellFormed(Q!dequeue(queue[p])) /\ Q!peek(queue[p]) \in Records
      BY <3>1, DequeueFacts
    <3>3. queue' = [queue EXCEPT ![p] = Q!dequeue(queue[p])]
      BY <2>5 DEF drain_one, SentRemoved
    <3>4. queue' \in [Procs -> Q!Queue] /\ Sound'
      BY <3>2, <3>3 DEF TypeOK, Sound, WellFormed
    <3>a. /\ left' = [left EXCEPT ![p] = @ - 1] /\ left[p] > 0
          /\ \/ /\ sock' = Append(sock, Q!peek(queue[p]))
                /\ accepted' = [accepted EXCEPT ![p] = @ + 1]
                /\ dropped' = dropped
             \/ /\ dropped' = [dropped EXCEPT ![p] = @ + 1]
                /\ sock' = sock
                /\ accepted' = accepted
      BY <2>5 DEF drain_one
    <3>b. /\ sock \in Seq(Records)
          /\ left \in [Procs -> Nat]
          /\ dropped \in [Procs -> Nat]
          /\ accepted \in [Procs -> Nat]
      BY DEF TypeOK
    <3>5. sock' \in Seq(Records)
      <4>1. Append(sock, Q!peek(queue[p])) \in Seq(Records)
        BY <3>2, <3>b
      <4>2. sock' = sock \/ sock' = Append(sock, Q!peek(queue[p]))
        BY <3>a
      <4> QED
        BY <3>b, <4>1, <4>2
    <3>c. left[p] - 1 \in Nat
      BY <3>a, <3>b
    <3>6. left' \in [Procs -> Nat]
      BY <3>a, <3>b, <3>c
    <3>7. dropped' \in [Procs -> Nat] /\ accepted' \in [Procs -> Nat]
      <4>1. /\ [dropped EXCEPT ![p] = @ + 1] \in [Procs -> Nat]
            /\ [accepted EXCEPT ![p] = @ + 1] \in [Procs -> Nat]
        BY <3>b
      <4>2. dropped' = dropped \/ dropped' = [dropped EXCEPT ![p] = @ + 1]
        BY <3>a
      <4>3. accepted' = accepted \/ accepted' = [accepted EXCEPT ![p] = @ + 1]
        BY <3>a
      <4> QED
        BY <3>b, <4>1, <4>2, <4>3
    <3> QED
      BY <2>5, <3>4, <3>5, <3>6, <3>7 DEF drain_one, TypeOK, daemonVars
  <2>6. ASSUME NEW p \in Procs, drain_end(p) PROVE TypeInd'
    BY <2>6 DEF drain_end, TypeOK, Sound, daemonVars
  <2>7. ASSUME NEW p \in Procs, die(p) PROVE TypeInd'
    BY <2>7 DEF die, TypeOK, Sound, daemonVars
  <2>8. CASE daemon_start
    BY <2>8 DEF daemon_start, FreshTrackers, TypeOK, Sound, clientVars
  <2>9. CASE receive
    <3>1. Head(sock) \in Records /\ sock' \in Seq(Records)
      BY <2>9 DEF receive, TypeOK
    <3>2. trackers \in Seq(TrackerRec)
      BY DEF TypeOK, TrackerRec
    <3>a. /\ Gap(trackers, Head(sock)) \in Nat
          /\ Tracked(trackers, Head(sock)) \in Seq(TrackerRec)
      BY <3>1, <3>2, TrackerFacts
    <3>3. total' \in Nat /\ trackers' \in Seq(TrackerRec)
      BY <2>9, <3>a DEF receive, TypeOK
    <3>4. file' \in Seq(Records)
      BY <2>9, <3>1 DEF receive, TypeOK
    <3> QED
      BY <2>9, <3>1, <3>3, <3>4 DEF receive, TypeOK, Sound, TrackerRec, clientVars
  <2>10. CASE handle_sighup
    BY <2>10 DEF handle_sighup, TypeOK, Sound, clientVars
  <2>11. CASE reopen
    BY <2>11 DEF reopen, TypeOK, Sound, clientVars
  <2>12. CASE daemon_stop
    BY <2>12 DEF daemon_stop, TypeOK, Sound, clientVars
  <2>13. CASE UNCHANGED vars
    BY <2>13 DEF vars, TypeOK, Sound, clientVars, daemonVars
  <2> QED
    BY <2>1, <2>2, <2>3, <2>4, <2>5, <2>6, <2>7, <2>8, <2>9, <2>10, <2>11, <2>12,
       <2>13
    DEF Next
<1> QED
  BY <1>1, <1>2, PTL DEF Spec

\* The variables of the logging process and of the daemon keep the types of their
\* C objects; the indices of a queue never leave the array
THEOREM LogTypeCorrect == Spec => []TypeOK
<1>1. TypeInd => TypeOK
  BY DEF TypeInd
<1> QED
  BY <1>1, LogTypeInductive, PTL

-----------------------------------------------------------------------------
(* Accounting.  DropCountExact is inductive together with the fact that a    *)
(* process that does not exist yet has logged nothing.                       *)

Unborn == \A p \in Procs : /\ pc[p] = "none" => next_seq[p] = first_seq[p]
                          /\ first_seq[p] <= next_seq[p]

CountInd == DropCountExact /\ Unborn

\* One process's account, balanced or not
Balanced(p) == Logged(p) = dropped[p] + Q!Size(queue[p]) + accepted[p]

LEMMA SizeType ==
  ASSUME NEW q, WellFormed(q)
  PROVE  Q!Size(q) \in Nat
  BY LogAssumption DEF WellFormed, Q!Queue, Q!Size

\* Queueing a line keeps the account
LEMMA PushBalanced ==
  ASSUME TypeInd, NEW p \in Procs, Balanced(p), Push(p),
         UNCHANGED <<first_seq, accepted>>
  PROVE  Balanced(p)'
<1> DEFINE v == [pid |-> p, seq |-> next_seq[p]]
<1>1. v \in Records /\ WellFormed(queue[p])
  BY DEF TypeInd, TypeOK, Sound, Records
<1>2. /\ next_seq[p] \in Nat /\ first_seq[p] \in Nat
      /\ dropped[p] \in Nat /\ accepted[p] \in Nat
  BY DEF TypeInd, TypeOK
<1>3. /\ queue'[p] = Q!enqueue(queue[p], v)
      /\ next_seq'[p] = next_seq[p] + 1
      /\ dropped'[p] = IF Q!full(queue[p]) THEN dropped[p] + 1 ELSE dropped[p]
  BY DEF Push, Counted, TypeInd, TypeOK
<1>4. Q!Size(queue[p]) \in Nat
  BY <1>1, SizeType
<1> HIDE DEF v
<1>5. Q!Size(queue'[p]) = IF Q!full(queue[p]) THEN Q!Size(queue[p])
                                              ELSE Q!Size(queue[p]) + 1
  BY <1>1, <1>3, EnqueueFacts
<1>6. next_seq[p] - first_seq[p] = dropped[p] + Q!Size(queue[p]) + accepted[p]
  BY DEF Balanced, Logged
<1>7. next_seq'[p] - first_seq'[p] = dropped'[p] + Q!Size(queue'[p]) + accepted'[p]
  BY <1>2, <1>3, <1>4, <1>5, <1>6
<1> QED
  BY <1>7 DEF Balanced, Logged

\* A send keeps the account, whether it succeeds or not
LEMMA SendBalanced ==
  ASSUME TypeInd, NEW p \in Procs, Balanced(p), drain_one(p)
  PROVE  Balanced(p)'
<1>1. WellFormed(queue[p]) /\ ~Q!empty(queue[p])
  BY DEF drain_one, TypeInd, Sound
<1>2. /\ next_seq[p] \in Nat /\ first_seq[p] \in Nat
      /\ dropped[p] \in Nat /\ accepted[p] \in Nat
  BY DEF TypeInd, TypeOK
<1>3. Q!Size(Q!dequeue(queue[p])) = Q!Size(queue[p]) - 1
  BY <1>1, DequeueFacts
<1>4. Q!Size(queue[p]) \in Nat
  BY <1>1, SizeType
<1>5. /\ queue'[p] = Q!dequeue(queue[p])
      /\ next_seq'[p] = next_seq[p]
      /\ first_seq'[p] = first_seq[p]
  BY DEF drain_one, SentRemoved, TypeInd, TypeOK
<1>6. \/ accepted'[p] = accepted[p] + 1 /\ dropped'[p] = dropped[p]
      \/ accepted'[p] = accepted[p] /\ dropped'[p] = dropped[p] + 1
  <2>1. accepted \in [Procs -> Nat] /\ dropped \in [Procs -> Nat]
    BY DEF TypeInd, TypeOK
  <2>2. \/ accepted' = [accepted EXCEPT ![p] = @ + 1] /\ dropped' = dropped
        \/ accepted' = accepted /\ dropped' = [dropped EXCEPT ![p] = @ + 1]
    BY DEF drain_one
  <2> QED
    BY <2>1, <2>2
<1>7. next_seq[p] - first_seq[p] = dropped[p] + Q!Size(queue[p]) + accepted[p]
  BY DEF Balanced, Logged
<1>8. next_seq'[p] - first_seq'[p] = dropped'[p] + Q!Size(queue'[p]) + accepted'[p]
  BY <1>2, <1>3, <1>4, <1>5, <1>6, <1>7
<1> QED
  BY <1>8 DEF Balanced, Logged

\* A step that leaves a process's counters and queue alone keeps its account
LEMMA IdleBalanced ==
  ASSUME NEW p \in Procs, Balanced(p),
         next_seq'[p] = next_seq[p], first_seq'[p] = first_seq[p],
         dropped'[p] = dropped[p], accepted'[p] = accepted[p],
         queue'[p] = queue[p]
  PROVE  Balanced(p)'
  BY DEF Balanced, Logged, Q!Size

\* The accounts stay balanced at every step
LEMMA CountInductive == Spec => []CountInd
<1>1. Init => CountInd
  <2> SUFFICES ASSUME Init PROVE CountInd
    OBVIOUS
  <2>1. Q!Size(Q!queue_init) = 0
    BY InitFacts
  <2> QED
    BY <2>1 DEF Init, CountInd, DropCountExact, Unborn, Logged
<1>2. TypeInd /\ CountInd /\ [Next]_vars => CountInd'
  <2> SUFFICES ASSUME TypeInd, CountInd, [Next]_vars PROVE CountInd'
    OBVIOUS
  <2>0. /\ DropCountExact <=> \A p \in Procs : Balanced(p)
        /\ DropCountExact' <=> \A p \in Procs : Balanced(p)'
    BY DEF DropCountExact, Balanced
  <2>1. \A p \in Procs : Balanced(p)
    BY <2>0 DEF CountInd
  <2>2. ASSUME UNCHANGED <<next_seq, first_seq, dropped, accepted, queue>>
        PROVE  \A p \in Procs : Balanced(p)'
    BY <2>1, <2>2, IdleBalanced
  <2>3. ASSUME NEW p \in Procs, fork(p) PROVE CountInd'
    <3>1. /\ pc \in [Procs -> {"none", "run", "drain", "last", "closed", "killed"}]
          /\ next_seq \in [Procs -> Nat]
          /\ first_seq \in [Procs -> Nat]
      BY DEF TypeInd, TypeOK
    <3>2. /\ next_seq' = [next_seq EXCEPT ![p] = next_seq[Master]]
          /\ first_seq' = [first_seq EXCEPT ![p] = next_seq[Master]]
          /\ pc' = [pc EXCEPT ![p] = "run"]
          /\ UNCHANGED <<queue, dropped, accepted>>
          /\ pc[p] = "none"
          /\ next_seq[Master] \in Nat
      BY <2>3, <3>1, LogAssumption DEF fork
    <3>3. \A u \in Procs : next_seq'[u] - first_seq'[u] = next_seq[u] - first_seq[u]
      BY <3>1, <3>2 DEF CountInd, Unborn
    <3>4. \A u \in Procs : Balanced(u)'
      BY <2>1, <3>2, <3>3 DEF Balanced, Logged, Q!Size
    <3>5. Unborn'
      BY <3>1, <3>2 DEF CountInd, Unborn
    <3> QED
      BY <2>0, <3>4, <3>5 DEF CountInd
  <2>4. ASSUME NEW p \in Procs, Push(p), UNCHANGED <<first_seq, accepted>>,
               pc[p] = "run", pc' = [pc EXCEPT ![p] = pc'[p]], pc'[p] # "none"
        PROVE  CountInd'
    <3>1. /\ pc \in [Procs -> {"none", "run", "drain", "last", "closed", "killed"}]
          /\ next_seq \in [Procs -> Nat]
          /\ queue \in [Procs -> Q!Queue]
          /\ dropped \in [Procs -> Nat]
      BY DEF TypeInd, TypeOK
    <3>2. \A u \in Procs \ {p} : /\ next_seq'[u] = next_seq[u]
                                 /\ queue'[u] = queue[u]
                                 /\ dropped'[u] = dropped[u]
      BY <2>4, <3>1 DEF Push, Counted
    <3>3. \A u \in Procs \ {p} : Balanced(u)'
      BY <2>1, <2>4, <3>2, IdleBalanced
    <3>4. Balanced(p)'
      BY <2>1, <2>4, PushBalanced
    <3>5. Unborn'
      <4>1. first_seq \in [Procs -> Nat] /\ Unborn
        BY DEF TypeInd, TypeOK, CountInd
      <4>2. next_seq'[p] = next_seq[p] + 1 /\ next_seq[p] \in Nat
        BY <2>4, <3>1 DEF Push
      <4>3. \A u \in Procs : u # p => pc'[u] = pc[u]
        BY <2>4, <3>1
      <4>4. first_seq' = first_seq /\ pc'[p] # "none"
        BY <2>4
      <4>5. /\ pc'[p] = "none" => next_seq'[p] = first_seq'[p]
            /\ first_seq'[p] <= next_seq'[p]
        BY <4>1, <4>2, <4>4 DEF Unborn
      <4>6. \A u \in Procs : u # p =>
              /\ pc'[u] = "none" => next_seq'[u] = first_seq'[u]
              /\ first_seq'[u] <= next_seq'[u]
        BY <3>2, <4>1, <4>3, <4>4 DEF Unborn
      <4> QED
        BY <4>5, <4>6 DEF Unborn
    <3> QED
      BY <2>0, <3>3, <3>4, <3>5 DEF CountInd
  <2>5. ASSUME NEW p \in Procs, log_client_push(p) PROVE CountInd'
    <3>1. pc' = [pc EXCEPT ![p] = pc'[p]] /\ pc[p] = "run" /\ pc'[p] # "none"
      BY <2>5 DEF log_client_push, TypeInd, TypeOK
    <3> QED
      BY <2>4, <2>5, <3>1 DEF log_client_push
  <2>6. ASSUME NEW p \in Procs, shutting_down(p) PROVE CountInd'
    <3>1. pc' = [pc EXCEPT ![p] = pc'[p]] /\ pc[p] = "run" /\ pc'[p] # "none"
      BY <2>6 DEF shutting_down, TypeInd, TypeOK
    <3> QED
      BY <2>4, <2>6, <3>1 DEF shutting_down
  <2>7. ASSUME NEW p \in Procs, drain_one(p) PROVE CountInd'
    <3>1. \A u \in Procs \ {p} : /\ queue'[u] = queue[u]
                                 /\ dropped'[u] = dropped[u]
                                 /\ accepted'[u] = accepted[u]
      <4>1. /\ queue \in [Procs -> Q!Queue]
            /\ dropped \in [Procs -> Nat]
            /\ accepted \in [Procs -> Nat]
        BY DEF TypeInd, TypeOK
      <4>2. /\ queue' = [queue EXCEPT ![p] = SentRemoved(queue[p])]
            /\ \/ accepted' = [accepted EXCEPT ![p] = @ + 1] /\ dropped' = dropped
               \/ accepted' = accepted /\ dropped' = [dropped EXCEPT ![p] = @ + 1]
        BY <2>7 DEF drain_one
      <4> QED
        BY <4>1, <4>2
    <3>2. UNCHANGED <<next_seq, first_seq, pc>>
      BY <2>7 DEF drain_one
    <3>3. \A u \in Procs \ {p} : Balanced(u)'
      BY <2>1, <3>1, <3>2, IdleBalanced
    <3>4. Balanced(p)'
      BY <2>1, <2>7, SendBalanced
    <3> QED
      BY <2>0, <3>2, <3>3, <3>4 DEF CountInd, Unborn
  <2>8. ASSUME NEW p \in Procs, log_client_drain(p) \/ drain_end(p) \/ die(p)
        PROVE  CountInd'
    <3>1. /\ UNCHANGED <<next_seq, first_seq, dropped, accepted, queue>>
          /\ \E x \in {"drain", "run", "closed", "killed"} : pc' = [pc EXCEPT ![p] = x]
      BY <2>8 DEF log_client_drain, drain_end, die
    <3>2. Unborn'
      BY <3>1 DEF CountInd, Unborn, TypeInd, TypeOK
    <3> QED
      BY <2>0, <2>2, <3>1, <3>2 DEF CountInd
  <2>9. CASE \/ daemon_start \/ receive \/ handle_sighup \/ reopen \/ daemon_stop
             \/ UNCHANGED vars
    <3>1. UNCHANGED <<next_seq, first_seq, dropped, accepted, queue, pc>>
      BY <2>9 DEF daemon_start, receive, handle_sighup, reopen, daemon_stop, vars,
                  clientVars
    <3> QED
      BY <2>0, <2>2, <3>1 DEF CountInd, Unborn
  <2> QED
    BY <2>3, <2>5, <2>6, <2>7, <2>8, <2>9 DEF Next
<1> QED
  BY <1>1, <1>2, LogTypeInductive, PTL DEF Spec

\* However the daemon comes and goes, a process can account for every line it
\* logged: still queued, counted in dropped_queue_full, or taken by the kernel
THEOREM DropsAccounted == Spec => []DropCountExact
<1>1. CountInd => DropCountExact
  BY DEF CountInd
<1> QED
  BY <1>1, CountInductive, PTL

-----------------------------------------------------------------------------
(* Order.  Along the path of a process's lines (queue, socket, file) the     *)
(* numbers only grow, and all of them are numbers the process has given out. *)
(* The parts are operators on the values of queue, sock, file, first_seq and *)
(* next_seq, so that the lemmas speak of the values before and after a step. *)

Issued(r, fs, ns) == r.pid \in Procs /\ fs[r.pid] <= r.seq /\ r.seq < ns[r.pid]

\* The record is older than whatever its process still has queued
Before(r, q) == \A k \in Live(q[r.pid]) : r.seq < q[r.pid].items[k].seq

QueueOrder(q, fs, ns) ==
  \A p \in Procs : \A k \in Live(q[p]) :
    /\ q[p].items[k].pid = p
    /\ Issued(q[p].items[k], fs, ns)
    /\ \A j \in Live(q[p]) : j < k => q[p].items[j].seq < q[p].items[k].seq

SockOrder(q, s, fs, ns) ==
  \A i \in DOMAIN s :
    /\ Issued(s[i], fs, ns)
    /\ Before(s[i], q)
    /\ \A j \in DOMAIN s : i < j /\ s[i].pid = s[j].pid => s[i].seq < s[j].seq

FileOrder(q, s, f, fs, ns) ==
  \A i \in DOMAIN f :
    /\ Issued(f[i], fs, ns)
    /\ Before(f[i], q)
    /\ \A j \in DOMAIN s : f[i].pid = s[j].pid => f[i].seq < s[j].seq

Ordered(q, s, f, fs, ns) ==
  /\ QueueOrder(q, fs, ns)
  /\ SockOrder(q, s, fs, ns)
  /\ FileOrder(q, s, f, fs, ns)

OrderInd == Ordered(queue, sock, file, first_seq, next_seq) /\ Unborn

Typed(q, s, f, fs, ns) ==
  /\ q \in [Procs -> Q!Queue]
  /\ \A u \in Procs : WellFormed(q[u])
  /\ s \in Seq(Records)
  /\ f \in Seq(Records)
  /\ fs \in [Procs -> Nat]
  /\ ns \in [Procs -> Nat]

\* The numbers of all records on the way are natural numbers
LEMMA SeqTypes ==
  ASSUME NEW q, NEW s, NEW f, NEW fs, NEW ns, Typed(q, s, f, fs, ns)
  PROVE  /\ \A u \in Procs : \A k \in Live(q[u]) : /\ q[u].items[k] \in Records
                                                   /\ q[u].items[k].seq \in Nat
         /\ \A i \in DOMAIN s : s[i] \in Records /\ s[i].seq \in Nat
         /\ \A i \in DOMAIN f : f[i] \in Records /\ f[i].seq \in Nat
         /\ \A r \in Records : r.seq \in Nat
<1>1. \A r \in Records : r.seq \in Nat
  BY DEF Records
<1>2. \A u \in Procs : \A k \in Live(q[u]) : q[u].items[k] \in Records
  BY DEF Typed, Live, Cells, Q!Queue
<1>3. \A i \in DOMAIN s : s[i] \in Records
  BY DEF Typed
<1>4. \A i \in DOMAIN f : f[i] \in Records
  BY DEF Typed
<1> QED
  BY <1>1, <1>2, <1>3, <1>4

\* Queueing a line: the new number is larger than every number given out
LEMMA PushOrder ==
  ASSUME NEW q, NEW s, NEW f, NEW fs, NEW ns, Typed(q, s, f, fs, ns),
         Ordered(q, s, f, fs, ns), NEW p \in Procs, fs[p] <= ns[p],
         NEW v \in Records, v.pid = p, v.seq = ns[p],
         NEW q2, q2 = [q EXCEPT ![p] = Q!enqueue(q[p], v)],
         NEW ns2, ns2 = [ns EXCEPT ![p] = ns[p] + 1]
  PROVE  Ordered(q2, s, f, fs, ns2)
<1>1. /\ \A u \in Procs : u # p => q2[u] = q[u]
      /\ q2[p] = Q!enqueue(q[p], v)
      /\ \A u \in Procs : ns2[u] \in Nat /\ ns[u] \in Nat /\ fs[u] \in Nat
      /\ \A u \in Procs : ns[u] <= ns2[u]
      /\ ns2[p] = ns[p] + 1
  BY DEF Typed
<1>2. \/ q2[p] = q[p]
      \/ /\ Live(q2[p]) = Live(q[p]) \cup {q[p].rear}
         /\ q2[p].items[q[p].rear] = v
         /\ \A k \in Live(q[p]) : k < q[p].rear /\ q2[p].items[k] = q[p].items[k]
  BY <1>1, EnqueueFacts DEF Typed
<1>3. ASSUME NEW r, r.seq \in Nat, Issued(r, fs, ns) PROVE Issued(r, fs, ns2)
  BY <1>1, <1>3 DEF Issued
<1>4. ASSUME NEW r, Issued(r, fs, ns), Before(r, q) PROVE Before(r, q2)
  <2> SUFFICES ASSUME NEW k \in Live(q2[r.pid])
               PROVE  r.seq < q2[r.pid].items[k].seq
    BY DEF Before
  <2>1. CASE r.pid # p
    BY <1>1, <1>4, <2>1 DEF Before, Issued
  <2>2. CASE r.pid = p /\ k \in Live(q[p])
    BY <1>2, <1>4, <2>2 DEF Before
  <2>3. CASE r.pid = p /\ k \notin Live(q[p])
    BY <1>2, <1>4, <2>3 DEF Issued
  <2> QED
    BY <2>1, <2>2, <2>3
<1>5. SockOrder(q2, s, fs, ns2)
  BY <1>3, <1>4, SeqTypes DEF Ordered, SockOrder
<1>6. FileOrder(q2, s, f, fs, ns2)
  BY <1>3, <1>4, SeqTypes DEF Ordered, FileOrder
<1>7. QueueOrder(q2, fs, ns2)
  <2> SUFFICES ASSUME NEW u \in Procs, NEW k \in Live(q2[u])
               PROVE  /\ q2[u].items[k].pid = u
                      /\ Issued(q2[u].items[k], fs, ns2)
                      /\ \A j \in Live(q2[u]) : j < k =>
                           q2[u].items[j].seq < q2[u].items[k].seq
    BY DEF QueueOrder
  <2>1. \A w \in Procs : \A i \in Live(q[w]) :
          /\ q[w].items[i].seq \in Nat
          /\ q[w].items[i].pid = w
          /\ Issued(q[w].items[i], fs, ns)
          /\ \A j \in Live(q[w]) : j < i => q[w].items[j].seq < q[w].items[i].seq
    BY SeqTypes DEF Ordered, QueueOrder
  <2>2. CASE q2[u] = q[u]
    BY <1>3, <2>1, <2>2
  <2>3. CASE q2[u] # q[u]
    <3>1. /\ u = p
          /\ Live(q2[p]) = Live(q[p]) \cup {q[p].rear}
          /\ q2[p].items[q[p].rear] = v
          /\ \A i \in Live(q[p]) : i < q[p].rear /\ q2[p].items[i] = q[p].items[i]
      BY <1>1, <1>2, <2>3
    <3>2. k \in Int /\ q[p].rear \in Int /\ (k \in Live(q[p]) => k < q[p].rear)
      BY <3>1 DEF Live, Cells, Typed, Q!Queue
    <3>3. \A j \in Live(q2[p]) : j < k => j \in Live(q[p])
      BY <3>1, <3>2
    <3>4. CASE k \in Live(q[p])
      <4>1. q2[p].items[k] = q[p].items[k]
        BY <3>1, <3>4
      <4>2. q[p].items[k].pid = p /\ Issued(q[p].items[k], fs, ns2)
        BY <1>3, <2>1, <3>4
      <4>3. \A j \in Live(q2[p]) : j < k => q2[p].items[j].seq < q[p].items[k].seq
        BY <2>1, <3>1, <3>3, <3>4
      <4> QED
        BY <3>1, <4>1, <4>2, <4>3
    <3>5. CASE k = q[p].rear
      <4>1. \A i \in Live(q[p]) : q[p].items[i].seq < ns[p]
        BY <2>1 DEF Issued
      <4>2. Issued(v, fs, ns2)
        BY <1>1 DEF Issued
      <4>3. q2[p].items[k] = v /\ \A i \in Live(q[p]) : q2[p].items[i] = q[p].items[i]
        BY <3>1, <3>5
      <4> QED
        BY <3>1, <3>3, <4>1, <4>2, <4>3
    <3> QED
      BY <3>1, <3>4, <3>5
  <2> QED
    BY <2>2, <2>3
<1> QED
  BY <1>5, <1>6, <1>7 DEF Ordered

\* Taking the oldest record from a queue, whatever becomes of it
LEMMA TakeOrder ==
  ASSUME NEW q, NEW s, NEW f, NEW fs, NEW ns, Typed(q, s, f, fs, ns),
         Ordered(q, s, f, fs, ns), NEW p \in Procs, ~Q!empty(q[p]),
         NEW q2, q2 = [q EXCEPT ![p] = Q!dequeue(q[p])]
  PROVE  /\ Ordered(q2, s, f, fs, ns)
         /\ Ordered(q2, Append(s, Q!peek(q[p])), f, fs, ns)
<1> DEFINE v == Q!peek(q[p])
           h == q[p].front + 1
<1>1. /\ \A u \in Procs : q2[u].items = q[u].items
      /\ \A u \in Procs : Live(q2[u]) \subseteq Live(q[u])
      /\ Live(q2[p]) = Live(q[p]) \ {h}
      /\ h \in Live(q[p])
      /\ \A k \in Live(q[p]) : h <= k
      /\ v = q[p].items[h]
      /\ v \in Records
  <2>1. WellFormed(q[p])
    BY DEF Typed
  <2>2. q2[p] = Q!dequeue(q[p]) /\ \A u \in Procs : u # p => q2[u] = q[u]
    BY DEF Typed
  <2>3. /\ Live(q2[p]) = Live(q[p]) \ {h}
        /\ q2[p].items = q[p].items
        /\ h \in Live(q[p])
        /\ \A k \in Live(q[p]) : h <= k
        /\ v = q[p].items[h]
        /\ v \in Records
    BY <2>1, <2>2, DequeueFacts
  <2> QED
    BY <2>2, <2>3
<1> HIDE DEF v, h
<1>2. QueueOrder(q2, fs, ns)
  BY <1>1 DEF Ordered, QueueOrder
<1>3. ASSUME NEW r, r.pid \in Procs, Before(r, q) PROVE Before(r, q2)
  BY <1>1, <1>3 DEF Before
<1>4. SockOrder(q2, s, fs, ns)
  BY <1>3 DEF Ordered, SockOrder, Issued
<1>5. FileOrder(q2, s, f, fs, ns)
  BY <1>3 DEF Ordered, FileOrder, Issued
<1>6. v.pid = p /\ Issued(v, fs, ns)
  BY <1>1 DEF Ordered, QueueOrder
<1>7. Before(v, q2)
  <2> SUFFICES ASSUME NEW k \in Live(q2[p]) PROVE v.seq < q2[p].items[k].seq
    BY <1>6 DEF Before
  <2>1. k \in Live(q[p]) /\ h < k
    BY <1>1 DEF Live, Cells
  <2> QED
    BY <1>1, <2>1 DEF Ordered, QueueOrder
<1>8. ASSUME NEW r, r.pid = p, Before(r, q) PROVE r.seq < v.seq
  BY <1>1, <1>8 DEF Before
<1> DEFINE t == Append(s, v)
<1>9. /\ t \in Seq(Records)
      /\ Len(s) \in Nat
      /\ DOMAIN s = 1..Len(s)
      /\ DOMAIN t = 1..(Len(s) + 1)
      /\ \A i \in DOMAIN s : t[i] = s[i]
      /\ t[Len(s) + 1] = v
  BY <1>1 DEF Typed
<1> HIDE DEF t
<1>10. SockOrder(q2, t, fs, ns)
  <2> SUFFICES ASSUME NEW i \in DOMAIN t
               PROVE  /\ Issued(t[i], fs, ns)
                      /\ Before(t[i], q2)
                      /\ \A j \in DOMAIN t :
                           i < j /\ t[i].pid = t[j].pid => t[i].seq < t[j].seq
    BY DEF SockOrder
  <2>1. CASE i = Len(s) + 1
    BY <1>6, <1>7, <1>9, <2>1
  <2>2. CASE i \in DOMAIN s
    <3>1. t[i] = s[i] /\ Issued(s[i], fs, ns) /\ Before(s[i], q) /\ Before(s[i], q2)
      BY <1>4, <1>9, <2>2 DEF Ordered, SockOrder
    <3>2. ASSUME NEW j \in DOMAIN t, i < j, t[i].pid = t[j].pid
          PROVE  t[i].seq < t[j].seq
      <4>1. CASE j = Len(s) + 1
        BY <1>6, <1>8, <1>9, <3>1, <3>2, <4>1
      <4>2. CASE j \in DOMAIN s
        BY <1>4, <1>9, <2>2, <3>2, <4>2 DEF SockOrder
      <4> QED
        BY <1>9, <4>1, <4>2
    <3> QED
      BY <3>1, <3>2
  <2> QED
    BY <1>9, <2>1, <2>2
<1>11. FileOrder(q2, t, f, fs, ns)
  <2> SUFFICES ASSUME NEW i \in DOMAIN f, NEW j \in DOMAIN t, f[i].pid = t[j].pid
               PROVE  f[i].seq < t[j].seq
    BY <1>5 DEF FileOrder
  <2>1. CASE j = Len(s) + 1
    BY <1>6, <1>8, <1>9, <2>1 DEF Ordered, FileOrder
  <2>2. CASE j \in DOMAIN s
    BY <1>5, <1>9, <2>2 DEF FileOrder
  <2> QED
    BY <1>9, <2>1, <2>2
<1> QED
  BY <1>2, <1>4, <1>5, <1>10, <1>11 DEF Ordered, v, t

\* The daemon moves the oldest datagram from its socket to the file
LEMMA WriteOrder ==
  ASSUME NEW q, NEW s, NEW f, NEW fs, NEW ns, Typed(q, s, f, fs, ns),
         Ordered(q, s, f, fs, ns), s # <<>>
  PROVE  /\ Head(s) \in Records
         /\ Issued(Head(s), fs, ns)
         /\ \A i \in DOMAIN f : f[i].pid = Head(s).pid => f[i].seq < Head(s).seq
         /\ Ordered(q, Tail(s), Append(f, Head(s)), fs, ns)
<1> DEFINE v == Head(s)
           t == Tail(s)
           g == Append(f, v)
<1>1. /\ Len(s) \in Nat
      /\ DOMAIN s = 1..Len(s)
      /\ 1 \in DOMAIN s
      /\ v = s[1]
      /\ v \in Records
      /\ DOMAIN t = 1..(Len(s) - 1)
      /\ \A i \in DOMAIN t : i + 1 \in DOMAIN s /\ t[i] = s[i + 1]
  BY DEF Typed
<1>2. /\ Len(f) \in Nat
      /\ DOMAIN f = 1..Len(f)
      /\ DOMAIN g = 1..(Len(f) + 1)
      /\ \A i \in DOMAIN f : g[i] = f[i]
      /\ g[Len(f) + 1] = v
  BY <1>1 DEF Typed
<1> HIDE DEF v, t, g
<1>3. /\ Issued(v, fs, ns)
      /\ Before(v, q)
      /\ \A j \in DOMAIN s : 1 < j /\ v.pid = s[j].pid => v.seq < s[j].seq
  BY <1>1 DEF Ordered, SockOrder
<1>4. \A i \in DOMAIN f : f[i].pid = v.pid => f[i].seq < v.seq
  BY <1>1 DEF Ordered, FileOrder
<1>5. SockOrder(q, t, fs, ns)
  <2>1. \A i, j \in DOMAIN t : i < j => i + 1 < j + 1
    BY <1>1
  <2> QED
    BY <1>1, <2>1 DEF Ordered, SockOrder
<1>6. FileOrder(q, t, g, fs, ns)
  <2> SUFFICES ASSUME NEW i \in DOMAIN g
               PROVE  /\ Issued(g[i], fs, ns)
                      /\ Before(g[i], q)
                      /\ \A j \in DOMAIN t : g[i].pid = t[j].pid => g[i].seq < t[j].seq
    BY DEF FileOrder
  <2>1. CASE i = Len(f) + 1
    <3>1. \A j \in DOMAIN t : 1 < j + 1
      BY <1>1
    <3> QED
      BY <1>1, <1>2, <1>3, <2>1, <3>1
  <2>2. CASE i \in DOMAIN f
    BY <1>1, <1>2, <2>2 DEF Ordered, FileOrder
  <2> QED
    BY <1>2, <2>1, <2>2
<1> QED
  BY <1>1, <1>3, <1>4, <1>5, <1>6 DEF Ordered, v, t, g

\* A process that begins: none of the records on the way can be its own
LEMMA BeginOrder ==
  ASSUME NEW q, NEW s, NEW f, NEW fs, NEW ns, Typed(q, s, f, fs, ns),
         Ordered(q, s, f, fs, ns), NEW p \in Procs, fs[p] = ns[p],
         NEW fs2, NEW ns2,
         \A u \in Procs : u # p => fs2[u] = fs[u] /\ ns2[u] = ns[u]
  PROVE  Ordered(q, s, f, fs2, ns2)
<1>1. fs[p] \in Nat /\ ns[p] \in Nat
  BY DEF Typed
<1>2. ASSUME NEW r, r.seq \in Nat, Issued(r, fs, ns) PROVE Issued(r, fs2, ns2)
  <2>1. r.pid # p
    BY <1>1, <1>2 DEF Issued
  <2> QED
    BY <1>2, <2>1 DEF Issued
<1>3. QueueOrder(q, fs2, ns2)
  BY <1>2, SeqTypes DEF Ordered, QueueOrder
<1>4. SockOrder(q, s, fs2, ns2)
  BY <1>2, SeqTypes DEF Ordered, SockOrder
<1>5. FileOrder(q, s, f, fs2, ns2)
  BY <1>2, SeqTypes DEF Ordered, FileOrder
<1> QED
  BY <1>3, <1>4, <1>5 DEF Ordered

-----------------------------------------------------------------------------
(* Refinement.  Every step keeps the order, and the abstract log takes the   *)
(* corresponding step or none.                                               *)

issued == [u \in Procs |-> [from |-> first_seq[u], to |-> next_seq[u]]]

\* The abstract log stands still
LEMMA LogStutters ==
  ASSUME UNCHANGED <<first_seq, next_seq, file>>
  PROVE  UNCHANGED Log!vars
  BY DEF Log!vars

LEMMA TypedNow ==
  ASSUME TypeInd
  PROVE  Typed(queue, sock, file, first_seq, next_seq)
  BY DEF TypeInd, TypeOK, Sound, Typed

\* A line that is logged
LEMMA PushImplements ==
  ASSUME TypeInd, OrderInd, NEW p \in Procs, Push(p),
         UNCHANGED <<first_seq, sock, file>>
  PROVE  /\ Ordered(queue', sock', file', first_seq', next_seq')
         /\ Log!Next
<1>1. /\ next_seq \in [Procs -> Nat]
      /\ first_seq \in [Procs -> Nat]
      /\ next_seq' = [next_seq EXCEPT ![p] = next_seq[p] + 1]
      /\ first_seq' = first_seq /\ file' = file
  BY DEF TypeInd, TypeOK, Push
<1>2. Ordered(queue', sock', file', first_seq', next_seq')
  <2> DEFINE v == [pid |-> p, seq |-> next_seq[p]]
  <2>1. v \in Records /\ v.pid = p /\ v.seq = next_seq[p]
    BY <1>1 DEF Records
  <2>2. queue' = [queue EXCEPT ![p] = Q!enqueue(queue[p], v)]
    BY DEF Push
  <2> HIDE DEF v
  <2>3. /\ first_seq[p] <= next_seq[p]
        /\ Ordered(queue, sock, file, first_seq, next_seq)
    BY DEF OrderInd, Unborn
  <2>4. Ordered(queue', sock, file, first_seq, next_seq')
    BY <1>1, <2>1, <2>2, <2>3, TypedNow, PushOrder
  <2> QED
    BY <2>4
<1>3. issued' = [issued EXCEPT ![p].to = @ + 1]
  BY <1>1 DEF issued
<1>4. Log!Issue(p)
  BY <1>1, <1>3 DEF Log!Issue, issued
<1> QED
  BY <1>2, <1>4 DEF Log!Next

LEMMA OrderSteps ==
  /\ Init => OrderInd /\ Log!Init
  /\ TypeInd /\ OrderInd /\ CountInd' /\ [Next]_vars
       => OrderInd' /\ [Log!Next]_(Log!vars)
<1>1. Init => OrderInd /\ Log!Init
  <2> SUFFICES ASSUME Init PROVE OrderInd /\ Log!Init
    OBVIOUS
  <2>1. \A u \in Procs : Live(queue[u]) = {}
    BY InitFacts DEF Init
  <2>2. sock = <<>> /\ file = <<>>
    BY DEF Init
  <2>3. Ordered(queue, sock, file, first_seq, next_seq)
    BY <2>1, <2>2 DEF Ordered, QueueOrder, SockOrder, FileOrder
  <2>4. Unborn
    BY DEF Init, Unborn
  <2>5. Log!Init
    BY DEF Init, Log!Init
  <2> QED
    BY <2>3, <2>4, <2>5 DEF OrderInd
<1>2. TypeInd /\ OrderInd /\ CountInd' /\ [Next]_vars
        => OrderInd' /\ [Log!Next]_(Log!vars)
  <2> SUFFICES ASSUME TypeInd, OrderInd, CountInd', [Next]_vars
               PROVE  /\ Ordered(queue', sock', file', first_seq', next_seq')
                      /\ [Log!Next]_(Log!vars)
    BY DEF OrderInd, CountInd
  <2>0. /\ Typed(queue, sock, file, first_seq, next_seq)
        /\ Ordered(queue, sock, file, first_seq, next_seq)
    BY TypedNow DEF OrderInd
  <2> DEFINE Goal == /\ Ordered(queue', sock', file', first_seq', next_seq')
                     /\ [Log!Next]_(Log!vars)
  <2>1. ASSUME NEW p \in Procs, fork(p) PROVE Goal
    <3>1. /\ next_seq \in [Procs -> Nat]
          /\ first_seq \in [Procs -> Nat]
          /\ next_seq' = [next_seq EXCEPT ![p] = next_seq[Master]]
          /\ first_seq' = [first_seq EXCEPT ![p] = next_seq[Master]]
          /\ UNCHANGED <<queue, sock, file>>
          /\ first_seq[p] = next_seq[p]
      BY <2>1 DEF fork, TypeInd, TypeOK, OrderInd, Unborn, daemonVars
    <3>2. Ordered(queue, sock, file, first_seq', next_seq')
      <4>1. \A u \in Procs : u # p => /\ first_seq'[u] = first_seq[u]
                                      /\ next_seq'[u] = next_seq[u]
        BY <3>1
      <4> QED
        BY <2>0, <3>1, <4>1, BeginOrder
    <3>3. issued' = [issued EXCEPT ![p] = [from |-> issued'[p].from,
                                           to |-> issued'[p].from]]
      BY <3>1 DEF issued
    <3>4. /\ issued[p].from = issued[p].to
          /\ file' = file
      BY <3>1 DEF issued
    <3>5. Log!Next
      BY <3>3, <3>4 DEF Log!Next, Log!Begin, issued
    <3> QED
      BY <3>1, <3>2, <3>5
  <2>2. ASSUME NEW p \in Procs, log_client_push(p) \/ shutting_down(p) PROVE Goal
    <3>1. Push(p) /\ UNCHANGED <<first_seq, sock, file>>
      BY <2>2 DEF log_client_push, shutting_down, daemonVars
    <3> QED
      BY <3>1, PushImplements
  <2>3. ASSUME NEW p \in Procs, drain_one(p) PROVE Goal
    <3>1. /\ ~Q!empty(queue[p])
          /\ queue' = [queue EXCEPT ![p] = Q!dequeue(queue[p])]
          /\ sock' = sock \/ sock' = Append(sock, Q!peek(queue[p]))
          /\ UNCHANGED <<first_seq, next_seq, file>>
      BY <2>3 DEF drain_one, SentRemoved, daemonVars
    <3>2. /\ Ordered(queue', sock, file, first_seq, next_seq)
          /\ Ordered(queue', Append(sock, Q!peek(queue[p])), file, first_seq, next_seq)
      BY <2>0, <3>1, TakeOrder
    <3> QED
      BY <3>1, <3>2, LogStutters
  <2>4. ASSUME NEW p \in Procs, log_client_drain(p) \/ drain_end(p) \/ die(p)
        PROVE  Goal
    <3>1. UNCHANGED <<first_seq, next_seq, file, queue, sock>>
      BY <2>4 DEF log_client_drain, drain_end, die, daemonVars
    <3> QED
      BY <2>0, <3>1, LogStutters
  <2>5. CASE receive
    <3>1. /\ sock # <<>>
          /\ sock' = Tail(sock)
          /\ file' = Append(file, Head(sock))
          /\ UNCHANGED <<first_seq, next_seq, queue>>
      BY <2>5 DEF receive, clientVars
    <3> DEFINE v == Head(sock)
    <3>2. /\ v \in Records
          /\ Issued(v, first_seq, next_seq)
          /\ \A i \in DOMAIN file : file[i].pid = v.pid => file[i].seq < v.seq
          /\ Ordered(queue, Tail(sock), Append(file, v), first_seq, next_seq)
      BY <2>0, <3>1, WriteOrder
    <3>3. /\ v.pid \in Procs
          /\ v.seq \in Nat
          /\ v = [pid |-> v.pid, seq |-> v.seq]
          /\ first_seq[v.pid] \in Nat /\ next_seq[v.pid] \in Nat
          /\ first_seq[v.pid] <= v.seq /\ v.seq < next_seq[v.pid]
      BY <3>2 DEF Records, Issued, TypeInd, TypeOK
    <3> HIDE DEF v
    <3>4. v.seq \in issued[v.pid].from..(issued[v.pid].to - 1)
      BY <3>3 DEF issued
    <3>5. file' = Append(file, [pid |-> v.pid, seq |-> v.seq])
      BY <3>1, <3>3 DEF v
    <3>6. Log!Write(v.pid, v.seq)
      BY <3>1, <3>2, <3>4, <3>5 DEF Log!Write, issued
    <3>7. Log!Next
      BY <3>3, <3>4, <3>6 DEF Log!Next, issued
    <3> QED
      BY <3>1, <3>2, <3>7 DEF v
  <2>6. CASE daemon_stop
    <3>1. sock' = <<>> /\ UNCHANGED <<first_seq, next_seq, file, queue>>
      BY <2>6 DEF daemon_stop, clientVars
    <3>2. Ordered(queue, <<>>, file, first_seq, next_seq)
      BY <2>0 DEF Ordered, SockOrder, FileOrder
    <3> QED
      BY <3>1, <3>2, LogStutters
  <2>7. CASE daemon_start \/ handle_sighup \/ reopen \/ UNCHANGED vars
    <3>1. UNCHANGED <<first_seq, next_seq, file, queue, sock>>
      BY <2>7 DEF daemon_start, handle_sighup, reopen, vars, clientVars, daemonVars
    <3> QED
      BY <2>0, <3>1, LogStutters
  <2> QED
    BY <2>1, <2>2, <2>3, <2>4, <2>5, <2>6, <2>7 DEF Next
<1> QED
  BY <1>1, <1>2

LEMMA OrderHolds == Spec => []OrderInd
  BY OrderSteps, LogTypeInductive, CountInductive, PTL DEF Spec

\* Whatever is lost on the way, what reaches the log file is, for each process,
\* a subsequence of what it logged: no line is invented, repeated or out of order
THEOREM LogImplements == Spec => ImplementsLossyLog
  BY OrderSteps, OrderHolds, LogTypeInductive, CountInductive, PTL
  DEF Spec, ImplementsLossyLog, Log!Spec



-----------------------------------------------------------------------------
(* Sums.  SumFunctionOnSet takes the members of a finite set one by one, in an *)
(* order of its own choosing: it is what one gets by taking them in any order. *)

AnyOf(s) == CHOOSE x \in s : TRUE

\* g sums f over each subset of S
Sums(g, f, S) ==
  g = [s \in SUBSET S |-> IF s = {} THEN 0 ELSE f[AnyOf(s)] + g[s \ {AnyOf(s)}]]

\* A set is one of its members and the rest, which is smaller
LEMMA TakeAny ==
  ASSUME NEW s, IsFiniteSet(s), s # {}
  PROVE  /\ AnyOf(s) \in s
         /\ \A x \in s : /\ IsFiniteSet(s \ {x}) /\ Cardinality(s \ {x}) \in Nat
                         /\ Cardinality(s) \in Nat /\ Cardinality(s) = Cardinality(s \ {x}) + 1
<1>1. AnyOf(s) \in s
  BY DEF AnyOf
<1>2. ASSUME NEW x \in s PROVE /\ IsFiniteSet(s \ {x}) /\ Cardinality(s \ {x}) \in Nat
                               /\ Cardinality(s) \in Nat /\ Cardinality(s) = Cardinality(s \ {x}) + 1
  <2>1. IsFiniteSet(s \ {x}) /\ Cardinality(s \ {x}) = Cardinality(s) - 1
    BY FS_RemoveElement
  <2>2. Cardinality(s) \in Nat /\ Cardinality(s \ {x}) \in Nat
    BY <2>1, FS_CardinalityType
  <2> QED
    BY <2>1, <2>2
<1> QED
  BY <1>1, <1>2

LEMMA SumsExists ==
  ASSUME NEW f, NEW S, IsFiniteSet(S)
  PROVE  \E g : Sums(g, f, S)
<1> DEFINE D(n) == {s \in SUBSET S : Cardinality(s) <= n}
           R(g, n) == g = [s \in D(n) |-> IF s = {} THEN 0 ELSE f[AnyOf(s)] + g[s \ {AnyOf(s)}]]
           T == {n \in Nat : \E g : R(g, n)}
<1>0. \A s \in SUBSET S : IsFiniteSet(s) /\ Cardinality(s) \in Nat
  BY FS_Subset, FS_CardinalityType
<1>1. 0 \in T
  <2>1. PICK g : g = [s \in D(0) |-> 0]
    OBVIOUS
  <2>2. \A s \in D(0) : s = {}
    <3>1. ASSUME NEW s \in D(0) PROVE s = {}
      <4>1. IsFiniteSet(s) /\ Cardinality(s) \in Nat /\ Cardinality(s) <= 0
        BY <1>0
      <4> QED
        BY <4>1, FS_EmptySet
    <3> QED
      BY <3>1
  <2>3. R(g, 0)
    BY <2>1, <2>2
  <2> QED
    BY <2>3
<1>2. ASSUME NEW n \in Nat, n \in T PROVE n + 1 \in T
  <2>1. PICK g : R(g, n)
    BY <1>2
  <2>2. PICK h : h = [s \in D(n + 1) |-> IF s = {} THEN 0 ELSE f[AnyOf(s)] + g[s \ {AnyOf(s)}]]
    OBVIOUS
  <2>3. \A s \in D(n) : s \in D(n + 1) /\ h[s] = g[s]
    <3>1. ASSUME NEW s \in D(n) PROVE s \in D(n + 1) /\ h[s] = g[s]
      <4>1. s \in D(n + 1)
        BY <1>0
      <4>2. h[s] = IF s = {} THEN 0 ELSE f[AnyOf(s)] + g[s \ {AnyOf(s)}]
        BY <2>2, <4>1
      <4>3. g[s] = IF s = {} THEN 0 ELSE f[AnyOf(s)] + g[s \ {AnyOf(s)}]
        BY <2>1
      <4> QED
        BY <4>1, <4>2, <4>3
    <3> QED
      BY <3>1
  <2>4. ASSUME NEW s \in D(n + 1), s # {} PROVE s \ {AnyOf(s)} \in D(n)
    <3>1. /\ AnyOf(s) \in s /\ Cardinality(s \ {AnyOf(s)}) \in Nat
          /\ Cardinality(s) \in Nat /\ Cardinality(s) = Cardinality(s \ {AnyOf(s)}) + 1
      BY <1>0, <2>4, TakeAny
    <3>2. Cardinality(s) <= n + 1 /\ s \ {AnyOf(s)} \in SUBSET S
      OBVIOUS
    <3> QED
      BY <3>1, <3>2
  <2>5. \A s \in D(n + 1) : h[s] = IF s = {} THEN 0 ELSE f[AnyOf(s)] + h[s \ {AnyOf(s)}]
    <3> HIDE DEF D
    <3> QED
      BY <2>2, <2>3, <2>4
  <2>6. R(h, n + 1)
    <3> HIDE DEF D
    <3>1. h = [s \in D(n + 1) |-> h[s]]
      BY <2>2
    <3> QED
      BY <2>5, <3>1
  <2>7. n + 1 \in Nat
    OBVIOUS
  <2> HIDE DEF D, R
  <2> QED
    BY <2>6, <2>7
<1>3. Cardinality(S) \in T
  <2> HIDE DEF T
  <2>1. Nat \subseteq T
    BY <1>1, <1>2, SetInduction
  <2> QED
    BY <1>0, <2>1
<1>4. D(Cardinality(S)) = SUBSET S
  <2>1. ASSUME NEW s \in SUBSET S PROVE Cardinality(s) <= Cardinality(S)
    BY FS_Subset
  <2> QED
    BY <2>1
<1>5. PICK g : R(g, Cardinality(S))
  BY <1>3
<1>6. Sums(g, f, S)
  BY <1>4, <1>5 DEF Sums
<1> QED
  BY <1>6

\* Two sums of the same numbers are equal, whatever sets they are part of
LEMMA SumsAgree ==
  ASSUME NEW g, NEW f, NEW S, Sums(g, f, S), NEW g2, NEW f2, NEW S2, Sums(g2, f2, S2),
         NEW s, IsFiniteSet(s), s \subseteq S, s \subseteq S2, \A x \in s : f[x] = f2[x]
  PROVE  g[s] = g2[s]
<1> DEFINE T == {n \in Nat : \A t \in SUBSET s : Cardinality(t) = n => g[t] = g2[t]}
<1>0. \A t \in SUBSET s : IsFiniteSet(t) /\ Cardinality(t) \in Nat
  BY FS_Subset, FS_CardinalityType
<1>a. \A t \in SUBSET s : /\ g[t] = IF t = {} THEN 0 ELSE f[AnyOf(t)] + g[t \ {AnyOf(t)}]
                          /\ g2[t] = IF t = {} THEN 0 ELSE f2[AnyOf(t)] + g2[t \ {AnyOf(t)}]
  <2>1. \A t \in SUBSET S : g[t] = IF t = {} THEN 0 ELSE f[AnyOf(t)] + g[t \ {AnyOf(t)}]
    BY DEF Sums
  <2>2. \A t \in SUBSET S2 : g2[t] = IF t = {} THEN 0 ELSE f2[AnyOf(t)] + g2[t \ {AnyOf(t)}]
    BY DEF Sums
  <2> QED
    BY <2>1, <2>2
<1>1. 0 \in T
  <2>1. ASSUME NEW t \in SUBSET s, Cardinality(t) = 0 PROVE g[t] = g2[t]
    <3>1. t = {}
      BY <1>0, <2>1, FS_EmptySet
    <3> QED
      BY <1>a, <3>1
  <2> QED
    BY <2>1
<1>2. ASSUME NEW n \in Nat, n \in T PROVE n + 1 \in T
  <2>1. ASSUME NEW t \in SUBSET s, Cardinality(t) = n + 1 PROVE g[t] = g2[t]
    <3>1. t # {}
      BY <2>1, FS_EmptySet
    <3>2. PICK x, r : x = AnyOf(t) /\ r = t \ {x}
      OBVIOUS
    <3>3. /\ x \in t /\ Cardinality(r) \in Nat /\ Cardinality(t) \in Nat
          /\ Cardinality(t) = Cardinality(r) + 1
      BY <1>0, <3>1, <3>2, TakeAny
    <3>4. Cardinality(r) = n /\ r \in SUBSET s
      BY <2>1, <3>2, <3>3
    <3>5. g[r] = g2[r]
      BY <1>2, <3>4
    <3>6. g[t] = f[x] + g[r] /\ g2[t] = f2[x] + g2[r] /\ f[x] = f2[x]
      BY <1>a, <3>1, <3>2, <3>3
    <3> QED
      BY <3>5, <3>6
  <2> QED
    BY <2>1
<1>3. Nat \subseteq T
  <2> HIDE DEF T
  <2> QED
    BY <1>1, <1>2, SetInduction
<1>4. s \in SUBSET s /\ Cardinality(s) \in Nat
  BY <1>0
<1> QED
  BY <1>3, <1>4

LEMMA SumIs ==
  ASSUME NEW f, NEW S, IsFiniteSet(S), NEW g, NEW f2, NEW T, Sums(g, f2, T), S \subseteq T,
         \A x \in S : f[x] = f2[x]
  PROVE  SumFunctionOnSet(f, S) = g[S]
<1>1. SumFunctionOnSet(f, S) = (CHOOSE h : Sums(h, f, S))[S]
  BY DEF SumFunctionOnSet, FoldFunctionOnSet, MapThenFoldSet, Sums, AnyOf
<1>2. PICK h : h = CHOOSE k : Sums(k, f, S)
  OBVIOUS
<1>3. Sums(h, f, S)
  <2>1. \E k : Sums(k, f, S)
    BY SumsExists
  <2> QED
    BY <1>2, <2>1, Zenon
<1>4. h[S] = g[S]
  BY <1>3, SumsAgree
<1> QED
  BY <1>1, <1>2, <1>4

LEMMA SumNone == \A f : SumFunctionOnSet(f, {}) = 0
<1> SUFFICES ASSUME NEW f PROVE SumFunctionOnSet(f, {}) = 0
  OBVIOUS
<1>1. IsFiniteSet({})
  BY FS_EmptySet
<1>2. PICK g : Sums(g, f, {})
  BY <1>1, SumsExists
<1>3. g[{}] = 0
  BY <1>2 DEF Sums
<1> QED
  BY <1>1, <1>2, <1>3, SumIs

\* Sums of the same numbers over the same set
LEMMA SumSame ==
  ASSUME NEW S, IsFiniteSet(S), NEW f, NEW f2, \A x \in S : f[x] = f2[x]
  PROVE  SumFunctionOnSet(f, S) = SumFunctionOnSet(f2, S)
<1>1. PICK g : Sums(g, f2, S)
  BY SumsExists
<1>2. SumFunctionOnSet(f, S) = g[S]
  BY <1>1, SumIs
<1>3. SumFunctionOnSet(f2, S) = g[S]
  BY <1>1, SumIs
<1> QED
  BY <1>2, <1>3

LEMMA SumFirst ==
  ASSUME NEW S, IsFiniteSet(S), S # {}, NEW f
  PROVE  SumFunctionOnSet(f, S) = f[AnyOf(S)] + SumFunctionOnSet(f, S \ {AnyOf(S)})
<1>1. PICK g : Sums(g, f, S)
  BY SumsExists
<1>2. PICK r : r = S \ {AnyOf(S)}
  OBVIOUS
<1>3. g[S] = f[AnyOf(S)] + g[r]
  BY <1>1, <1>2 DEF Sums
<1>4. IsFiniteSet(r) /\ r \subseteq S
  BY <1>2, FS_Subset
<1>5. SumFunctionOnSet(f, S) = g[S]
  BY <1>1, SumIs
<1>6. SumFunctionOnSet(f, r) = g[r]
  BY <1>1, <1>4, SumIs
<1> QED
  BY <1>2, <1>3, <1>5, <1>6

\* A sum of integers is an integer, and any member can be taken first
LEMMA SumAny ==
  ASSUME NEW S, IsFiniteSet(S), NEW f, \A x \in S : f[x] \in Int
  PROVE  /\ SumFunctionOnSet(f, S) \in Int
         /\ \A x \in S : /\ SumFunctionOnSet(f, S \ {x}) \in Int
                         /\ SumFunctionOnSet(f, S) = f[x] + SumFunctionOnSet(f, S \ {x})
<1> DEFINE Sum(t) == SumFunctionOnSet(f, t)
           Good(t) == Sum(t) \in Int /\ \A x \in t : Sum(t \ {x}) \in Int /\ Sum(t) = f[x] + Sum(t \ {x})
           T == {n \in Nat : \A t \in SUBSET S : Cardinality(t) = n => Good(t)}
<1>0. \A t \in SUBSET S : IsFiniteSet(t) /\ Cardinality(t) \in Nat
  BY FS_Subset, FS_CardinalityType
<1>a. ASSUME NEW t \in SUBSET S, t # {}
      PROVE  AnyOf(t) \in t /\ Sum(t) = f[AnyOf(t)] + Sum(t \ {AnyOf(t)})
  BY <1>0, <1>a, SumFirst, TakeAny
<1>b. Sum({}) = 0
  BY SumNone
<1> HIDE DEF Sum
<1>1. 0 \in T
  <2>1. ASSUME NEW t \in SUBSET S, Cardinality(t) = 0 PROVE Good(t)
    <3>1. t = {}
      BY <1>0, <2>1, FS_EmptySet
    <3> QED
      BY <1>b, <3>1
  <2> QED
    BY <2>1
<1>2. ASSUME NEW n \in Nat, n \in T PROVE n + 1 \in T
  <2>0. \A t \in SUBSET S : Cardinality(t) = n => Good(t)
    BY <1>2
  <2>1. ASSUME NEW t \in SUBSET S, Cardinality(t) = n + 1 PROVE Good(t)
    <3>1. t # {}
      BY <2>1, FS_EmptySet
    <3>2. \A x \in t : Cardinality(t \ {x}) = n /\ t \ {x} \in SUBSET S
      <4>1. \A x \in t : /\ Cardinality(t \ {x}) \in Nat
                         /\ Cardinality(t) \in Nat /\ Cardinality(t) = Cardinality(t \ {x}) + 1
        BY <1>0, <3>1, TakeAny
      <4> QED
        BY <2>1, <4>1
    <3>3. \A x \in t : Good(t \ {x})
      <4> HIDE DEF Good
      <4> QED
        BY <2>0, <3>2
    <3>4. PICK y : y = AnyOf(t)
      OBVIOUS
    <3>5. y \in t /\ Sum(t) = f[y] + Sum(t \ {y})
      BY <1>a, <3>1, <3>4
    <3>6. \A x \in t : f[x] \in Int /\ Sum(t \ {x}) \in Int
      BY <3>3
    <3>7. ASSUME NEW x \in t PROVE Sum(t) = f[x] + Sum(t \ {x})
      <4>1. CASE x = y
        BY <3>5, <4>1
      <4>2. CASE x # y
        <5>1. PICK u : u = (t \ {y}) \ {x}
          OBVIOUS
        <5>2. u = (t \ {x}) \ {y} /\ x \in t \ {y} /\ y \in t \ {x}
          BY <3>5, <4>2, <5>1
        <5>3. Sum(t \ {y}) = f[x] + Sum(u) /\ Sum(u) \in Int
          BY <3>3, <3>5, <5>1, <5>2
        <5>4. Sum(t \ {x}) = f[y] + Sum(u)
          BY <3>3, <5>2
        <5> QED
          BY <3>5, <3>6, <5>3, <5>4
      <4> QED
        BY <4>1, <4>2
    <3>8. Sum(t) \in Int
      BY <3>5, <3>6
    <3> QED
      BY <3>6, <3>7, <3>8
  <2> QED
    BY <2>1
<1>3. Nat \subseteq T
  <2> HIDE DEF T
  <2> QED
    BY <1>1, <1>2, SetInduction
<1>4. S \in SUBSET S /\ Cardinality(S) \in Nat
  BY <1>0
<1>5. Good(S)
  BY <1>3, <1>4
<1> QED
  BY <1>5 DEF Sum

LEMMA SumInsert ==
  ASSUME NEW S, IsFiniteSet(S), NEW p, p \notin S, NEW f, \A x \in S \cup {p} : f[x] \in Int
  PROVE  SumFunctionOnSet(f, S \cup {p}) = f[p] + SumFunctionOnSet(f, S)
<1>1. PICK W : W = S \cup {p}
  OBVIOUS
<1>2. IsFiniteSet(W) /\ p \in W /\ W \ {p} = S
  BY <1>1, FS_AddElement
<1>3. SumFunctionOnSet(f, W) = f[p] + SumFunctionOnSet(f, W \ {p})
  BY <1>1, <1>2, SumAny
<1> QED
  BY <1>1, <1>2, <1>3

\* One summand changes
LEMMA SumChange ==
  ASSUME NEW S, IsFiniteSet(S), NEW p \in S, NEW f, NEW f2, \A x \in S : f[x] \in Int /\ f2[x] \in Int,
         \A x \in S \ {p} : f[x] = f2[x]
  PROVE  SumFunctionOnSet(f2, S) = SumFunctionOnSet(f, S) + (f2[p] - f[p])
<1>1. PICK r : r = S \ {p}
  OBVIOUS
<1>2. IsFiniteSet(r)
  BY <1>1, FS_Subset
<1>3. SumFunctionOnSet(f, r) = SumFunctionOnSet(f2, r)
  BY <1>1, <1>2, SumSame
<1>4. SumFunctionOnSet(f, S) = f[p] + SumFunctionOnSet(f, r) /\ SumFunctionOnSet(f, r) \in Int
  BY <1>1, SumAny
<1>5. SumFunctionOnSet(f2, S) = f2[p] + SumFunctionOnSet(f2, r)
  BY <1>1, SumAny
<1> QED
  BY <1>3, <1>4, <1>5

\* Smaller summands, and fewer of them
LEMMA SumLess ==
  ASSUME NEW S, IsFiniteSet(S), NEW R, R \subseteq S, NEW f, NEW f2,
         \A x \in S : f2[x] \in Nat, \A x \in R : f[x] \in Nat /\ f[x] <= f2[x]
  PROVE  SumFunctionOnSet(f, R) <= SumFunctionOnSet(f2, S)
<1> DEFINE Sum(t) == SumFunctionOnSet(f, t)
           Sum2(t) == SumFunctionOnSet(f2, t)
           T == {n \in Nat : \A t \in SUBSET S : Cardinality(t) = n => Sum(t \cap R) <= Sum2(t)}
<1>0. \A t \in SUBSET S : IsFiniteSet(t) /\ Cardinality(t) \in Nat /\ IsFiniteSet(t \cap R)
  <2>1. ASSUME NEW t \in SUBSET S PROVE IsFiniteSet(t) /\ Cardinality(t) \in Nat /\ IsFiniteSet(t \cap R)
    <3>1. IsFiniteSet(t) /\ Cardinality(t) \in Nat
      BY FS_Subset, FS_CardinalityType
    <3>2. t \cap R \subseteq t
      OBVIOUS
    <3> QED
      BY <3>1, <3>2, FS_Subset
  <2> QED
    BY <2>1
<1>a. ASSUME NEW t \in SUBSET S
      PROVE  /\ Sum2(t) \in Int
             /\ \A x \in t : Sum2(t \ {x}) \in Int /\ Sum2(t) = f2[x] + Sum2(t \ {x})
  <2>1. IsFiniteSet(t)
    BY <1>0
  <2>2. \A x \in t : f2[x] \in Nat
    OBVIOUS
  <2>3. \A x \in t : f2[x] \in Int
    BY ONLY <2>2
  <2> QED
    BY <2>1, <2>3, SumAny
<1>b. ASSUME NEW t, t \subseteq R, IsFiniteSet(t)
      PROVE  /\ Sum(t) \in Int
             /\ \A x \in t : Sum(t \ {x}) \in Int /\ Sum(t) = f[x] + Sum(t \ {x})
  BY <1>b, SumAny
<1>c. Sum({}) = 0 /\ Sum2({}) = 0
  BY SumNone
<1> HIDE DEF Sum, Sum2
<1>1. 0 \in T
  <2>1. ASSUME NEW t \in SUBSET S, Cardinality(t) = 0 PROVE Sum(t \cap R) <= Sum2(t)
    <3>1. t = {} /\ t \cap R = {}
      BY <1>0, <2>1, FS_EmptySet
    <3> QED
      BY <1>c, <3>1
  <2> QED
    BY <2>1
<1>2. ASSUME NEW n \in Nat, n \in T PROVE n + 1 \in T
  <2>0. \A t \in SUBSET S : Cardinality(t) = n => Sum(t \cap R) <= Sum2(t)
    BY <1>2
  <2>1. ASSUME NEW t \in SUBSET S, Cardinality(t) = n + 1 PROVE Sum(t \cap R) <= Sum2(t)
    <3>1. t # {}
      BY <2>1, FS_EmptySet
    <3>2. PICK y : y \in t
      BY <3>1
    <3>3. PICK r : r = t \ {y}
      OBVIOUS
    <3>4. Cardinality(r) = n /\ r \in SUBSET S
      <4>1. /\ Cardinality(t \ {y}) \in Nat
            /\ Cardinality(t) \in Nat /\ Cardinality(t) = Cardinality(t \ {y}) + 1
        BY <1>0, <3>1, <3>2, TakeAny
      <4> QED
        BY <2>1, <3>3, <4>1
    <3>5. Sum(r \cap R) <= Sum2(r)
      BY <2>0, <3>4
    <3>6. Sum2(t) = f2[y] + Sum2(r) /\ Sum2(r) \in Int /\ f2[y] \in Nat
      BY <1>a, <3>2, <3>3
    <3>7. CASE y \in R
      <4>1. PICK v : v = t \cap R
        OBVIOUS
      <4>2. v \ {y} = r \cap R /\ y \in v /\ v \subseteq R /\ IsFiniteSet(v)
        BY <1>0, <3>2, <3>3, <3>7, <4>1
      <4>3. Sum(v) = f[y] + Sum(v \ {y}) /\ Sum(v \ {y}) \in Int
        BY <1>b, <4>2
      <4> QED
        BY <3>5, <3>6, <3>7, <4>1, <4>2, <4>3
    <3>8. CASE y \notin R
      <4>1. t \cap R = r \cap R
        BY <3>3, <3>8
      <4>2. Sum(r \cap R) \in Int
        <5>1. r \cap R \subseteq R /\ IsFiniteSet(r \cap R)
          BY <1>0, <3>4
        <5> QED
          BY <1>b, <5>1
      <4>3. Sum(t \cap R) = Sum(r \cap R)
        BY <4>1
      <4>4. Sum(r \cap R) <= f2[y] + Sum2(r)
        BY ONLY <3>5, <3>6, <4>2
      <4> QED
        BY ONLY <3>6, <4>3, <4>4
    <3> QED
      BY <3>7, <3>8
  <2> QED
    BY <2>1
<1>3. Nat \subseteq T
  <2> HIDE DEF T
  <2> QED
    BY <1>1, <1>2, SetInduction
<1>4. S \in SUBSET S /\ Cardinality(S) \in Nat /\ S \cap R = R
  BY <1>0
<1>5. Sum(S \cap R) <= Sum2(S)
  BY <1>3, <1>4
<1> QED
  BY <1>4, <1>5 DEF Sum, Sum2

-----------------------------------------------------------------------------
(* The numbers missing from a set of numbers *)

Spread(N) == IF N = {} THEN 0 ELSE Max(N) - Min(N) + 1 - Cardinality(N)

\* They are the ones between the least and the greatest that are not in it
LEMMA SpreadIs ==
  ASSUME NEW N, N \subseteq Nat, NEW a \in N, NEW m \in N, \A y \in N : a <= y /\ y <= m
  PROVE  /\ Spread(N) = m - a + 1 - Cardinality(N)
         /\ IsFiniteSet(N) /\ Cardinality(N) \in Nat
         /\ Spread(N) = Cardinality((a..m) \ N)
         /\ Spread(N) \in Nat
<1>1. Max(N) = m
  <2>1. \A x \in N : (\A y \in N : x >= y) <=> x = m
    OBVIOUS
  <2> QED
    BY <2>1 DEF Max
<1>2. Min(N) = a
  <2>1. \A x \in N : (\A y \in N : x =< y) <=> x = a
    OBVIOUS
  <2> QED
    BY <2>1 DEF Min
<1>3. a \in Nat /\ m \in Nat /\ a <= m /\ N \subseteq a..m
  OBVIOUS
<1>a. a \in Int /\ m \in Int
  BY <1>3
<1>4. IsFiniteSet(N) /\ Cardinality(N) \in Nat
  BY ONLY <1>3, <1>a, IntervalSubset
<1>5. Spread(N) = m - a + 1 - Cardinality(N)
  BY <1>1, <1>2 DEF Spread
<1>6. IsFiniteSet(a..m) /\ Cardinality(a..m) = m - a + 1
  BY <1>3, FS_Interval
<1>7. PICK H : H = (a..m) \ N
  OBVIOUS
<1>8. (a..m) \cap N = N /\ H \subseteq a..m
  BY <1>3, <1>7
<1>9. Cardinality(H) = m - a + 1 - Cardinality(N)
  <2>1. PICK A : A = a..m
    OBVIOUS
  <2>2. Cardinality(A \ N) = Cardinality(A) - Cardinality(A \cap N)
    BY <1>6, <2>1, FS_Difference
  <2>3. H = A \ N /\ A \cap N = N /\ Cardinality(A) = m - a + 1
    BY <1>6, <1>7, <1>8, <2>1, Zenon
  <2>4. Cardinality(H) = Cardinality(A \ N)
    BY <2>3, Zenon
  <2>5. Cardinality(A \cap N) = Cardinality(N)
    BY <2>3, Zenon
  <2> QED
    BY ONLY <1>4, <1>a, <2>2, <2>3, <2>4, <2>5
<1>10. Cardinality(H) \in Nat
  BY ONLY <1>8, <1>a, IntervalSubset
<1> QED
  BY <1>4, <1>5, <1>7, <1>9, <1>10

LEMMA SpreadOne == \A n \in Nat : Spread({n}) = 0
<1> SUFFICES ASSUME NEW n \in Nat PROVE Spread({n}) = 0
  OBVIOUS
<1>1. Spread({n}) = n - n + 1 - Cardinality({n})
  <2>1. PICK N : N = {n}
    OBVIOUS
  <2>2. N \subseteq Nat /\ n \in N /\ \A y \in N : n <= y /\ y <= n
    BY <2>1
  <2>3. Spread(N) = n - n + 1 - Cardinality(N)
    BY <2>2, SpreadIs
  <2> QED
    BY <2>1, <2>3
<1>2. Cardinality({n}) = 1
  BY FS_Singleton
<1> QED
  BY <1>1, <1>2

\* A number beyond the greatest adds those it skips
LEMMA SpreadAdd ==
  ASSUME NEW N, N \subseteq Nat, NEW m \in N, \A y \in N : y <= m, NEW n \in Nat, m < n
  PROVE  Spread(N) \in Nat /\ Spread(N \cup {n}) = Spread(N) + (n - m - 1)
<1>1. PICK a \in N : \A y \in N : a <= y
  BY LeastExists
<1>2. PICK M : M = N \cup {n}
  OBVIOUS
<1>3. /\ Spread(N) = m - a + 1 - Cardinality(N) /\ Spread(N) \in Nat
      /\ IsFiniteSet(N) /\ Cardinality(N) \in Nat
  BY <1>1, SpreadIs
<1>4. M \subseteq Nat /\ a \in M /\ n \in M /\ \A y \in M : a <= y /\ y <= n
  BY <1>1, <1>2
<1>5. Spread(M) = n - a + 1 - Cardinality(M)
  BY <1>4, SpreadIs
<1>6. n \notin N
  OBVIOUS
<1>7. Cardinality(M) = Cardinality(N) + 1
  BY <1>2, <1>3, <1>6, FS_AddElement
<1>8. a \in Nat /\ m \in Nat
  BY <1>1
<1>9. Spread(M) = Spread(N) + (n - m - 1)
  BY ONLY <1>3, <1>5, <1>7, <1>8, n \in Nat
<1> QED
  BY <1>2, <1>3, <1>9

-----------------------------------------------------------------------------
(* The daemon's count.  The table holds each sender it tracks once, with the *)
(* number of its last line of this run; a sender is left out only when the   *)
(* table is full.  So a record either continues a tracked sender, whose      *)
(* missing numbers grow by the gap, or is the first one of its sender.  The  *)
(* operators take the table, the file and the start of the run as values.    *)

\* The numbers of p's lines behind the first rs lines of the file f
Nums(f, rs, p) == {f[i].seq : i \in {j \in (rs + 1)..Len(f) : f[j].pid = p}}

Absent(f, rs) == [p \in Procs |-> Spread(Nums(f, rs, p))]

Seen(t) == {p \in Procs : \E i \in DOMAIN t : t[i].pid = p}

Follows(t, f, rs) ==
  /\ \A i \in DOMAIN t : /\ t[i].pid \in Procs
                         /\ t[i].last_seq \in Nums(f, rs, t[i].pid)
                         /\ \A y \in Nums(f, rs, t[i].pid) : y <= t[i].last_seq
  /\ \A i, j \in DOMAIN t : t[i].pid = t[j].pid => i = j
  /\ Len(t) < MaxTracked => \A p \in Procs : Nums(f, rs, p) # {} => p \in Seen(t)

GapsInd ==
  /\ run_start <= Len(file)
  /\ Follows(trackers, file, run_start)
  /\ GapsExact

LEMMA GapsAre ==
  GapsExact <=> total = SumFunctionOnSet(Absent(file, run_start), Seen(trackers))
<1>1. \A p \in Procs : Missing(p) = Spread(Nums(file, run_start, p))
  BY DEF Missing, Spread, Nums, Written
<1>2. [p \in Procs |-> Missing(p)] = Absent(file, run_start)
  BY <1>1 DEF Absent
<1>3. {p \in Procs : Tracks(p)} = Seen(trackers)
  BY DEF Seen, Tracks
<1> QED
  BY <1>2, <1>3 DEF GapsExact

\* A line written: its number joins those of its sender
LEMMA NumsAppend ==
  ASSUME NEW f \in Seq(Records), NEW rs \in Nat, rs <= Len(f), NEW rec \in Records
  PROVE  /\ \A p \in Procs : Nums(f, rs, p) \subseteq Nat
         /\ \A p \in Procs : p # rec.pid => Nums(Append(f, rec), rs, p) = Nums(f, rs, p)
         /\ Nums(Append(f, rec), rs, rec.pid) = Nums(f, rs, rec.pid) \cup {rec.seq}
<1>1. PICK g : g = Append(f, rec)
  OBVIOUS
<1>2. /\ Len(f) \in Nat /\ DOMAIN f = 1..Len(f) /\ Len(g) = Len(f) + 1
      /\ \A i \in DOMAIN f : g[i] = f[i]
      /\ g[Len(f) + 1] = rec
  BY <1>1
<1>3. \A i \in DOMAIN f : f[i].seq \in Nat
  <2>1. \A i \in DOMAIN f : f[i] \in Records
    OBVIOUS
  <2> QED
    BY <2>1 DEF Records
<1>4. \A i \in (rs + 1)..Len(f) : i \in DOMAIN f
  BY <1>2
<1>5. \A p \in Procs : Nums(f, rs, p) \subseteq Nat
  BY <1>3, <1>4 DEF Nums
<1>6. \A i : i \in (rs + 1)..Len(g) <=> i \in (rs + 1)..Len(f) \/ i = Len(f) + 1
  BY <1>2
<1>7. \A p \in Procs : p # rec.pid => Nums(g, rs, p) = Nums(f, rs, p)
  BY <1>2, <1>4, <1>6 DEF Nums
<1>8. Nums(g, rs, rec.pid) = Nums(f, rs, rec.pid) \cup {rec.seq}
  <2>1. ASSUME NEW x PROVE x \in Nums(g, rs, rec.pid) <=> x \in Nums(f, rs, rec.pid) \/ x = rec.seq
    BY <1>2, <1>4, <1>6 DEF Nums
  <2> QED
    BY <2>1
<1> QED
  BY <1>1, <1>5, <1>7, <1>8

\* A record is handled as one of three: its sender is tracked, or gets an entry,
\* or finds the table full
LEMMA TrackerCases ==
  ASSUME NEW t \in Seq(TrackerRec), NEW rec \in Records,
         \A i, j \in DOMAIN t : t[i].pid = t[j].pid => i = j
  PROVE  \/ \E k \in DOMAIN t :
              /\ t[k].pid = rec.pid
              /\ Tracked(t, rec) = [t EXCEPT ![k] = [pid |-> rec.pid, last_seq |-> rec.seq]]
              /\ rec.seq > t[k].last_seq => Gap(t, rec) = rec.seq - t[k].last_seq - 1
         \/ /\ \A i \in DOMAIN t : t[i].pid # rec.pid
            /\ Gap(t, rec) = 0
            /\ \/ /\ Len(t) < MaxTracked
                  /\ Tracked(t, rec) = Append(t, [pid |-> rec.pid, last_seq |-> rec.seq])
               \/ /\ ~(Len(t) < MaxTracked)
                  /\ Tracked(t, rec) = t
<1>0. Len(t) \in Nat /\ DOMAIN t = 1..Len(t)
  OBVIOUS
<1>1. CASE \E i \in DOMAIN t : t[i].pid = rec.pid
  <2>1. PICK k : k = TrackerOf(t, rec.pid)
    OBVIOUS
  <2>2. k \in DOMAIN t /\ t[k].pid = rec.pid
    BY <1>1, <2>1 DEF TrackerOf
  <2>3. k # 0
    BY <1>0, <2>2
  <2>4. Tracked(t, rec) = [t EXCEPT ![k] = [pid |-> rec.pid, last_seq |-> rec.seq]]
    BY <2>1, <2>2, <2>3 DEF Tracked
  <2>5. ASSUME rec.seq > t[k].last_seq PROVE Gap(t, rec) = rec.seq - t[k].last_seq - 1
    <3>1. rec.seq \in Nat /\ t[k] \in TrackerRec
      BY <2>2 DEF Records
    <3>2. t[k].last_seq \in Nat
      BY <3>1 DEF TrackerRec
    <3>3. Gap(t, rec) = IF rec.seq # t[k].last_seq + 1 THEN rec.seq - t[k].last_seq - 1 ELSE 0
      BY <2>1, <2>2, <2>5 DEF Gap
    <3> QED
      BY ONLY <3>1, <3>2, <3>3
  <2> QED
    BY <2>2, <2>4, <2>5
<1>2. CASE ~ \E i \in DOMAIN t : t[i].pid = rec.pid
  <2>1. PICK k : k = TrackerOf(t, rec.pid)
    OBVIOUS
  <2>2. k = IF Len(t) < MaxTracked THEN Len(t) + 1 ELSE 0
    BY <1>2, <2>1 DEF TrackerOf
  <2>3. k \notin DOMAIN t
    BY <1>0, <2>2
  <2>4. Gap(t, rec) = 0
    BY <2>1, <2>3 DEF Gap
  <2>5. CASE Len(t) < MaxTracked
    <3>1. k # 0
      BY <1>0, <2>2, <2>5
    <3>2. Tracked(t, rec) = Append(t, [pid |-> rec.pid, last_seq |-> rec.seq])
      BY <2>1, <2>3, <3>1 DEF Tracked
    <3> QED
      BY <1>2, <2>4, <2>5, <3>2
  <2>6. CASE ~(Len(t) < MaxTracked)
    <3>1. Tracked(t, rec) = t
      BY <2>1, <2>2, <2>6 DEF Tracked
    <3> QED
      BY <1>2, <2>4, <2>6, <3>1
  <2> QED
    BY <2>5, <2>6
<1> QED
  BY <1>1, <1>2

\* The table keeps following the file, and the count takes the new numbers missing
LEMMA CountStep ==
  ASSUME NEW t \in Seq(TrackerRec), NEW f \in Seq(Records), NEW rs \in Nat, rs <= Len(f),
         Follows(t, f, rs), NEW rec \in Records, rec.pid \in Procs,
         \A i \in DOMAIN f : f[i].pid = rec.pid => f[i].seq < rec.seq
  PROVE  /\ Follows(Tracked(t, rec), Append(f, rec), rs)
         /\ SumFunctionOnSet(Absent(Append(f, rec), rs), Seen(Tracked(t, rec)))
              = SumFunctionOnSet(Absent(f, rs), Seen(t)) + Gap(t, rec)
<1>1. PICK g : g = Append(f, rec)
  OBVIOUS
<1>2. PICK e : e = [pid |-> rec.pid, last_seq |-> rec.seq]
  OBVIOUS
<1>3. PICK p \in Procs : p = rec.pid
  OBVIOUS
<1>4. PICK n \in Nat : n = rec.seq
  BY DEF Records
<1>5. /\ \A u \in Procs : Nums(f, rs, u) \subseteq Nat
      /\ \A u \in Procs : u # p => Nums(g, rs, u) = Nums(f, rs, u)
      /\ Nums(g, rs, p) = Nums(f, rs, p) \cup {n}
  <2>1. /\ \A u \in Procs : Nums(f, rs, u) \subseteq Nat
        /\ \A u \in Procs : u # rec.pid => Nums(Append(f, rec), rs, u) = Nums(f, rs, u)
        /\ Nums(Append(f, rec), rs, rec.pid) = Nums(f, rs, rec.pid) \cup {rec.seq}
    BY NumsAppend
  <2> QED
    BY <1>1, <1>3, <1>4, <2>1, Zenon
<1>6. \A y \in Nums(f, rs, p) : y < n
  <2>1. \A i \in (rs + 1)..Len(f) : i \in DOMAIN f
    OBVIOUS
  <2> QED
    BY <1>3, <1>4, <2>1 DEF Nums
<1>7. e.pid = p /\ e.last_seq = n /\ e \in TrackerRec
  BY <1>2, <1>3, <1>4 DEF TrackerRec
<1>8. Len(t) \in Nat /\ DOMAIN t = 1..Len(t)
  OBVIOUS
<1>9. IsFiniteSet(Seen(t)) /\ Seen(t) \subseteq Procs
  <2>1. Seen(t) \subseteq Procs
    BY DEF Seen
  <2> QED
    BY <2>1, LogAssumption, FS_Subset
<1>10. ASSUME NEW u \in Procs, u # p
       PROVE  Absent(g, rs)[u] = Absent(f, rs)[u]
  BY <1>5, <1>10 DEF Absent
<1>11. \A u \in Seen(t) : Absent(f, rs)[u] \in Nat
  <2> SUFFICES ASSUME NEW u \in Seen(t) PROVE Spread(Nums(f, rs, u)) \in Nat
    BY <1>9 DEF Absent
  <2>1. PICK i \in DOMAIN t : u \in Procs /\ t[i].pid = u
    BY DEF Seen
  <2>2. PICK N, m : N = Nums(f, rs, u) /\ m = t[i].last_seq
    OBVIOUS
  <2>3. N \subseteq Nat /\ m \in N /\ \A y \in N : y <= m
    BY <1>5, <2>1, <2>2 DEF Follows
  <2>4. m + 1 \in Nat /\ m < m + 1
    BY <2>3
  <2>5. Spread(N) \in Nat
    BY ONLY <2>3, <2>4, SpreadAdd
  <2> QED
    BY <2>2, <2>5
<1>12. \A i, j \in DOMAIN t : t[i].pid = t[j].pid => i = j
  BY DEF Follows
<1>13. CASE \E k \in DOMAIN t :
              /\ t[k].pid = rec.pid
              /\ Tracked(t, rec) = [t EXCEPT ![k] = [pid |-> rec.pid, last_seq |-> rec.seq]]
              /\ rec.seq > t[k].last_seq => Gap(t, rec) = rec.seq - t[k].last_seq - 1
  <2>1. PICK k \in DOMAIN t :
              /\ t[k].pid = p
              /\ Tracked(t, rec) = [t EXCEPT ![k] = e]
              /\ n > t[k].last_seq => Gap(t, rec) = n - t[k].last_seq - 1
    BY <1>2, <1>3, <1>4, <1>13
  <2>2. PICK r : r = Tracked(t, rec)
    OBVIOUS
  <2>3. /\ DOMAIN r = DOMAIN t /\ Len(r) = Len(t) /\ r[k] = e
        /\ \A i \in DOMAIN t : i # k => r[i] = t[i]
    <3>1. r \in Seq(TrackerRec)
      BY <2>2, TrackerFacts
    <3>2. DOMAIN r = DOMAIN t /\ r[k] = e /\ \A i \in DOMAIN t : i # k => r[i] = t[i]
      BY <2>1, <2>2
    <3> QED
      BY <1>8, <3>1, <3>2
  <2>4. PICK m : m = t[k].last_seq
    OBVIOUS
  <2>5. m \in Nums(f, rs, p) /\ \A y \in Nums(f, rs, p) : y <= m
    BY <2>1, <2>4 DEF Follows
  <2>6. m < n /\ m \in Nat /\ Nums(f, rs, p) \subseteq Nat
    BY <1>5, <1>6, <2>5
  <2>7. Seen(r) = Seen(t) /\ p \in Seen(t)
    BY <1>7, <2>1, <2>3 DEF Seen
  <2>8. Follows(r, g, rs)
    <3>1. ASSUME NEW i \in DOMAIN r
          PROVE  /\ r[i].pid \in Procs
                 /\ r[i].last_seq \in Nums(g, rs, r[i].pid)
                 /\ \A y \in Nums(g, rs, r[i].pid) : y <= r[i].last_seq
      <4>1. CASE i = k
        <5>1. r[i].pid = p /\ r[i].last_seq = n
          BY <1>7, <2>3, <4>1
        <5>2. \A y \in Nums(g, rs, p) : y <= n
          BY <1>5, <1>6
        <5> QED
          BY <1>5, <5>1, <5>2
      <4>2. CASE i # k
        <5>1. r[i] = t[i] /\ t[i].pid # p /\ t[i].pid \in Procs
          BY <1>12, <2>1, <2>3, <4>2 DEF Follows
        <5> QED
          BY <1>5, <2>3, <5>1 DEF Follows
      <4> QED
        BY <4>1, <4>2
    <3>2. \A i, j \in DOMAIN r : r[i].pid = r[j].pid => i = j
      <4>1. \A i \in DOMAIN t : r[i].pid = t[i].pid
        BY <1>7, <2>1, <2>3
      <4> QED
        BY <1>12, <2>3, <4>1
    <3>3. Len(r) < MaxTracked => \A u \in Procs : Nums(g, rs, u) # {} => u \in Seen(r)
      BY <1>5, <2>3, <2>7 DEF Follows
    <3> QED
      BY <3>1, <3>2, <3>3 DEF Follows
  <2>9. SumFunctionOnSet(Absent(g, rs), Seen(r)) = SumFunctionOnSet(Absent(f, rs), Seen(t)) + Gap(t, rec)
    <3>1. Spread(Nums(f, rs, p)) \in Nat /\ Spread(Nums(g, rs, p)) = Spread(Nums(f, rs, p)) + (n - m - 1)
      <4>1. PICK N : N = Nums(f, rs, p)
        OBVIOUS
      <4>2. Spread(N) \in Nat /\ Spread(N \cup {n}) = Spread(N) + (n - m - 1)
        BY ONLY <2>5, <2>6, <4>1, n \in Nat, SpreadAdd
      <4> QED
        BY <1>5, <4>1, <4>2
    <3>2. PICK A, B, S : A = Absent(f, rs) /\ B = Absent(g, rs) /\ S = Seen(t)
      OBVIOUS
    <3>3. A[p] \in Nat /\ B[p] = A[p] + (n - m - 1)
      BY <3>1, <3>2 DEF Absent
    <3>4. /\ \A u \in S : A[u] \in Int /\ B[u] \in Int
          /\ \A u \in S \ {p} : A[u] = B[u]
      <4>1. \A u \in S : u \in Procs /\ A[u] \in Nat
        BY <1>9, <1>11, <3>2
      <4>2. \A u \in S \ {p} : A[u] = B[u]
        BY <1>10, <3>2, <4>1
      <4>3. B[p] \in Int
        BY ONLY <2>6, <3>3, n \in Nat
      <4>4. \A u \in S : A[u] \in Int
        BY ONLY <4>1
      <4> QED
        BY <4>2, <4>3, <4>4
    <3>5. IsFiniteSet(S) /\ p \in S
      BY <1>9, <2>7, <3>2
    <3>6. SumFunctionOnSet(B, S) = SumFunctionOnSet(A, S) + (B[p] - A[p])
      BY ONLY <3>4, <3>5, SumChange
    <3>7. B[p] - A[p] = Gap(t, rec)
      <4>1. Gap(t, rec) = n - m - 1
        BY <2>1, <2>4, <2>6
      <4> QED
        BY ONLY <2>6, <3>3, <4>1, n \in Nat
    <3> QED
      BY <2>7, <3>2, <3>6, <3>7
  <2> QED
    BY <1>1, <2>2, <2>8, <2>9
<1>14. CASE /\ \A i \in DOMAIN t : t[i].pid # rec.pid
            /\ Gap(t, rec) = 0
            /\ Len(t) < MaxTracked
            /\ Tracked(t, rec) = Append(t, [pid |-> rec.pid, last_seq |-> rec.seq])
  <2>1. PICK r : r = Append(t, e)
    OBVIOUS
  <2>2. /\ DOMAIN r = 1..(Len(t) + 1) /\ Len(r) = Len(t) + 1 /\ r[Len(t) + 1] = e
        /\ \A i \in DOMAIN t : r[i] = t[i]
    BY <1>7, <2>1
  <2>3. r = Tracked(t, rec) /\ p \notin Seen(t) /\ Gap(t, rec) = 0 /\ \A i \in DOMAIN t : t[i].pid # p
    BY <1>2, <1>3, <1>14, <2>1 DEF Seen
  <2>4. Nums(f, rs, p) = {} /\ Nums(g, rs, p) = {n}
    BY <1>5, <1>14, <2>3 DEF Follows
  <2>a. \A i \in DOMAIN r : i \in DOMAIN t \/ i = Len(t) + 1
    BY <1>8, <2>2
  <2>b. \A i \in DOMAIN t : i \in DOMAIN r
    BY <1>8, <2>2
  <2>c. Len(t) + 1 \in DOMAIN r
    BY <1>8, <2>2
  <2>5. Seen(r) = Seen(t) \cup {p}
    <3>1. ASSUME NEW u \in Procs PROVE (\E i \in DOMAIN r : r[i].pid = u) <=> (\E i \in DOMAIN t : t[i].pid = u) \/ u = p
      BY <1>7, <2>2, <2>a, <2>b, <2>c
    <3> QED
      BY <3>1 DEF Seen
  <2>6. Follows(r, g, rs)
    <3>1. ASSUME NEW i \in DOMAIN r
          PROVE  /\ r[i].pid \in Procs
                 /\ r[i].last_seq \in Nums(g, rs, r[i].pid)
                 /\ \A y \in Nums(g, rs, r[i].pid) : y <= r[i].last_seq
      <4>1. CASE i = Len(t) + 1
        <5>1. r[i].pid = p /\ r[i].last_seq = n
          BY <1>7, <2>2, <4>1
        <5>2. n <= n
          OBVIOUS
        <5> QED
          BY <2>4, <5>1, <5>2
      <4>2. CASE i \in DOMAIN t
        <5>1. r[i] = t[i] /\ t[i].pid # p /\ t[i].pid \in Procs
          BY <2>2, <2>3, <4>2 DEF Follows
        <5> QED
          BY <1>5, <4>2, <5>1 DEF Follows
      <4> QED
        BY <2>a, <4>1, <4>2
    <3>2. \A i, j \in DOMAIN r : r[i].pid = r[j].pid => i = j
      BY <1>7, <1>12, <2>2, <2>3, <2>a
    <3>3. Len(r) < MaxTracked => \A u \in Procs : Nums(g, rs, u) # {} => u \in Seen(r)
      BY <1>5, <1>14, <2>5 DEF Follows
    <3> QED
      BY <3>1, <3>2, <3>3 DEF Follows
  <2>7. SumFunctionOnSet(Absent(g, rs), Seen(r)) = SumFunctionOnSet(Absent(f, rs), Seen(t)) + Gap(t, rec)
    <3>2. PICK A, B, S : A = Absent(f, rs) /\ B = Absent(g, rs) /\ S = Seen(t)
      OBVIOUS
    <3>3. B[p] = 0
      BY <2>4, <3>2, SpreadOne DEF Absent
    <3>4. \A u \in S : u \in Procs /\ A[u] \in Nat
      BY <1>9, <1>11, <3>2
    <3>a. p \notin S
      BY <2>3, <3>2
    <3>5. \A u \in S : A[u] = B[u]
      BY <1>10, <3>2, <3>4, <3>a
    <3>6. \A u \in S \cup {p} : B[u] \in Int
      <4>1. \A u \in S : B[u] \in Int
        BY ONLY <3>4, <3>5
      <4> QED
        BY <3>3, <4>1
    <3>7. IsFiniteSet(S)
      BY <1>9, <3>2
    <3>8. SumFunctionOnSet(B, S \cup {p}) = B[p] + SumFunctionOnSet(B, S)
      BY ONLY <3>6, <3>7, <3>a, SumInsert
    <3>9. SumFunctionOnSet(A, S) = SumFunctionOnSet(B, S)
      BY ONLY <3>5, <3>7, SumSame
    <3>10. SumFunctionOnSet(A, S) \in Int
      <4>1. \A u \in S : A[u] \in Int
        BY ONLY <3>4
      <4> QED
        BY ONLY <3>7, <4>1, SumAny
    <3>11. SumFunctionOnSet(B, S \cup {p}) = SumFunctionOnSet(A, S) + 0
      BY ONLY <3>3, <3>8, <3>9, <3>10
    <3> QED
      BY <2>3, <2>5, <3>2, <3>11
  <2> QED
    BY <1>1, <2>3, <2>6, <2>7
<1>15. CASE /\ \A i \in DOMAIN t : t[i].pid # rec.pid
            /\ Gap(t, rec) = 0
            /\ ~(Len(t) < MaxTracked)
            /\ Tracked(t, rec) = t
  <2>1. \A i \in DOMAIN t : t[i].pid # p
    BY <1>3, <1>15
  <2>2. Follows(t, g, rs)
    <3>1. ASSUME NEW i \in DOMAIN t
          PROVE  /\ t[i].pid \in Procs
                 /\ t[i].last_seq \in Nums(g, rs, t[i].pid)
                 /\ \A y \in Nums(g, rs, t[i].pid) : y <= t[i].last_seq
      BY <1>5, <2>1 DEF Follows
    <3> QED
      BY <1>12, <1>15, <3>1 DEF Follows
  <2>3. PICK A, B, S : A = Absent(f, rs) /\ B = Absent(g, rs) /\ S = Seen(t)
    OBVIOUS
  <2>4. \A u \in S : u # p /\ u \in Procs /\ A[u] \in Nat
    BY <1>9, <1>11, <2>1, <2>3 DEF Seen
  <2>5. \A u \in S : A[u] = B[u]
    BY <1>10, <2>3, <2>4
  <2>6. IsFiniteSet(S)
    BY <1>9, <2>3
  <2>7. SumFunctionOnSet(A, S) = SumFunctionOnSet(B, S)
    BY ONLY <2>5, <2>6, SumSame
  <2>8. SumFunctionOnSet(A, S) \in Int
    <3>1. \A u \in S : A[u] \in Int
      BY ONLY <2>4
    <3> QED
      BY ONLY <2>6, <3>1, SumAny
  <2>9. SumFunctionOnSet(B, S) = SumFunctionOnSet(A, S) + 0
    BY ONLY <2>7, <2>8
  <2> QED
    BY <1>1, <1>15, <2>2, <2>3, <2>9
<1> QED
  BY <1>12, <1>13, <1>14, <1>15, TrackerCases

LEMMA GapsStart == Init => GapsInd
<1> SUFFICES ASSUME Init PROVE GapsInd
  OBVIOUS
<1>1. run_start = 0 /\ file = <<>> /\ trackers = <<>> /\ total = 0
  BY DEF Init
<1>2. Seen(trackers) = {} /\ \A p \in Procs : Nums(file, run_start, p) = {}
  BY <1>1 DEF Seen, Nums
<1>3. SumFunctionOnSet(Absent(file, run_start), {}) = 0
  BY SumNone
<1>4. GapsExact
  BY <1>1, <1>2, <1>3, GapsAre
<1>5. Follows(trackers, file, run_start)
  BY <1>1, <1>2 DEF Follows
<1> QED
  BY <1>1, <1>4, <1>5 DEF GapsInd

LEMMA GapsStep ==
  ASSUME TypeInd, OrderInd, GapsInd, [Next]_vars
  PROVE  GapsInd'
<1>0. GapsExact' <=> total' = SumFunctionOnSet(Absent(file', run_start'), Seen(trackers'))
  <2>1. (GapsExact <=> total = SumFunctionOnSet(Absent(file, run_start), Seen(trackers)))'
    BY GapsAre, PTL
  <2> QED
    BY <2>1
<1>1. /\ trackers \in Seq(TrackerRec) /\ file \in Seq(Records) /\ run_start \in Nat
      /\ sock \in Seq(Records) /\ total \in Nat
  BY DEF TypeInd, TypeOK, TrackerRec
<1>2. /\ total = SumFunctionOnSet(Absent(file, run_start), Seen(trackers))
      /\ run_start <= Len(file) /\ Follows(trackers, file, run_start)
  BY GapsAre DEF GapsInd
<1>3. CASE receive
  <2>1. /\ sock # <<>> /\ total' = total + Gap(trackers, Head(sock))
        /\ trackers' = Tracked(trackers, Head(sock)) /\ file' = Append(file, Head(sock))
        /\ run_start' = run_start
    BY <1>3 DEF receive
  <2>2. /\ Head(sock) \in Records
        /\ Issued(Head(sock), first_seq, next_seq)
        /\ \A i \in DOMAIN file : file[i].pid = Head(sock).pid => file[i].seq < Head(sock).seq
    BY <2>1, TypedNow, WriteOrder DEF OrderInd
  <2>3. PICK rec \in Records : rec = Head(sock)
    BY <2>2
  <2>4. rec.pid \in Procs /\ \A i \in DOMAIN file : file[i].pid = rec.pid => file[i].seq < rec.seq
    BY <2>2, <2>3 DEF Issued
  <2>5. /\ Follows(Tracked(trackers, rec), Append(file, rec), run_start)
        /\ SumFunctionOnSet(Absent(Append(file, rec), run_start), Seen(Tracked(trackers, rec)))
              = SumFunctionOnSet(Absent(file, run_start), Seen(trackers)) + Gap(trackers, rec)
    BY ONLY <1>1, <1>2, <2>3, <2>4, CountStep
  <2>6. total' = SumFunctionOnSet(Absent(file', run_start'), Seen(trackers'))
    BY <1>2, <2>1, <2>3, <2>5, Zenon
  <2>7. Follows(trackers', file', run_start')
    BY <2>1, <2>3, <2>5
  <2>8. run_start' <= Len(file')
    <3>1. Len(file') = Len(file) + 1 /\ Len(file) \in Nat
      BY <1>1, <2>1, <2>2
    <3> QED
      BY <1>1, <1>2, <2>1, <3>1
  <2> QED
    BY <1>0, <2>6, <2>7, <2>8 DEF GapsInd
<1>4. CASE daemon_start
  <2>1. run_start' = Len(file) /\ file' = file /\ trackers' = <<>> /\ total' = 0
    BY <1>4 DEF daemon_start, FreshTrackers
  <2>2. Seen(trackers') = {} /\ \A p \in Procs : Nums(file', run_start', p) = {}
    <3>1. (Len(file) + 1)..Len(file) = {}
      BY <1>1
    <3> QED
      BY <2>1, <3>1 DEF Seen, Nums
  <2>3. SumFunctionOnSet(Absent(file', run_start'), {}) = 0
    BY SumNone
  <2>4. GapsExact'
    BY <1>0, <2>1, <2>2, <2>3, Zenon
  <2>5. Follows(trackers', file', run_start')
    BY <2>1, <2>2 DEF Follows
  <2>6. run_start' <= Len(file')
    BY <1>1, <2>1
  <2> QED
    BY <2>4, <2>5, <2>6 DEF GapsInd
<1>5. ASSUME UNCHANGED <<total, trackers, file, run_start>> PROVE GapsInd'
  BY <1>0, <1>2, <1>5 DEF GapsInd
<1>6. ASSUME NEW p \in Procs, \/ fork(p) \/ log_client_push(p) \/ log_client_drain(p)
                              \/ shutting_down(p) \/ drain_one(p) \/ drain_end(p) \/ die(p)
      PROVE  UNCHANGED <<total, trackers, file, run_start>>
  BY <1>6 DEF fork, log_client_push, log_client_drain, shutting_down, drain_one, drain_end, die,
              daemonVars
<1>7. CASE handle_sighup \/ reopen \/ daemon_stop \/ UNCHANGED vars
  <2>1. UNCHANGED <<total, trackers, file, run_start>>
    BY <1>7 DEF handle_sighup, reopen, daemon_stop, vars, daemonVars
  <2> QED
    BY <1>5, <2>1
<1> QED
  BY <1>3, <1>4, <1>5, <1>6, <1>7 DEF Next

LEMMA GapsHold == Spec => []GapsInd
<1>1. TypeInd /\ OrderInd /\ GapsInd /\ [Next]_vars => GapsInd'
  BY GapsStep
<1> QED
  BY <1>1, GapsStart, LogTypeInductive, OrderHolds, PTL DEF Spec

\* channel_dropped_total is exact for the senders of the table: after any losses,
\* restarts of the daemon and senders that found the table full, it is the number
\* of lines missing between the first and the last line of each tracked sender
THEOREM GapCountIsExact == Spec => []GapsExact
<1>1. GapsInd => GapsExact
  BY DEF GapsInd
<1> QED
  BY <1>1, GapsHold, PTL

-----------------------------------------------------------------------------
(* Losses.  Of the numbers a process gave out since any record that is still *)
(* on its way or in the file of this run, as many are gone as it counted     *)
(* itself, or fewer: a number leaves the chain of queue, socket and file in  *)
(* the middle only when the process counts it; a daemon that stops takes the *)
(* oldest ones, before any that remains.                                     *)

SockNums(s, p) == {s[i].seq : i \in {j \in DOMAIN s : s[j].pid = p}}

QueueNums(q, p) == {q[p].items[k].seq : k \in Live(q[p])}

Chain(d, f, rs, s, q, p) ==
  (IF d = "down" THEN {} ELSE Nums(f, rs, p)) \cup SockNums(s, p) \cup QueueNums(q, p)

\* The numbers from r on that are not in C, of those below n
Holes(C, r, n) == (r..(n - 1)) \ C

Sparse(C, n, d) == \A r \in C : Cardinality(Holes(C, r, n)) <= d

HolesInd ==
  \A p \in Procs :
    Sparse(Chain(daemon, file, run_start, sock, queue, p), next_seq[p], dropped[p])

LEMMA HolesFinite ==
  ASSUME NEW C, NEW r \in Nat, NEW n \in Nat
  PROVE  IsFiniteSet(Holes(C, r, n)) /\ Cardinality(Holes(C, r, n)) \in Nat
<1>1. Holes(C, r, n) \subseteq r..(n - 1) /\ r \in Int /\ n - 1 \in Int
  BY DEF Holes
<1> QED
  BY ONLY <1>1, IntervalSubset

\* One more number is gone, and counted
LEMMA SparseMore ==
  ASSUME NEW C, C \subseteq Nat, NEW n \in Nat, NEW d \in Nat, Sparse(C, n, d),
         NEW C2, C2 \subseteq C, NEW n2 \in Nat, NEW x,
         \A r \in C2 : Holes(C2, r, n2) \subseteq Holes(C, r, n) \cup {x}
  PROVE  Sparse(C2, n2, d + 1)
<1> SUFFICES ASSUME NEW r \in C2 PROVE Cardinality(Holes(C2, r, n2)) <= d + 1
  BY DEF Sparse
<1>1. PICK H, H2 : H = Holes(C, r, n) /\ H2 = Holes(C2, r, n2)
  OBVIOUS
<1>2. r \in Nat /\ r \in C
  OBVIOUS
<1>3. IsFiniteSet(H) /\ Cardinality(H) \in Nat /\ IsFiniteSet(H2) /\ Cardinality(H2) \in Nat
  BY <1>1, <1>2, HolesFinite
<1>4. PICK G : G = H \cup {x}
  OBVIOUS
<1>5. IsFiniteSet(G) /\ Cardinality(G) = IF x \in H THEN Cardinality(H) ELSE Cardinality(H) + 1
  BY <1>3, <1>4, FS_AddElement
<1>6. H2 \subseteq G
  BY <1>1, <1>4
<1>7. Cardinality(H2) <= Cardinality(G)
  BY <1>5, <1>6, FS_Subset
<1>8. Cardinality(H) <= d
  BY <1>1, <1>2 DEF Sparse
<1>9. Cardinality(H2) <= d + 1
  BY ONLY <1>3, <1>5, <1>7, <1>8, d \in Nat
<1> QED
  BY <1>1, <1>9

\* A number is given out and kept
LEMMA SparsePush ==
  ASSUME NEW C, C \subseteq Nat, NEW n \in Nat, \A x \in C : x < n, NEW d \in Nat, Sparse(C, n, d)
  PROVE  Sparse(C \cup {n}, n + 1, d)
<1> SUFFICES ASSUME NEW r \in C \cup {n}
             PROVE  Cardinality(Holes(C \cup {n}, r, n + 1)) <= d
  BY DEF Sparse
<1>1. CASE r \in C
  <2>1. Holes(C \cup {n}, r, n + 1) = Holes(C, r, n)
    BY <1>1 DEF Holes
  <2> QED
    BY <1>1, <2>1 DEF Sparse
<1>2. CASE r = n
  <2>1. Holes(C \cup {n}, r, n + 1) = {}
    BY <1>2 DEF Holes
  <2>2. Cardinality({}) = 0
    BY FS_EmptySet
  <2> QED
    BY <2>1, <2>2
<1> QED
  BY <1>1, <1>2

\* Only numbers older than all that remain are gone
LEMMA SparseSuffix ==
  ASSUME NEW C, C \subseteq Nat, NEW n \in Nat, NEW d \in Nat, Sparse(C, n, d),
         NEW C2, C2 \subseteq C, \A x \in C \ C2 : \A r \in C2 : x < r
  PROVE  Sparse(C2, n, d)
<1> SUFFICES ASSUME NEW r \in C2 PROVE Cardinality(Holes(C2, r, n)) <= d
  BY DEF Sparse
<1>1. Holes(C2, r, n) = Holes(C, r, n)
  BY DEF Holes
<1> QED
  BY <1>1 DEF Sparse

\* The parts of the chain follow each other, within what was given out
LEMMA ChainOrder ==
  ASSUME NEW q, NEW s, NEW f, NEW fs, NEW ns, Typed(q, s, f, fs, ns),
         Ordered(q, s, f, fs, ns), NEW rs \in Nat, NEW p \in Procs
  PROVE  /\ \A x \in Nums(f, rs, p) : /\ x \in Nat /\ fs[p] <= x /\ x < ns[p]
                                      /\ \A y \in SockNums(s, p) : x < y
                                      /\ \A y \in QueueNums(q, p) : x < y
         /\ \A x \in SockNums(s, p) : /\ x \in Nat /\ fs[p] <= x /\ x < ns[p]
                                      /\ \A y \in QueueNums(q, p) : x < y
         /\ \A x \in QueueNums(q, p) : x \in Nat /\ fs[p] <= x /\ x < ns[p]
<1>1. ASSUME NEW x \in Nums(f, rs, p)
      PROVE  /\ x \in Nat /\ fs[p] <= x /\ x < ns[p]
             /\ \A y \in SockNums(s, p) : x < y
             /\ \A y \in QueueNums(q, p) : x < y
  <2>1. PICK i \in (rs + 1)..Len(f) : f[i].pid = p /\ x = f[i].seq
    BY DEF Nums
  <2>2. i \in DOMAIN f
    BY <2>1 DEF Typed
  <2>3. /\ f[i].seq \in Nat /\ Issued(f[i], fs, ns) /\ Before(f[i], q)
        /\ \A j \in DOMAIN s : f[i].pid = s[j].pid => f[i].seq < s[j].seq
    BY <2>2, SeqTypes DEF Ordered, FileOrder
  <2>4. x \in Nat /\ fs[p] <= x /\ x < ns[p]
    BY <2>1, <2>3 DEF Issued
  <2>5. \A y \in SockNums(s, p) : x < y
    BY <2>1, <2>3 DEF SockNums
  <2>6. \A y \in QueueNums(q, p) : x < y
    BY <2>1, <2>3 DEF QueueNums, Before
  <2> QED
    BY <2>4, <2>5, <2>6
<1>2. ASSUME NEW x \in SockNums(s, p)
      PROVE  /\ x \in Nat /\ fs[p] <= x /\ x < ns[p]
             /\ \A y \in QueueNums(q, p) : x < y
  <2>1. PICK i \in DOMAIN s : s[i].pid = p /\ x = s[i].seq
    BY DEF SockNums
  <2>2. s[i].seq \in Nat /\ Issued(s[i], fs, ns) /\ Before(s[i], q)
    BY SeqTypes DEF Ordered, SockOrder
  <2>3. x \in Nat /\ fs[p] <= x /\ x < ns[p]
    BY <2>1, <2>2 DEF Issued
  <2>4. \A y \in QueueNums(q, p) : x < y
    BY <2>1, <2>2 DEF QueueNums, Before
  <2> QED
    BY <2>3, <2>4
<1>3. ASSUME NEW x \in QueueNums(q, p) PROVE x \in Nat /\ fs[p] <= x /\ x < ns[p]
  <2>1. PICK k \in Live(q[p]) : x = q[p].items[k].seq
    BY DEF QueueNums
  <2>2. q[p].items[k].seq \in Nat /\ q[p].items[k].pid = p /\ Issued(q[p].items[k], fs, ns)
    BY SeqTypes DEF Ordered, QueueOrder
  <2> QED
    BY <2>1, <2>2 DEF Issued
<1> QED
  BY <1>1, <1>2, <1>3

LEMMA ChainBelow ==
  ASSUME NEW q, NEW s, NEW f, NEW fs, NEW ns, Typed(q, s, f, fs, ns),
         Ordered(q, s, f, fs, ns), NEW rs \in Nat, NEW p \in Procs, NEW d
  PROVE  /\ Chain(d, f, rs, s, q, p) \subseteq Nat
         /\ \A x \in Chain(d, f, rs, s, q, p) : fs[p] <= x /\ x < ns[p]
  BY ChainOrder DEF Chain

\* What a queue operation does to the numbers queued
LEMMA QueueNumsPush ==
  ASSUME NEW q, NEW p \in Procs, WellFormed(q[p]), NEW v \in Records,
         NEW q2, q2[p] = Q!enqueue(q[p], v), \A u \in Procs : u # p => q2[u] = q[u]
  PROVE  /\ \A u \in Procs : u # p => QueueNums(q2, u) = QueueNums(q, u)
         /\ Q!full(q[p]) => QueueNums(q2, p) = QueueNums(q, p)
         /\ ~Q!full(q[p]) => QueueNums(q2, p) = QueueNums(q, p) \cup {v.seq}
<1>1. q2[p] = Q!enqueue(q[p], v) /\ \A u \in Procs : u # p => q2[u] = q[u]
  OBVIOUS
<1>2. \A u \in Procs : u # p => QueueNums(q2, u) = QueueNums(q, u)
  BY <1>1 DEF QueueNums
<1>3. ASSUME Q!full(q[p]) PROVE QueueNums(q2, p) = QueueNums(q, p)
  BY <1>1, <1>3, EnqueueFacts DEF QueueNums
<1>4. ASSUME ~Q!full(q[p]) PROVE QueueNums(q2, p) = QueueNums(q, p) \cup {v.seq}
  <2>1. /\ Live(q2[p]) = Live(q[p]) \cup {q[p].rear}
        /\ q2[p].items[q[p].rear] = v
        /\ \A k \in Live(q[p]) : q2[p].items[k] = q[p].items[k]
    BY <1>1, <1>4, EnqueueFacts
  <2>2. ASSUME NEW x PROVE x \in QueueNums(q2, p) <=> x \in QueueNums(q, p) \/ x = v.seq
    BY <2>1 DEF QueueNums
  <2> QED
    BY <2>2
<1> QED
  BY <1>2, <1>3, <1>4

LEMMA QueueNumsTake ==
  ASSUME NEW q, NEW p \in Procs, WellFormed(q[p]), ~Q!empty(q[p]),
         NEW q2, q2[p] = Q!dequeue(q[p]), \A u \in Procs : u # p => q2[u] = q[u]
  PROVE  /\ \A u \in Procs : u # p => QueueNums(q2, u) = QueueNums(q, u)
         /\ QueueNums(q, p) = QueueNums(q2, p) \cup {Q!peek(q[p]).seq}
<1>1. q2[p] = Q!dequeue(q[p]) /\ \A u \in Procs : u # p => q2[u] = q[u]
  OBVIOUS
<1>2. \A u \in Procs : u # p => QueueNums(q2, u) = QueueNums(q, u)
  BY <1>1 DEF QueueNums
<1>3. /\ Live(q2[p]) = Live(q[p]) \ {q[p].front + 1}
      /\ q2[p].items = q[p].items
      /\ q[p].front + 1 \in Live(q[p])
      /\ Q!peek(q[p]) = q[p].items[q[p].front + 1]
  BY <1>1, DequeueFacts
<1>4. ASSUME NEW x PROVE x \in QueueNums(q, p) <=> x \in QueueNums(q2, p) \/ x = Q!peek(q[p]).seq
  BY <1>3 DEF QueueNums
<1> QED
  BY <1>2, <1>4

LEMMA SockNumsFacts ==
  ASSUME NEW s \in Seq(Records), NEW v \in Records, NEW p \in Procs
  PROVE  /\ v.pid # p => SockNums(Append(s, v), p) = SockNums(s, p)
         /\ v.pid = p => SockNums(Append(s, v), p) = SockNums(s, p) \cup {v.seq}
         /\ s # <<>> => /\ Head(s).pid # p => SockNums(Tail(s), p) = SockNums(s, p)
                        /\ Head(s).pid = p =>
                             SockNums(s, p) = SockNums(Tail(s), p) \cup {Head(s).seq}
<1>1. PICK t : t = Append(s, v)
  OBVIOUS
<1>2. /\ Len(s) \in Nat /\ DOMAIN s = 1..Len(s) /\ DOMAIN t = 1..(Len(s) + 1)
      /\ \A i \in DOMAIN s : t[i] = s[i]
      /\ t[Len(s) + 1] = v
  BY <1>1
<1>3. \A i : i \in DOMAIN t <=> i \in DOMAIN s \/ i = Len(s) + 1
  BY <1>2
<1>4. ASSUME v.pid # p PROVE SockNums(t, p) = SockNums(s, p)
  <2>1. ASSUME NEW x PROVE x \in SockNums(t, p) <=> x \in SockNums(s, p)
    BY <1>2, <1>3, <1>4 DEF SockNums
  <2> QED
    BY <2>1
<1>5. ASSUME v.pid = p PROVE SockNums(t, p) = SockNums(s, p) \cup {v.seq}
  <2>1. ASSUME NEW x PROVE x \in SockNums(t, p) <=> x \in SockNums(s, p) \/ x = v.seq
    BY <1>2, <1>3, <1>5 DEF SockNums
  <2> QED
    BY <2>1
<1>6. ASSUME s # <<>>
      PROVE  /\ Head(s).pid # p => SockNums(Tail(s), p) = SockNums(s, p)
             /\ Head(s).pid = p => SockNums(s, p) = SockNums(Tail(s), p) \cup {Head(s).seq}
  <2>1. PICK r, h : r = Tail(s) /\ h = Head(s)
    OBVIOUS
  <2>2. /\ h = s[1] /\ DOMAIN r = 1..(Len(s) - 1) /\ 1 \in DOMAIN s
        /\ \A i \in DOMAIN r : i + 1 \in DOMAIN s /\ r[i] = s[i + 1]
    BY <1>6, <2>1
  <2>3. \A i \in DOMAIN s : i = 1 \/ (i - 1 \in DOMAIN r /\ r[i - 1] = s[i])
    BY <1>2, <2>2
  <2>4. ASSUME NEW x PROVE x \in SockNums(s, p) <=> x \in SockNums(r, p) \/ (h.pid = p /\ x = h.seq)
    BY <2>2, <2>3 DEF SockNums
  <2>5. h.pid # p => SockNums(r, p) = SockNums(s, p)
    BY <2>4
  <2>6. h.pid = p => SockNums(s, p) = SockNums(r, p) \cup {h.seq}
    BY <2>4
  <2> QED
    BY <2>1, <2>5, <2>6
<1> QED
  BY <1>1, <1>4, <1>5, <1>6

Path(p) == Chain(daemon, file, run_start, sock, queue, p)

LEMMA PathBelow ==
  ASSUME TypeInd, OrderInd, NEW p \in Procs
  PROVE  /\ Path(p) \subseteq Nat
         /\ \A x \in Path(p) : first_seq[p] <= x /\ x < next_seq[p]
         /\ next_seq[p] \in Nat /\ dropped[p] \in Nat /\ first_seq[p] \in Nat
<1>1. /\ run_start \in Nat /\ next_seq[p] \in Nat /\ dropped[p] \in Nat /\ first_seq[p] \in Nat
  BY DEF TypeInd, TypeOK
<1>2. Ordered(queue, sock, file, first_seq, next_seq) /\ Typed(queue, sock, file, first_seq, next_seq)
  BY TypedNow DEF OrderInd
<1> QED
  BY <1>1, <1>2, ChainBelow DEF Path

\* A process counts a line it could not queue or send
LEMMA PushSparse ==
  ASSUME TypeInd, OrderInd, HolesInd, NEW p \in Procs, Push(p),
         UNCHANGED <<sock, file, run_start, daemon>>
  PROVE  HolesInd'
<1>1. /\ next_seq' = [next_seq EXCEPT ![p] = @ + 1]
      /\ dropped' = [dropped EXCEPT ![p] = IF Q!full(queue[p]) THEN @ + 1 ELSE @]
      /\ next_seq \in [Procs -> Nat] /\ dropped \in [Procs -> Nat]
      /\ queue \in [Procs -> Q!Queue] /\ WellFormed(queue[p])
  BY DEF Push, Counted, TypeInd, TypeOK, Sound
<1>2. PICK v \in Records : v = [pid |-> p, seq |-> next_seq[p]]
  BY <1>1 DEF Records
<1>3. v.seq = next_seq[p] /\ queue' = [queue EXCEPT ![p] = Q!enqueue(queue[p], v)]
  BY <1>2 DEF Push
<1>4. /\ \A u \in Procs : u # p => QueueNums(queue', u) = QueueNums(queue, u)
      /\ Q!full(queue[p]) => QueueNums(queue', p) = QueueNums(queue, p)
      /\ ~Q!full(queue[p]) => QueueNums(queue', p) = QueueNums(queue, p) \cup {v.seq}
  <2>1. PICK q, q2 : q = queue /\ q2 = queue'
    OBVIOUS
  <2>2. /\ WellFormed(q[p]) /\ q2[p] = Q!enqueue(q[p], v)
        /\ \A u \in Procs : u # p => q2[u] = q[u]
    BY <1>1, <1>3, <2>1
  <2>3. /\ \A u \in Procs : u # p => QueueNums(q2, u) = QueueNums(q, u)
        /\ Q!full(q[p]) => QueueNums(q2, p) = QueueNums(q, p)
        /\ ~Q!full(q[p]) => QueueNums(q2, p) = QueueNums(q, p) \cup {v.seq}
    BY ONLY <2>2, p \in Procs, v \in Records, QueueNumsPush
  <2> QED
    BY <2>1, <2>3, Zenon
<1>5. ASSUME NEW u \in Procs, u # p
      PROVE  Sparse(Chain(daemon', file', run_start', sock', queue', u), next_seq'[u], dropped'[u])
  <2>1. Chain(daemon', file', run_start', sock', queue', u) = Chain(daemon, file, run_start, sock, queue, u)
    BY <1>4, <1>5 DEF Chain
  <2>2. next_seq'[u] = next_seq[u] /\ dropped'[u] = dropped[u]
    BY <1>1, <1>5
  <2> QED
    BY <2>1, <2>2 DEF HolesInd
<1>6. PICK C, C2 : /\ C = Path(p)
                   /\ C2 = Chain(daemon', file', run_start', sock', queue', p)
  OBVIOUS
<1>7. PICK n, d : n = next_seq[p] /\ d = dropped[p]
  OBVIOUS
<1>8. /\ C \subseteq Nat /\ \A x \in C : x < n
      /\ n \in Nat /\ d \in Nat /\ Sparse(C, n, d)
  BY <1>6, <1>7, PathBelow DEF HolesInd, Path
<1>9. CASE Q!full(queue[p])
  <2>1. C2 = C
    BY <1>4, <1>6, <1>9 DEF Chain, Path
  <2>2. n + 1 \in Nat /\ next_seq'[p] = n + 1 /\ dropped'[p] = d + 1
    BY <1>1, <1>7, <1>9
  <2>3. \A r \in C2 : Holes(C2, r, n + 1) \subseteq Holes(C, r, n) \cup {n}
    BY <1>8, <2>1 DEF Holes
  <2>4. C2 \subseteq C
    BY <2>1
  <2>5. Sparse(C2, n + 1, d + 1)
    BY ONLY <1>8, <2>2, <2>3, <2>4, SparseMore
  <2> QED
    BY <1>5, <1>6, <2>2, <2>5 DEF HolesInd
<1>10. CASE ~Q!full(queue[p])
  <2>1. C2 = C \cup {n}
    BY <1>3, <1>4, <1>6, <1>7, <1>10 DEF Chain, Path
  <2>2. next_seq'[p] = n + 1 /\ dropped'[p] = d
    BY <1>1, <1>7, <1>10
  <2>3. Sparse(C \cup {n}, n + 1, d)
    BY ONLY <1>8, SparsePush
  <2> QED
    BY <1>5, <1>6, <2>1, <2>2, <2>3 DEF HolesInd
<1> QED
  BY <1>9, <1>10

LEMMA SendSparse ==
  ASSUME TypeInd, OrderInd, HolesInd, NEW p \in Procs, drain_one(p)
  PROVE  HolesInd'
<1>1. /\ ~Q!empty(queue[p]) /\ queue' = [queue EXCEPT ![p] = Q!dequeue(queue[p])]
      /\ UNCHANGED <<next_seq, daemon, file, run_start>>
      /\ \/ sock' = Append(sock, Q!peek(queue[p])) /\ dropped' = dropped
         \/ sock' = sock /\ dropped' = [dropped EXCEPT ![p] = @ + 1]
  BY DEF drain_one, SentRemoved, daemonVars
<1>2. /\ dropped \in [Procs -> Nat] /\ sock \in Seq(Records)
      /\ queue \in [Procs -> Q!Queue] /\ WellFormed(queue[p])
  BY DEF TypeInd, TypeOK, Sound
<1>3. PICK v \in Records : v = Q!peek(queue[p])
  BY <1>1, <1>2, DequeueFacts
<1>4. v.pid = p
  <2>1. queue[p].front + 1 \in Live(queue[p]) /\ v = queue[p].items[queue[p].front + 1]
    BY <1>1, <1>2, <1>3, DequeueFacts
  <2> QED
    BY <2>1 DEF OrderInd, Ordered, QueueOrder
<1>5. /\ \A u \in Procs : u # p => QueueNums(queue', u) = QueueNums(queue, u)
      /\ QueueNums(queue, p) = QueueNums(queue', p) \cup {v.seq}
  <2>1. PICK q, q2 : q = queue /\ q2 = queue'
    OBVIOUS
  <2>2. /\ WellFormed(q[p]) /\ ~Q!empty(q[p]) /\ q2[p] = Q!dequeue(q[p])
        /\ \A u \in Procs : u # p => q2[u] = q[u]
    BY <1>1, <1>2, <2>1
  <2>3. /\ \A u \in Procs : u # p => QueueNums(q2, u) = QueueNums(q, u)
        /\ QueueNums(q, p) = QueueNums(q2, p) \cup {Q!peek(q[p]).seq}
    BY ONLY <2>2, p \in Procs, QueueNumsTake
  <2> QED
    BY <1>3, <2>1, <2>3, Zenon
<1>6. CASE sock' = Append(sock, Q!peek(queue[p])) /\ dropped' = dropped
  <2>1. \A u \in Procs : /\ u # p => SockNums(sock', u) = SockNums(sock, u)
                         /\ u = p => SockNums(sock', u) = SockNums(sock, u) \cup {v.seq}
    BY <1>2, <1>3, <1>4, <1>6, SockNumsFacts
  <2>2. ASSUME NEW u \in Procs
        PROVE  Chain(daemon', file', run_start', sock', queue', u) = Chain(daemon, file, run_start, sock, queue, u)
    <3>1. CASE u # p
      BY <1>1, <1>5, <2>1, <3>1 DEF Chain
    <3>2. CASE u = p
      BY <1>1, <1>5, <2>1, <3>2 DEF Chain
    <3> QED
      BY <3>1, <3>2
  <2> QED
    BY <1>1, <1>6, <2>2 DEF HolesInd
<1>7. CASE sock' = sock /\ dropped' = [dropped EXCEPT ![p] = @ + 1]
  <2>1. ASSUME NEW u \in Procs, u # p
        PROVE  Sparse(Chain(daemon', file', run_start', sock', queue', u), next_seq'[u], dropped'[u])
    <3>1. Chain(daemon', file', run_start', sock', queue', u) = Chain(daemon, file, run_start, sock, queue, u)
      BY <1>1, <1>5, <1>7, <2>1 DEF Chain
    <3>2. next_seq'[u] = next_seq[u] /\ dropped'[u] = dropped[u]
      BY <1>1, <1>2, <1>7, <2>1
    <3> QED
      BY <3>1, <3>2 DEF HolesInd
  <2>2. PICK C, C2 : /\ C = Path(p)
                     /\ C2 = Chain(daemon', file', run_start', sock', queue', p)
    OBVIOUS
  <2>3. PICK n, d, x : n = next_seq[p] /\ d = dropped[p] /\ x = v.seq
    OBVIOUS
  <2>4. C \subseteq Nat /\ n \in Nat /\ d \in Nat /\ Sparse(C, n, d)
    BY <2>2, <2>3, PathBelow DEF HolesInd, Path
  <2>5. C2 \subseteq C /\ C \ {x} \subseteq C2
    BY <1>1, <1>5, <1>7, <2>2, <2>3 DEF Chain, Path
  <2>6. \A r \in C2 : Holes(C2, r, n) \subseteq Holes(C, r, n) \cup {x}
    BY <2>5 DEF Holes
  <2>7. Sparse(C2, n, d + 1)
    BY ONLY <2>4, <2>5, <2>6, SparseMore
  <2>8. next_seq'[p] = n /\ dropped'[p] = d + 1
    BY <1>1, <1>2, <1>7, <2>3
  <2> QED
    BY <2>1, <2>2, <2>7, <2>8 DEF HolesInd
<1> QED
  BY <1>1, <1>6, <1>7

LEMMA HolesStart == Init => HolesInd
<1> SUFFICES ASSUME Init PROVE HolesInd
  OBVIOUS
<1>1. daemon = "down" /\ sock = <<>> /\ queue = [p \in Procs |-> Q!queue_init]
  BY DEF Init
<1>2. ASSUME NEW p \in Procs PROVE Chain(daemon, file, run_start, sock, queue, p) = {}
  <2>1. Live(queue[p]) = {}
    BY <1>1, InitFacts
  <2> QED
    BY <1>1, <2>1 DEF Chain, SockNums, QueueNums
<1> QED
  BY <1>2 DEF HolesInd, Sparse

LEMMA HolesStep ==
  ASSUME TypeInd, OrderInd, GapsInd, HolesInd, [Next]_vars
  PROVE  HolesInd'
<1>1. ASSUME UNCHANGED <<next_seq, dropped>>,
             \A u \in Procs : Chain(daemon', file', run_start', sock', queue', u)
                                = Chain(daemon, file, run_start, sock, queue, u)
      PROVE  HolesInd'
  BY <1>1 DEF HolesInd
<1>2. ASSUME NEW p \in Procs, fork(p) PROVE HolesInd'
  <2>1. /\ pc[p] = "none" /\ next_seq' = [next_seq EXCEPT ![p] = next_seq[Master]]
        /\ UNCHANGED <<queue, sock, dropped, daemon, file, run_start>>
        /\ next_seq \in [Procs -> Nat]
    BY <1>2 DEF fork, daemonVars, TypeInd, TypeOK
  <2>2. Path(p) = {}
    <3>1. next_seq[p] = first_seq[p] /\ next_seq[p] \in Nat /\ Path(p) \subseteq Nat
      BY <2>1, PathBelow DEF OrderInd, Unborn
    <3>2. \A x \in Path(p) : first_seq[p] <= x /\ x < next_seq[p]
      BY PathBelow
    <3> QED
      BY ONLY <3>1, <3>2
  <2>3. ASSUME NEW u \in Procs
        PROVE  Sparse(Chain(daemon', file', run_start', sock', queue', u), next_seq'[u], dropped'[u])
    <3>1. Chain(daemon', file', run_start', sock', queue', u) = Path(u)
      BY <2>1 DEF Path
    <3>2. CASE u = p
      BY <2>2, <3>1, <3>2 DEF Sparse
    <3>3. CASE u # p
      BY <2>1, <3>1, <3>3 DEF HolesInd, Path
    <3> QED
      BY <3>2, <3>3
  <2> QED
    BY <2>3 DEF HolesInd
<1>3. ASSUME NEW p \in Procs, log_client_push(p) \/ shutting_down(p) PROVE HolesInd'
  <2>1. Push(p) /\ UNCHANGED <<sock, file, run_start, daemon>>
    BY <1>3 DEF log_client_push, shutting_down, daemonVars
  <2> QED
    BY <2>1, PushSparse
<1>4. ASSUME NEW p \in Procs, drain_one(p) PROVE HolesInd'
  BY <1>4, SendSparse
<1>5. ASSUME NEW p \in Procs, log_client_drain(p) \/ drain_end(p) \/ die(p) PROVE HolesInd'
  <2>1. UNCHANGED <<next_seq, dropped, daemon, file, run_start, sock, queue>>
    BY <1>5 DEF log_client_drain, drain_end, die, daemonVars
  <2> QED
    BY <1>1, <2>1
<1>6. CASE receive
  <2>1. /\ sock # <<>> /\ sock' = Tail(sock) /\ file' = Append(file, Head(sock))
        /\ daemon = "up" /\ UNCHANGED <<next_seq, dropped, daemon, run_start, queue>>
    BY <1>6 DEF receive, clientVars
  <2>2. sock \in Seq(Records) /\ file \in Seq(Records) /\ run_start \in Nat /\ run_start <= Len(file)
    BY DEF TypeInd, TypeOK, GapsInd
  <2>3. PICK v \in Records : v = Head(sock)
    BY <2>1, <2>2
  <2>4. /\ \A u \in Procs : u # v.pid => Nums(Append(file, v), run_start, u) = Nums(file, run_start, u)
        /\ Nums(Append(file, v), run_start, v.pid) = Nums(file, run_start, v.pid) \cup {v.seq}
    BY <2>2, NumsAppend
  <2>5. \A u \in Procs : /\ v.pid # u => SockNums(Tail(sock), u) = SockNums(sock, u)
                         /\ v.pid = u => SockNums(sock, u) = SockNums(Tail(sock), u) \cup {v.seq}
    BY <2>1, <2>2, <2>3, SockNumsFacts
  <2>6. ASSUME NEW u \in Procs
        PROVE  Chain(daemon', file', run_start', sock', queue', u) = Chain(daemon, file, run_start, sock, queue, u)
    <3>1. /\ Chain(daemon, file, run_start, sock, queue, u)
               = Nums(file, run_start, u) \cup SockNums(sock, u) \cup QueueNums(queue, u)
          /\ Chain(daemon', file', run_start', sock', queue', u)
               = Nums(Append(file, v), run_start, u) \cup SockNums(Tail(sock), u) \cup QueueNums(queue, u)
      BY <2>1, <2>3 DEF Chain
    <3>2. CASE u # v.pid
      BY <2>4, <2>5, <3>1, <3>2
    <3>3. CASE u = v.pid
      BY <2>4, <2>5, <3>1, <3>3
    <3> QED
      BY <3>2, <3>3
  <2> QED
    BY <1>1, <2>1, <2>6
<1>7. CASE daemon_start
  <2>1. /\ daemon = "down" /\ daemon' = "up" /\ run_start' = Len(file)
        /\ UNCHANGED <<next_seq, dropped, file, sock, queue>>
    BY <1>7 DEF daemon_start, clientVars
  <2>2. \A u \in Procs : Nums(file, Len(file), u) = {}
    <3>1. (Len(file) + 1)..Len(file) = {}
      BY DEF TypeInd, TypeOK
    <3> QED
      BY <3>1 DEF Nums
  <2>3. \A u \in Procs : Chain(daemon', file', run_start', sock', queue', u) = Chain(daemon, file, run_start, sock, queue, u)
    BY <2>1, <2>2 DEF Chain
  <2> QED
    BY <1>1, <2>1, <2>3
<1>8. CASE daemon_stop
  <2>1. /\ daemon # "down" /\ daemon' = "down" /\ sock' = <<>>
        /\ UNCHANGED <<next_seq, dropped, file, run_start, queue>>
    BY <1>8 DEF daemon_stop, clientVars
  <2>2. ASSUME NEW u \in Procs
        PROVE  Sparse(Chain(daemon', file', run_start', sock', queue', u), next_seq'[u], dropped'[u])
    <3>1. PICK N, S, R : N = Nums(file, run_start, u) /\ S = SockNums(sock, u) /\ R = QueueNums(queue, u)
      OBVIOUS
    <3>2. PICK C : C = N \cup S \cup R
      OBVIOUS
    <3>3. Chain(daemon', file', run_start', sock', queue', u) = R /\ Path(u) = C
      BY <2>1, <3>1, <3>2 DEF Chain, Path, SockNums
    <3>4. (\A x \in N : \A y \in R : x < y) /\ (\A x \in S : \A y \in R : x < y)
      BY <3>1, TypedNow, ChainOrder DEF OrderInd, TypeInd, TypeOK
    <3>5. R \subseteq C /\ \A x \in C \ R : \A y \in R : x < y
      BY <3>2, <3>4
    <3>6. PICK n, d : n = next_seq[u] /\ d = dropped[u]
      OBVIOUS
    <3>7. C \subseteq Nat /\ n \in Nat /\ d \in Nat /\ Sparse(C, n, d)
      BY <3>3, <3>6, PathBelow DEF HolesInd, Path
    <3>8. Sparse(R, n, d)
      BY ONLY <3>5, <3>7, SparseSuffix
    <3> QED
      BY <2>1, <3>3, <3>6, <3>8
  <2> QED
    BY <2>2 DEF HolesInd
<1>9. CASE handle_sighup \/ reopen
  <2>1. /\ daemon # "down" /\ daemon' # "down"
        /\ UNCHANGED <<next_seq, dropped, file, run_start, sock, queue>>
    BY <1>9 DEF handle_sighup, reopen, clientVars
  <2>2. \A u \in Procs : Chain(daemon', file', run_start', sock', queue', u) = Chain(daemon, file, run_start, sock, queue, u)
    BY <2>1 DEF Chain
  <2> QED
    BY <1>1, <2>1, <2>2
<1>10. CASE UNCHANGED vars
  BY <1>1, <1>10 DEF vars, clientVars, daemonVars
<1> QED
  BY <1>2, <1>3, <1>4, <1>5, <1>6, <1>7, <1>8, <1>9, <1>10 DEF Next

LEMMA HolesHold == Spec => []HolesInd
<1>1. TypeInd /\ OrderInd /\ GapsInd /\ HolesInd /\ [Next]_vars => HolesInd'
  BY HolesStep
<1> QED
  BY <1>1, HolesStart, LogTypeInductive, OrderHolds, GapsHold, PTL DEF Spec

\* While the daemon runs: what is missing from a sender's lines are holes of its chain
LEMMA CountWithin ==
  ASSUME TypeInd, OrderInd, GapsInd, HolesInd, daemon # "down"
  PROVE  NoPhantomDrops
<1>1. ASSUME NEW p \in Seen(trackers)
      PROVE  /\ Absent(file, run_start)[p] \in Nat
             /\ Absent(file, run_start)[p] <= dropped[p]
  <2>1. PICK i \in DOMAIN trackers : p \in Procs /\ trackers[i].pid = p
    BY <1>1 DEF Seen
  <2>2. PICK N, S, R : N = Nums(file, run_start, p) /\ S = SockNums(sock, p) /\ R = QueueNums(queue, p)
    OBVIOUS
  <2>3. PICK m : m = trackers[i].last_seq
    OBVIOUS
  <2>4. m \in N /\ \A y \in N : y <= m
    BY <2>1, <2>2, <2>3 DEF GapsInd, Follows
  <2>5. /\ \A x \in N : x \in Nat /\ x < next_seq[p] /\ (\A y \in S : x < y) /\ (\A y \in R : x < y)
        /\ \A x \in S : x \in Nat
        /\ \A x \in R : x \in Nat
    BY <2>1, <2>2, TypedNow, ChainOrder DEF OrderInd, TypeInd, TypeOK
  <2>6. PICK a \in N : \A y \in N : a <= y
    <3>1. N \subseteq Nat /\ N # {}
      BY <2>4, <2>5
    <3> QED
      BY ONLY <3>1, LeastExists
  <2>7. PICK H : H = (a..m) \ N
    OBVIOUS
  <2>8. Spread(N) = Cardinality(H) /\ Spread(N) \in Nat
    <3>1. N \subseteq Nat /\ \A y \in N : a <= y /\ y <= m
      BY <2>4, <2>5, <2>6
    <3>2. Spread(N) = Cardinality((a..m) \ N) /\ Spread(N) \in Nat
      BY ONLY <2>4, <2>6, <3>1, SpreadIs
    <3> QED
      BY <2>7, <3>2
  <2>9. PICK C, n, d : C = Path(p) /\ n = next_seq[p] /\ d = dropped[p]
    OBVIOUS
  <2>10. C = N \cup S \cup R /\ Sparse(C, n, d) /\ n \in Nat /\ d \in Nat
    BY <2>1, <2>2, <2>9, PathBelow DEF Path, Chain, HolesInd
  <2>11. H \subseteq Holes(C, a, n)
    <3>1. ASSUME NEW x \in H PROVE x \in a..(n - 1) /\ x \notin N /\ x \notin S /\ x \notin R
      <4>1. x \in a..m /\ x \notin N
        BY <2>7
      <4>2. a \in Nat /\ m \in Nat /\ m < n
        BY <2>4, <2>5, <2>6, <2>9
      <4>3. x \in a..(n - 1) /\ x <= m /\ x \in Int
        BY ONLY <2>10, <4>1, <4>2
      <4>4. \A y \in S \cup R : m < y /\ y \in Nat
        BY <2>4, <2>5
      <4>5. x \notin S \cup R
        BY ONLY <4>2, <4>3, <4>4
      <4> QED
        BY <4>1, <4>3, <4>5
    <3> QED
      BY <2>10, <3>1 DEF Holes
  <2>12. a \in Nat /\ a \in C
    BY <2>5, <2>6, <2>10
  <2>13. IsFiniteSet(Holes(C, a, n)) /\ Cardinality(Holes(C, a, n)) \in Nat
    BY <2>10, <2>12, HolesFinite
  <2>14. Cardinality(H) <= Cardinality(Holes(C, a, n))
    BY <2>11, <2>13, FS_Subset
  <2>15. Cardinality(Holes(C, a, n)) <= d
    BY <2>10, <2>12 DEF Sparse
  <2>16. Spread(N) <= d
    BY ONLY <2>8, <2>10, <2>13, <2>14, <2>15
  <2> QED
    BY <2>1, <2>2, <2>8, <2>9, <2>16 DEF Absent
<1>2. PICK A, B, R : A = Absent(file, run_start) /\ B = dropped /\ R = Seen(trackers)
  OBVIOUS
<1>3. /\ R \subseteq Procs /\ IsFiniteSet(Procs) /\ \A x \in Procs : B[x] \in Nat
      /\ DOMAIN B = Procs
  BY <1>2, LogAssumption DEF Seen, TypeInd, TypeOK
<1>4. \A x \in R : A[x] \in Nat /\ A[x] <= B[x]
  BY <1>1, <1>2
<1>5. SumFunctionOnSet(A, R) <= SumFunctionOnSet(B, Procs)
  BY ONLY <1>3, <1>4, SumLess
<1>6. total = SumFunctionOnSet(A, R)
  BY <1>2, GapsAre DEF GapsInd
<1>7. SumFunction(dropped) = SumFunctionOnSet(B, Procs)
  BY <1>2, <1>3 DEF SumFunction
<1> QED
  BY <1>5, <1>6, <1>7 DEF NoPhantomDrops

\* With the daemon down its last count stands, and the processes only count more
LEMMA CountStands ==
  ASSUME TypeInd, TypeInd', NoPhantomDrops, daemon' # "down" => NoPhantomDrops', [Next]_vars
  PROVE  NoPhantomDrops'
<1>1. SUFFICES ASSUME daemon' = "down" PROVE NoPhantomDrops'
  OBVIOUS
<1>2. dropped \in [Procs -> Nat] /\ dropped' \in [Procs -> Nat] /\ total \in Nat
  BY DEF TypeInd, TypeOK
<1>3. total' = total /\ \A u \in Procs : dropped[u] <= dropped'[u]
  <2>1. ASSUME NEW p \in Procs, \/ fork(p) \/ log_client_drain(p) \/ drain_end(p) \/ die(p)
        PROVE  total' = total /\ dropped' = dropped
    BY <2>1 DEF fork, log_client_drain, drain_end, die, daemonVars
  <2>2. ASSUME NEW p \in Procs, \/ log_client_push(p) \/ shutting_down(p) \/ drain_one(p)
        PROVE  /\ total' = total
               /\ dropped' = dropped \/ dropped' = [dropped EXCEPT ![p] = @ + 1]
    <3>1. total' = total
      BY <2>2 DEF log_client_push, shutting_down, drain_one, daemonVars
    <3>2. CASE drain_one(p)
      BY <3>1, <3>2 DEF drain_one
    <3>3. CASE Push(p)
      <4>1. dropped' = [dropped EXCEPT ![p] = IF Q!full(queue[p]) THEN dropped[p] + 1 ELSE dropped[p]]
        BY <3>3 DEF Push, Counted
      <4>2. CASE Q!full(queue[p])
        BY <3>1, <4>1, <4>2
      <4>3. CASE ~Q!full(queue[p])
        BY <1>2, <3>1, <4>1, <4>3
      <4> QED
        BY <4>2, <4>3
    <3> QED
      BY <2>2, <3>2, <3>3 DEF log_client_push, shutting_down
  <2>4. ASSUME dropped' = dropped PROVE \A u \in Procs : dropped[u] <= dropped'[u]
    BY <1>2, <2>4
  <2>5. ASSUME NEW p \in Procs, dropped' = [dropped EXCEPT ![p] = @ + 1]
        PROVE  \A u \in Procs : dropped[u] <= dropped'[u]
    BY <1>2, <2>5
  <2>6. ASSUME NEW p \in Procs, \/ fork(p) \/ log_client_push(p) \/ log_client_drain(p)
                                \/ shutting_down(p) \/ drain_one(p) \/ drain_end(p) \/ die(p)
        PROVE  total' = total /\ \A u \in Procs : dropped[u] <= dropped'[u]
    BY <2>1, <2>2, <2>4, <2>5, <2>6
  <2>7. CASE \/ daemon_start \/ receive \/ handle_sighup \/ reopen \/ daemon_stop
             \/ UNCHANGED vars
    <3>1. total' = total /\ dropped' = dropped
      BY <1>1, <2>7 DEF daemon_start, receive, handle_sighup, reopen, daemon_stop, vars,
                        clientVars, daemonVars
    <3> QED
      BY <2>4, <3>1
  <2> QED
    BY <2>6, <2>7 DEF Next
<1>4. PICK A, B : A = dropped /\ B = dropped'
  OBVIOUS
<1>5. /\ IsFiniteSet(Procs) /\ Procs \subseteq Procs /\ \A x \in Procs : B[x] \in Nat
      /\ \A x \in Procs : A[x] \in Nat /\ A[x] <= B[x]
      /\ DOMAIN A = Procs /\ DOMAIN B = Procs
  BY <1>2, <1>3, <1>4, LogAssumption
<1>6. SumFunctionOnSet(A, Procs) <= SumFunctionOnSet(B, Procs)
  BY ONLY <1>5, SumLess
<1>7. SumFunctionOnSet(A, Procs) \in Int /\ SumFunctionOnSet(B, Procs) \in Int
  <2>1. \A x \in Procs : A[x] \in Int /\ B[x] \in Int
    BY ONLY <1>5
  <2>2. SumFunctionOnSet(A, Procs) \in Int
    BY ONLY <1>5, <2>1, SumAny
  <2>3. SumFunctionOnSet(B, Procs) \in Int
    BY ONLY <1>5, <2>1, SumAny
  <2> QED
    BY <2>2, <2>3
<1>8. SumFunction(dropped) = SumFunctionOnSet(A, Procs) /\ SumFunction(dropped') = SumFunctionOnSet(B, Procs)
  BY <1>4, <1>5 DEF SumFunction
<1>9. total <= SumFunctionOnSet(A, Procs)
  BY <1>8 DEF NoPhantomDrops
<1>10. total' <= SumFunctionOnSet(B, Procs)
  BY ONLY <1>2, <1>3, <1>6, <1>7, <1>9
<1> QED
  BY <1>8, <1>10 DEF NoPhantomDrops

\* tetrislogd never reports a loss that no process suffered: what it counts from gaps
\* in the numbers stays within what the log clients counted in dropped_queue_full
\* themselves, whatever was lost and however often the daemon restarts
THEOREM NoLossInvented == Spec => []NoPhantomDrops
<1>1. Init => NoPhantomDrops
  <2> SUFFICES ASSUME Init PROVE NoPhantomDrops
    OBVIOUS
  <2>1. PICK B : B = dropped
    OBVIOUS
  <2>2. total = 0 /\ DOMAIN B = Procs /\ \A x \in Procs : B[x] \in Nat
    BY <2>1 DEF Init
  <2>3. IsFiniteSet(Procs) /\ {} \subseteq Procs /\ \A x \in {} : B[x] \in Nat /\ B[x] <= B[x]
    BY LogAssumption
  <2>4. SumFunctionOnSet(B, {}) <= SumFunctionOnSet(B, Procs)
    BY ONLY <2>2, <2>3, SumLess
  <2>5. SumFunctionOnSet(B, {}) = 0
    BY SumNone
  <2> QED
    BY <2>1, <2>2, <2>4, <2>5 DEF NoPhantomDrops, SumFunction
<1>2. TypeInd /\ OrderInd /\ GapsInd /\ HolesInd => (daemon # "down" => NoPhantomDrops)
  BY CountWithin
<1>3. TypeInd /\ TypeInd' /\ NoPhantomDrops /\ (daemon # "down" => NoPhantomDrops)' /\ [Next]_vars
        => NoPhantomDrops'
  BY CountStands
<1> QED
  BY <1>1, <1>2, <1>3, LogTypeInductive, OrderHolds, GapsHold, HolesHold, PTL DEF Spec
=============================================================================
