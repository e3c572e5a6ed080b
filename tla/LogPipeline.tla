---------------------------- MODULE LogPipeline ----------------------------
(***************************************************************************)
(* The logging path: tetrisd's master and its room workers number their    *)
(* log lines (libtetrislog/logrecord.c), queue them in memory and drain    *)
(* the queue in batches with non-blocking datagrams (logclient.c); the     *)
(* daemon tetrislogd (tetrislogd/main.c) writes what arrives to disk and   *)
(* counts what did not from gaps in the numbers.  The daemon may be        *)
(* absent, stopped, killed and started again at any time.                  *)
(*                                                                         *)
(* A process uses its log client from one thread, so pushing is one step;  *)
(* a drain takes one step per record, because the daemon reads and may die *)
(* between two datagrams.                                                  *)
(***************************************************************************)
EXTENDS Integers, Sequences, FiniteSets, FiniteSetsExt, Functions

CONSTANTS
  Procs,        \* processes that log: the master and the workers it forks
  Master,
  QueueSize,    \* capacity of LogRecordQueue (256)
  DrainBatch,   \* LOG_CLIENT_DRAIN_BATCH (16)
  SockCap,      \* datagrams the kernel keeps for the daemon's socket
  MaxTracked,   \* MAX_TRACKED_SENDERS (32)
  MaxLines,     \* bound: lines logged by all processes together
  MaxDaemons    \* bound: times the daemon is started

ASSUME LogAssumption ==
  /\ IsFiniteSet(Procs) /\ Master \in Procs
  /\ QueueSize \in Nat \ {0}
  /\ DrainBatch \in Nat
  /\ SockCap \in Nat
  /\ MaxTracked \in Nat
  /\ MaxLines \in Nat
  /\ MaxDaemons \in Nat

\* LogRecord, without the text; log_client_init clears the queue's memory
Records == [pid : Procs \cup {0}, seq : Nat]
NoRecord == [pid |-> 0, seq |-> 0]

Q == INSTANCE BoundedQueue WITH
       MaxSize <- QueueSize, Items <- Records, Zeroed <- NoRecord

VARIABLES
  (* a logging process *)
  pc,        \* "none", "run", "drain", "last" (the drain before closing),
             \* "closed", "killed"
  next_seq,  \* static counter of logrecord.c, inherited over fork
  queue,     \* LogClient.queue
  dropped,   \* LogClient.dropped_queue_full
  left,      \* records the current drain may still send
  (* the kernel *)
  sock,      \* datagrams waiting in the daemon's socket
  (* tetrislogd *)
  daemon,    \* "down", "up", "reopen" (SIGHUP seen)
  trackers,  \* trackers[0..tracker_count-1]
  total,     \* channel_dropped_total
  file,      \* lines written, over all runs of the daemon
  (* history *)
  starts,    \* times the daemon was started
  run_start, \* lines that were on disk when this daemon started
  first_seq, \* next_seq when the process began
  accepted   \* datagrams of each process the kernel took

clientVars  == <<pc, next_seq, queue, dropped, left, first_seq>>
daemonVars  == <<daemon, trackers, total, file, starts, run_start>>
vars == <<clientVars, accepted, sock, daemonVars>>

-----------------------------------------------------------------------------
(* The logging process *)

\* A worker is forked with the master's counter and a log client of its own
fork(p) ==
  /\ pc[p] = "none"
  /\ pc[Master] = "run"
  /\ pc' = [pc EXCEPT ![p] = "run"]
  /\ next_seq' = [next_seq EXCEPT ![p] = next_seq[Master]]
  /\ first_seq' = [first_seq EXCEPT ![p] = next_seq[Master]]
  /\ UNCHANGED <<queue, dropped, left, accepted, sock, daemonVars>>

Uncounted(p) == UNCHANGED dropped

\* A line that finds no space is counted
Counted(p) ==
  dropped' = [dropped EXCEPT ![p] = IF Q!full(queue[p]) THEN @ + 1 ELSE @]

\* Lines logged by process p
Logged(p) == next_seq[p] - first_seq[p]

\* log_client_push: the number is spent before it is known if there is space
Push(p) ==
  /\ SumFunction([x \in Procs |-> Logged(x)]) < MaxLines
  /\ queue' = [queue EXCEPT ![p] = Q!enqueue(@, [pid |-> p, seq |-> next_seq[p]])]
  /\ next_seq' = [next_seq EXCEPT ![p] = @ + 1]
  /\ Counted(p)

log_client_push(p) ==
  /\ pc[p] = "run"
  /\ Push(p)
  /\ UNCHANGED <<pc, left, first_seq, accepted, sock, daemonVars>>

log_client_drain(p) ==
  /\ pc[p] = "run"
  /\ pc' = [pc EXCEPT ![p] = "drain"]
  /\ left' = [left EXCEPT ![p] = DrainBatch]
  /\ UNCHANGED <<next_seq, queue, dropped, first_seq, accepted, sock, daemonVars>>

\* The farewell line, then one more drain
shutting_down(p) ==
  /\ pc[p] = "run"
  /\ Push(p)
  /\ pc' = [pc EXCEPT ![p] = "last"]
  /\ left' = [left EXCEPT ![p] = DrainBatch]
  /\ UNCHANGED <<first_seq, accepted, sock, daemonVars>>

Draining(p) == pc[p] \in {"drain", "last"}

\* sendto fails when nobody is bound to the path or the socket is full
Deliverable == daemon # "down" /\ Len(sock) < SockCap

SentKept(q) == q

\* The queue after a send: the record is removed, sent or not
SentRemoved(q) == Q!dequeue(q)

\* One pass of the drain loop
drain_one(p) ==
  /\ Draining(p)
  /\ left[p] > 0
  /\ ~Q!empty(queue[p])
  /\ left' = [left EXCEPT ![p] = @ - 1]
  /\ queue' = [queue EXCEPT ![p] = SentRemoved(@)]
  /\ IF Deliverable
     THEN /\ sock' = Append(sock, Q!peek(queue[p]))
          /\ accepted' = [accepted EXCEPT ![p] = @ + 1]
          /\ UNCHANGED dropped
     ELSE /\ dropped' = [dropped EXCEPT ![p] = @ + 1]
          /\ UNCHANGED <<sock, accepted>>
  /\ UNCHANGED <<pc, next_seq, first_seq, daemonVars>>

\* The batch is used up or nothing is queued; after the last drain the client
\* is closed with whatever it still holds
drain_end(p) ==
  /\ Draining(p)
  /\ left[p] = 0 \/ Q!empty(queue[p])
  /\ pc' = [pc EXCEPT ![p] = IF @ = "last" THEN "closed" ELSE "run"]
  /\ left' = [left EXCEPT ![p] = 0]
  /\ UNCHANGED <<next_seq, queue, dropped, first_seq, accepted, sock, daemonVars>>

\* A worker or the master is killed
die(p) ==
  /\ pc[p] \in {"run", "drain", "last"}
  /\ pc' = [pc EXCEPT ![p] = "killed"]
  /\ left' = [left EXCEPT ![p] = 0]
  /\ UNCHANGED <<next_seq, queue, dropped, first_seq, accepted, sock, daemonVars>>

-----------------------------------------------------------------------------
(* The daemon *)

StaleTrackers == trackers

\* The table of a daemon that has seen nobody yet
FreshTrackers == <<>>

\* bind, open the log in append mode, locals of main start afresh
daemon_start ==
  /\ daemon = "down"
  /\ starts < MaxDaemons
  /\ daemon' = "up"
  /\ starts' = starts + 1
  /\ trackers' = FreshTrackers
  /\ total' = 0
  /\ run_start' = Len(file)
  /\ UNCHANGED <<clientVars, accepted, sock, file>>

\* find_tracker: the position of pid in the table, in a new entry if there is
\* space, 0 if there is none
TrackerOf(t, pid) ==
  LET I == {i \in DOMAIN t : t[i].pid = pid}
  IN IF I # {} THEN CHOOSE i \in I : TRUE
     ELSE IF Len(t) < MaxTracked THEN Len(t) + 1
     ELSE 0

GapOffByOne(t, rec) ==
  LET k == TrackerOf(t, rec.pid)
  IN IF k \in DOMAIN t /\ rec.seq # t[k].last_seq + 1 /\ rec.seq > t[k].last_seq
     THEN rec.seq - t[k].last_seq
     ELSE 0

\* Numbers missing between the sender's previous record and this one
Gap(t, rec) ==
  LET k == TrackerOf(t, rec.pid)
  IN IF k \in DOMAIN t /\ rec.seq # t[k].last_seq + 1 /\ rec.seq > t[k].last_seq
     THEN rec.seq - t[k].last_seq - 1
     ELSE 0

\* The table after the record: an entry is created and seen in one step
Tracked(t, rec) ==
  LET k == TrackerOf(t, rec.pid)
      e == [pid |-> rec.pid, last_seq |-> rec.seq]
  IN IF k = 0 THEN t
     ELSE IF k \in DOMAIN t THEN [t EXCEPT ![k] = e]
     ELSE Append(t, e)

\* select, recvfrom, count the gap, write and flush the line
receive ==
  /\ daemon = "up"
  /\ sock # <<>>
  /\ LET rec == Head(sock)
     IN /\ total' = total + Gap(trackers, rec)
        /\ trackers' = Tracked(trackers, rec)
        /\ file' = Append(file, rec)
  /\ sock' = Tail(sock)
  /\ UNCHANGED <<clientVars, accepted, daemon, starts, run_start>>

handle_sighup ==
  /\ daemon = "up"
  /\ daemon' = "reopen"
  /\ UNCHANGED <<clientVars, accepted, sock, trackers, total, file, starts,
                 run_start>>

\* The top of the next pass: the log file is reopened
reopen ==
  /\ daemon = "reopen"
  /\ daemon' = "up"
  /\ UNCHANGED <<clientVars, accepted, sock, trackers, total, file, starts,
                 run_start>>

\* SIGTERM, a log file that cannot be reopened, or a crash: what the socket
\* still holds is gone with it
daemon_stop ==
  /\ daemon # "down"
  /\ daemon' = "down"
  /\ sock' = <<>>
  /\ UNCHANGED <<clientVars, accepted, trackers, total, file, starts, run_start>>

-----------------------------------------------------------------------------

Init ==
  /\ pc = [p \in Procs |-> IF p = Master THEN "run" ELSE "none"]
  /\ next_seq = [p \in Procs |-> 0]
  /\ first_seq = [p \in Procs |-> 0]
  /\ queue = [p \in Procs |-> Q!queue_init]
  /\ dropped = [p \in Procs |-> 0]
  /\ left = [p \in Procs |-> 0]
  /\ accepted = [p \in Procs |-> 0]
  /\ sock = <<>>
  /\ daemon = "down"
  /\ trackers = <<>>
  /\ total = 0
  /\ file = <<>>
  /\ starts = 0
  /\ run_start = 0

Next ==
  \/ \E p \in Procs : \/ fork(p)
                      \/ log_client_push(p)
                      \/ log_client_drain(p)
                      \/ shutting_down(p)
                      \/ drain_one(p)
                      \/ drain_end(p)
                      \/ die(p)
  \/ daemon_start
  \/ receive
  \/ handle_sighup
  \/ reopen
  \/ daemon_stop

Spec == Init /\ [][Next]_vars

-----------------------------------------------------------------------------
(* Types *)

\* Every variable has the type of the object it stands for
TypeOK ==
  /\ pc \in [Procs -> {"none", "run", "drain", "last", "closed", "killed"}]
  /\ next_seq \in [Procs -> Nat]
  /\ first_seq \in [Procs -> Nat]
  /\ queue \in [Procs -> Q!Queue]
  /\ dropped \in [Procs -> Nat]
  /\ left \in [Procs -> Nat]
  /\ accepted \in [Procs -> Nat]
  /\ sock \in Seq(Records)
  /\ daemon \in {"down", "up", "reopen"}
  /\ trackers \in Seq([pid : Procs \cup {0}, last_seq : Nat])
  /\ total \in Nat
  /\ file \in Seq(Records)
  /\ starts \in Nat
  /\ run_start \in Nat

-----------------------------------------------------------------------------
(* Safety *)

\* A process can account for every line it ever logged: it is queued, counted
\* as dropped, or was handed to the kernel, whichever of log_client_push and
\* log_client_drain lost it and whatever the daemon was doing
DropCountExact ==
  \A p \in Procs :
    Logged(p) = dropped[p] + Q!Size(queue[p]) + accepted[p]

\* The lines of process p written since the daemon started
Written(p) == {i \in (run_start + 1)..Len(file) : file[i].pid = p}

Tracks(p) == \E i \in DOMAIN trackers : trackers[i].pid = p

\* Numbers of p missing between its first and its last line of this run
Missing(p) ==
  LET N == {file[i].seq : i \in Written(p)}
  IN IF N = {} THEN 0 ELSE Max(N) - Min(N) + 1 - Cardinality(N)

\* The daemon's count of lost records is exact: for the senders it has space
\* for, it is the number of lines missing from the file
GapsExact ==
  total = SumFunctionOnSet([p \in Procs |-> Missing(p)], {p \in Procs : Tracks(p)})

\* The daemon never reports a loss that no sender suffered: its count stays
\* within what the processes themselves counted, over every restart
NoPhantomDrops == total <= SumFunction(dropped)

\* Every line on disk was logged once, in its process's order: the pipeline
\* implements the lossy log
Log == INSTANCE LossyLog WITH
         issued <- [p \in Procs |-> [from |-> first_seq[p], to |-> next_seq[p]]],
         disk <- file
ImplementsLossyLog == Log!Spec

=============================================================================
