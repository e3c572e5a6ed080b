------------------------------ MODULE LossyLog ------------------------------
(***************************************************************************)
(* What the logging path promises: every process numbers its records, and  *)
(* what reaches the disk is, per process, a subsequence of what it logged: *)
(* records may be lost, never invented, repeated or reordered.             *)
(***************************************************************************)
EXTENDS Integers, Sequences

CONSTANT Procs

VARIABLES issued,  \* issued[p]: the numbers p has given out, as a range
          disk     \* the lines written, in order

vars == <<issued, disk>>

Init == disk = <<>> /\ issued = [p \in Procs |-> [from |-> 0, to |-> 0]]

\* p starts numbering anywhere (before its first line)
Begin(p, n) ==
  /\ issued[p].from = issued[p].to
  /\ issued' = [issued EXCEPT ![p] = [from |-> n, to |-> n]]
  /\ UNCHANGED disk

\* p logs a line
Issue(p) ==
  /\ issued' = [issued EXCEPT ![p].to = @ + 1]
  /\ UNCHANGED disk

\* A line of p reaches the disk, behind every line of p that is there
Write(p, n) ==
  /\ n \in issued[p].from..(issued[p].to - 1)
  /\ \A i \in DOMAIN disk : disk[i].pid = p => disk[i].seq < n
  /\ disk' = Append(disk, [pid |-> p, seq |-> n])
  /\ UNCHANGED issued

Next ==
  \/ \E p \in Procs : Begin(p, issued'[p].from)
  \/ \E p \in Procs : Issue(p)
  \/ \E p \in Procs : \E n \in issued[p].from..(issued[p].to - 1) : Write(p, n)

Spec == Init /\ [][Next]_vars

=============================================================================
