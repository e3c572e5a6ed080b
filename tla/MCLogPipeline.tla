--------------------------- MODULE MCLogPipeline ---------------------------
(* Instances of the logging path for TLC: the master and one worker, queues  *)
(* and a tracker table small enough to overflow.                             *)
EXTENDS LogPipeline
=============================================================================
