------------------------------- MODULE Lineage -------------------------------
(***************************************************************************)
(* What the checkpoints of one source pull request promise, without the    *)
(* calls of the jobs.  A job that stops stages a checkpoint, and it is     *)
(* opened once the stop is the recorded end of the job.  Continuations     *)
(* take it one after another, each only when the one before it has failed. *)
(* A continuation takes one checkpoint, and ends once: it succeeds with    *)
(* the checkpoint in its hands and leaves none of its own, or it fails.    *)
(* What is closed stays closed.                                            *)
(***************************************************************************)
CONSTANTS
  Job,     \* jobs; the checkpoint of a stop has the name of its job
  NoJob    \* no job

VARIABLES
  status,  \* [Job -> Status]: the checkpoint that a job has left
  taker,   \* [Job -> Job \cup {NoJob}]: the last continuation that took it
  end      \* [Job -> End]: how far a continuation is; none for other jobs

vars == <<status, taker, end>>

Status == {"absent", "pending", "open", "closed"}
End    == {"none", "running", "failed", "succeeded"}

Init ==
  /\ status = [c \in Job |-> "absent"]
  /\ taker = [c \in Job |-> NoJob]
  /\ end = [j \in Job |-> "none"]

(* A job stops: its checkpoint is staged while it has not ended.           *)
Stage(c) ==
  /\ status[c] = "absent" /\ end[c] \in {"none", "running"}
  /\ status' = [status EXCEPT ![c] = "pending"]
  /\ UNCHANGED <<taker, end>>

(* Its own job opens it, or a later continuation that finds it staged; the *)
(* stop of a continuation is a failure by then.                            *)
Open(c) ==
  /\ status[c] = "pending" /\ end[c] \in {"none", "failed"}
  /\ status' = [status EXCEPT ![c] = "open"]
  /\ UNCHANGED <<taker, end>>

Close(c) ==
  /\ status[c] \in {"pending", "open"}
  /\ status' = [status EXCEPT ![c] = "closed"]
  /\ UNCHANGED <<taker, end>>

(* A continuation takes an open checkpoint that nobody holds: the last to  *)
(* take it, if any, has failed.  It is on its way to success, or has       *)
(* failed and left a checkpoint of its own that takes this one's place.    *)
Take(c, j) ==
  /\ status[c] = "open"
  /\ end[j] = "running" \/ (end[j] = "failed" /\ status[j] # "absent")
  /\ taker[c] = NoJob \/ end[taker[c]] = "failed"
  /\ \A d \in Job : taker[d] # j
  /\ taker' = [taker EXCEPT ![c] = j]
  /\ UNCHANGED <<status, end>>

Begin(j) ==
  /\ end[j] = "none" /\ status[j] = "absent"
  /\ end' = [end EXCEPT ![j] = "running"]
  /\ UNCHANGED <<status, taker>>

Fail(j) ==
  /\ end[j] = "running"
  /\ end' = [end EXCEPT ![j] = "failed"]
  /\ UNCHANGED <<status, taker>>

Succeed(j) ==
  /\ end[j] = "running" /\ status[j] = "absent"
  /\ \E c \in Job : taker[c] = j
  /\ end' = [end EXCEPT ![j] = "succeeded"]
  /\ UNCHANGED <<status, taker>>

Next ==
  \E j \in Job :
    \/ Stage(j) \/ Open(j) \/ Close(j)
    \/ \E c \in Job : Take(c, j)
    \/ Begin(j) \/ Fail(j) \/ Succeed(j)

Spec == Init /\ [][Next]_vars

=============================================================================
