--------------------------- MODULE CheckpointStore ---------------------------
(***************************************************************************)
(* The audit tables of the translation workflows, jobs and continuations   *)
(* of persistence/ydb.py, for the lineages of one source pull request and  *)
(* its translation branch.  A job may stop for a semantic reason and leave *)
(* a checkpoint, the row whose continuation_id is the job itself; a        *)
(* doc_continue job takes the checkpoint over and consumes it.             *)
(*                                                                         *)
(* The columns that every row of a lineage shares (source and base SHA,    *)
(* branch, inventory, scope) are left out; created_at is the job whose     *)
(* start gave it, root.  An operator marked "faulty" is the one below it   *)
(* with a plausible bug; no specification uses it.                         *)
(***************************************************************************)
EXTENDS Naturals, FiniteSets

CONSTANTS
  MaxJobs,     \* jobs started in one behaviour
  MaxCommits   \* commits pushed to the translation branch in one behaviour

ASSUME BoundAssumption == MaxJobs \in Nat /\ MaxCommits \in Nat

Job    == 1..MaxJobs
NoJob  == 0
Commit == 1..MaxCommits
NoSha  == 0                    \* the branch does not exist
Sha    == Commit \cup {NoSha}

VARIABLES
  jobs,     \* [Job -> JobRow]
  rows,     \* [Job -> Row], by the job that produced the checkpoint
  expired   \* jobs that started more than 14 days ago

storeVars == <<jobs, rows, expired>>

Stage     == {"direction", "review"}
JobStatus == {"none", "started", "succeeded", "failed"}
(* The error column: the marker of a semantic stop, or some other text.    *)
Error     == {"none", "other"} \cup Stage
JobRow    == [status : JobStatus, error : Error, target : Sha]
RowStatus == {"absent", "pending", "open", "closed"}
Row       == [status : RowStatus, stage : Stage, target : Sha,
              consumer : Job \cup {NoJob}, root : Job \cup {NoJob}]

NoRow == [status |-> "absent", stage |-> "review", target |-> NoSha,
          consumer |-> NoJob, root |-> NoJob]

StoreTypeOK ==
  /\ jobs \in [Job -> JobRow]
  /\ rows \in [Job -> Row]
  /\ expired \subseteq Job

StoreInit ==
  /\ jobs = [j \in Job |-> [status |-> "none", error |-> "none", target |-> NoSha]]
  /\ rows = [j \in Job |-> NoRow]
  /\ expired = {}

-----------------------------------------------------------------------------
(***************************************************************************)
(* The jobs table.                                                         *)
(***************************************************************************)
InsertJob(j, target) ==
  /\ jobs' = [jobs EXCEPT ![j] = [status |-> "started", error |-> "none", target |-> target]]
  /\ UNCHANGED <<rows, expired>>

BindSnapshot(j, target) ==
  /\ jobs' = [jobs EXCEPT ![j].target =
                IF jobs[j].status = "started" /\ @ \in {NoSha, target} THEN target ELSE @]
  /\ UNCHANGED <<rows, expired>>

(* finish_job is not guarded; without a target the old one stays.          *)
FinishJob(j, status, error, target) ==
  /\ jobs' = [jobs EXCEPT ![j] =
                [status |-> status, error |-> error,
                 target |-> IF target = NoSha THEN @.target ELSE target]]
  /\ UNCHANGED <<rows, expired>>

(***************************************************************************)
(* The continuations table.                                                *)
(***************************************************************************)
Live(c) == rows[c].root \notin expired

SaveCheckpoint(j, stage, target, root) ==
  /\ rows' = [rows EXCEPT ![j] = [status |-> "pending", stage |-> stage, target |-> target,
                                  consumer |-> NoJob, root |-> root]]
  /\ UNCHANGED <<jobs, expired>>

(* The guarded UPDATE of consume_checkpoint: the row is still the one that *)
(* was loaded, its consumer included.                                      *)
ConsumableAnyway(c, seen) == rows[c].status = "open"  \* faulty: consumer not compared
Consumable(c, seen) == rows[c].status = "open" /\ rows[c].consumer = seen

Consume(c, seen, j) ==
  /\ rows' = [rows EXCEPT ![c].consumer = IF Consumable(c, seen) THEN j ELSE @]
  /\ UNCHANGED <<jobs, expired>>

ActivatableAnyway(c) == rows[c].status # "absent"      \* faulty: status not compared
Activatable(c) == rows[c].status = "pending"

Activate(c) ==
  /\ rows' = [rows EXCEPT ![c].status = IF Activatable(c) THEN "open" ELSE @]
  /\ UNCHANGED <<jobs, expired>>

Close(c) ==
  /\ rows' = [rows EXCEPT ![c].status = IF @ = "absent" THEN @ ELSE "closed"]
  /\ UNCHANGED <<jobs, expired>>

(* What close_open_checkpoints lists.                                      *)
Recoverable == {c \in Job : rows[c].status \in {"open", "pending"}}

(* _matches_producer: the job ended with exactly this semantic stop.       *)
Acknowledged(c) ==
  /\ jobs[c].status = "failed"
  /\ jobs[c].error = rows[c].stage
  /\ jobs[c].target = rows[c].target

-----------------------------------------------------------------------------
(***************************************************************************)
(* load_checkpoint and _resolve_consumed over the selected rows S: from    *)
(* the open rows along consumer and successor to the checkpoint each root  *)
(* resolves to.  A root may resolve to nothing; an unfinished consumer, an *)
(* unacknowledged root or an open row nobody reaches make the lookup fail. *)
(***************************************************************************)
Opened(S) == {c \in S : rows[c].status = "open" /\ Live(c)}

Included(S) ==
  LET Within[n \in 0..MaxJobs] ==
        IF n = 0 THEN Opened(S)
        ELSE Within[n - 1] \cup (S \cap {rows[c].consumer : c \in Within[n - 1]})
  IN  Within[MaxJobs]

Roots(S) ==
  LET consumers == {rows[c].consumer : c \in Included(S)}
  IN  {c \in Included(S) :
         /\ c \notin consumers
         /\ rows[c].status = "closed" => rows[c].consumer # NoJob
         /\ rows[c].status # "pending"}

(* A failed consumer hands on to the checkpoint it has produced itself.    *)
FollowsPending(S, c) ==                        \* faulty: whatever the status of the row
  LET k == rows[c].consumer
  IN  k \in S /\ jobs[k].status = "failed" /\ Live(k) /\ Acknowledged(k)
Follows(S, c) ==
  LET k == rows[c].consumer
  IN  /\ k \in S
      /\ jobs[k].status = "failed"
      /\ rows[k].status # "pending"
      /\ Live(k) /\ Acknowledged(k)

End(S, root) ==
  LET Last[c \in Job] == IF Follows(S, c) THEN Last[rows[c].consumer] ELSE c
  IN  Last[root]

Visited(S, root) ==
  LET Path[c \in Job] ==
        {c} \cup (IF Follows(S, c) THEN Path[rows[c].consumer] ELSE {rows[c].consumer})
  IN  Path[root]

ConsumerIgnored(c) == "failed"                 \* faulty: consumers are not looked at
ConsumerStatus(c) == IF rows[c].consumer = NoJob THEN "failed" ELSE jobs[rows[c].consumer].status

Lookup(S) ==
  LET resolved == {End(S, c) : c \in Roots(S)}
      found    == {c \in S \cap resolved : rows[c].status = "open" /\ ConsumerStatus(c) = "failed"}
  IN  IF /\ \A c \in Roots(S) : Live(c) /\ Acknowledged(c)
         /\ \A c \in resolved : ConsumerStatus(c) \in {"failed", "succeeded"}
         /\ Opened(S) \subseteq UNION {Visited(S, c) : c \in Roots(S)}
         /\ Cardinality(found) = 1
         /\ \A c \in found : Live(c) /\ Acknowledged(c)
      THEN found ELSE {}

Stored == {c \in Job : rows[c].status # "absent"}

(* Asked from the source pull request: every row of it.                    *)
FoundBySource == Lookup(Stored)

(* Asked from the translation pull request: the rows of its head, and a    *)
(* sole acknowledged stop that was never activated comes first.            *)
AtHead(h)     == {c \in Stored : rows[c].target = h}
Unactivated(h) == {c \in AtHead(h) : rows[c].status = "pending" /\ Live(c) /\ Acknowledged(c)}

FoundByHead(h) ==
  IF Unactivated(h) = {} THEN Lookup(AtHead(h))
  ELSE IF Cardinality(Unactivated(h)) = 1 THEN Unactivated(h) ELSE {}

=============================================================================
