------------------------------ MODULE Workflows ------------------------------
(***************************************************************************)
(* doc_translate, doc_verify and doc_continue of application/workflows.py  *)
(* on one source pull request: jobs that meet in the audit tables of       *)
(* CheckpointStore and in the translation branch on GitHub.                *)
(*                                                                         *)
(* A job is a sequential program; pc[j] names the call it makes next, and  *)
(* every database query and every read or write of the branch is a step.   *)
(* A write may fail, or commit and lose its answer; a runner may vanish.   *)
(* What the models and the validators decide is nondeterminism.            *)
(***************************************************************************)
EXTENDS CheckpointStore

CONSTANTS
  Modes,        \* what may be asked for, a subset of Mode
  MixedPairs,   \* may a verification find a pair changed in both locales?
  Outside,      \* what others do, a subset of {"push", "expiry"}
  MaxRunning,   \* jobs at work at the same time
  MaxFaults     \* faults in one behaviour

(* A continuation is asked for on the source or the translation PR.        *)
Mode == {"translate", "verify", "continue_source", "continue_translation"}

ASSUME WorkflowAssumption ==
  /\ Modes \subseteq Mode
  /\ MixedPairs \in BOOLEAN
  /\ Outside \subseteq {"push", "expiry"}
  /\ MaxRunning \in Nat /\ MaxFaults \in Nat

Base == MaxCommits + 1     \* the pinned tip of the base branch
Parent == Sha \cup {Base}

VARIABLES
  head,      \* head of the translation branch
  commits,   \* commits pushed so far
  pr,        \* is there an open translation pull request?
  mode,      \* [Job -> Mode]
  pc,        \* [Job -> Stop]: the next call of the job
  pinned,    \* [Job -> Sha]: snapshot.target_sha
  expected,  \* [Job -> Sha]: context.expected_branch_head
  current,   \* [Job -> Parent]: context.current_head
  pushed,    \* [Job -> BOOLEAN]: the publisher has pushed, so it is no noop
  held,      \* [Job -> Job or none]: the checkpoint a continuation was admitted to
  seen,      \* [Job -> Job or none]: its consumer when it was loaded
  todo,      \* [Job -> SUBSET Job]: checkpoints listed and not yet closed
  verdict,   \* [Job -> Verdict]
  capture,   \* [Job -> SemanticStop]: what the checkpoint will say
  faults     \* faults so far

branchVars  == <<head, commits, pr>>
contextVars == <<expected, current, pushed>>
resumeVars  == <<held, seen>>
endVars     == <<todo, verdict, capture>>
vars == <<storeVars, branchVars, mode, pc, pinned, contextVars, resumeVars, endVars, faults>>

Verdict == {"none", "red", "good"}
SemanticStop == [stage : Stage, target : Sha]

Begun == {"list", "sweep", "delete", "pin", "load", "check", "revive", "reread", "admit", "replay",
          "bind", "prepare", "work", "push", "ensure", "report", "capture"}
Handing == {"save", "stop", "stop_check", "stop_fail", "consume", "take", "confirm",
            "match", "activate", "opened", "tidy", "abandon", "abandon_fail", "save_fail"}
Closing == {"finish", "finish_check", "finish_fail", "succeed", "unsucceed",
            "settle", "unsettle", "fail"}
AtWork  == Begun \cup Handing \cup Closing
Stop    == {"idle", "handed", "ended", "lost"} \cup AtWork

Continues(j) == mode[j] \in {"continue_source", "continue_translation"}
Ended(j)     == pc[j] \in {"handed", "ended", "lost"}

TypeOK ==
  /\ StoreTypeOK
  /\ head \in Sha /\ commits \in 0..MaxCommits /\ pr \in BOOLEAN
  /\ mode \in [Job -> Mode] /\ pc \in [Job -> Stop]
  /\ pinned \in [Job -> Sha] /\ expected \in [Job -> Sha] /\ current \in [Job -> Parent]
  /\ pushed \in [Job -> BOOLEAN]
  /\ held \in [Job -> Job \cup {NoJob}] /\ seen \in [Job -> Job \cup {NoJob}]
  /\ todo \in [Job -> SUBSET Job] /\ verdict \in [Job -> Verdict]
  /\ capture \in [Job -> SemanticStop] /\ faults \in 0..MaxFaults

Init ==
  /\ StoreInit
  /\ head = NoSha /\ commits = 0 /\ pr = FALSE
  /\ mode = [j \in Job |-> "translate"] /\ pc = [j \in Job |-> "idle"]
  /\ pinned = [j \in Job |-> NoSha] /\ expected = [j \in Job |-> NoSha]
  /\ current = [j \in Job |-> NoSha] /\ pushed = [j \in Job |-> FALSE]
  /\ held = [j \in Job |-> NoJob] /\ seen = [j \in Job |-> NoJob]
  /\ todo = [j \in Job |-> {}] /\ verdict = [j \in Job |-> "none"]
  /\ capture = [j \in Job |-> [stage |-> "review", target |-> NoSha]]
  /\ faults = 0

-----------------------------------------------------------------------------
(***************************************************************************)
(* One write: answered, committed with the answer lost, or failed.         *)
(***************************************************************************)
Outcome == {"answered", "lost", "failed"}

Counted(out) ==
  /\ out # "answered" => faults < MaxFaults
  /\ faults' = IF out = "answered" THEN faults ELSE faults + 1

Fault == faults < MaxFaults /\ faults' = faults + 1

Goto(j, from, to) == pc[j] = from /\ pc' = [pc EXCEPT ![j] = to]

(* Where an exception leads: before a handoff to _fail_job; in the handoff *)
(* of a translation or verification to _abandon_capture; in the handoff of *)
(* a continuation nowhere, once its terminal status has been attempted.    *)
OnErrorSilent(j) == "ended"                    \* faulty: the audit is left open
OnError(j) ==
  CASE pc[j] \in Begun -> "fail"
    [] pc[j] = "save" -> IF Continues(j) THEN "save_fail" ELSE "abandon"
    [] pc[j] \in {"stop", "match", "opened"} -> IF Continues(j) THEN "ended" ELSE "abandon"
    [] pc[j] \in {"consume", "confirm"} -> IF verdict[j] = "good" THEN "fail" ELSE "ended"
    [] OTHER -> "ended"

Raise(j) == pc' = [pc EXCEPT ![j] = OnError(j)]

rest == <<branchVars, mode, pinned, contextVars, resumeVars, endVars>>

(* A read that fails, and a refusal or a crash of the code between calls.  *)
Reads == (Begun \ {"sweep", "delete", "bind"}) \cup
         {"stop_check", "consume", "confirm", "match", "opened", "finish_check"}

ReadFails(j) ==
  /\ pc[j] \in Reads /\ Fault
  /\ Raise(j)
  /\ UNCHANGED <<storeVars, rest>>

(* Denied, over budget, invalid, beyond a limit: nothing external fails.   *)
Refused(j) ==
  /\ pc[j] \in {"list", "load", "pin", "prepare", "work"}
  /\ Raise(j)
  /\ UNCHANGED <<storeVars, faults, rest>>

RunnerLost(j) ==
  /\ pc[j] \in AtWork /\ Fault
  /\ pc' = [pc EXCEPT ![j] = "lost"]
  /\ UNCHANGED <<storeVars, rest>>

-----------------------------------------------------------------------------
(***************************************************************************)
(* _start_job.  A verification names the head it is asked to verify.       *)
(***************************************************************************)
Running == {j \in Job : pc[j] \in AtWork}

First(m) == CASE m = "translate" -> "list" [] m = "verify" -> "pin" [] OTHER -> "load"

Start(j, m) ==
  /\ pc[j] = "idle" /\ \A i \in 1..(j - 1) : pc[i] # "idle"
  /\ Cardinality(Running) < MaxRunning
  /\ m \in {"verify", "continue_translation"} => pr
  /\ LET target == IF m = "verify" THEN head ELSE NoSha
     IN  \E out \in Outcome :
           /\ Counted(out)
           /\ IF out = "failed" THEN UNCHANGED storeVars ELSE InsertJob(j, target)
           /\ Goto(j, "idle", IF out = "answered" THEN First(m) ELSE "ended")
           /\ pinned' = [pinned EXCEPT ![j] = target]
  /\ mode' = [mode EXCEPT ![j] = m]
  /\ UNCHANGED <<branchVars, contextVars, resumeVars, endVars>>

(***************************************************************************)
(* close_open_checkpoints: one listing, then one UPDATE per listed row.    *)
(***************************************************************************)
List(j) ==
  /\ Goto(j, "list", "sweep")
  /\ todo' = [todo EXCEPT ![j] = Recoverable]
  /\ UNCHANGED <<storeVars, branchVars, mode, pinned, contextVars, resumeVars, verdict, capture, faults>>

Sweep(j) ==
  /\ pc[j] = "sweep"
  /\ \E c \in todo[j], out \in Outcome :
       /\ Counted(out)
       /\ IF out = "failed" THEN UNCHANGED storeVars ELSE Close(c)
       /\ todo' = [todo EXCEPT ![j] = @ \ {c}]
       /\ Goto(j, "sweep", IF out = "answered" THEN "sweep" ELSE "fail")
  /\ UNCHANGED <<branchVars, mode, pinned, contextVars, resumeVars, verdict, capture>>

Swept(j) ==
  /\ todo[j] = {}
  /\ Goto(j, "sweep", CASE verdict[j] = "none" -> "delete"
                        [] verdict[j] = "red"  -> "capture"
                        [] verdict[j] = "good" -> "succeed")
  /\ UNCHANGED <<storeVars, faults, rest>>

(***************************************************************************)
(* snapshot_translate deletes the branch, which closes its pull request,   *)
(* and pins whatever head it then finds; snapshot_verify expects its own.  *)
(***************************************************************************)
DeleteBranch(j) ==
  /\ pc[j] = "delete"
  /\ \E out \in Outcome :
       /\ Counted(out)
       /\ IF out = "failed" THEN UNCHANGED <<head, pr>> ELSE head' = NoSha /\ pr' = FALSE
       /\ Goto(j, "delete", IF out = "answered" THEN "pin" ELSE "fail")
  /\ UNCHANGED <<storeVars, commits, mode, pinned, contextVars, resumeVars, endVars>>

Context(j, parent) ==
  /\ expected' = [expected EXCEPT ![j] = head]
  /\ current' = [current EXCEPT ![j] = parent]
  /\ UNCHANGED pushed

PinHead(j) ==
  /\ \/ /\ mode[j] = "translate" \/ head = pinned[j]
        /\ Goto(j, "pin", "prepare")
        /\ Context(j, IF mode[j] = "translate" THEN Base ELSE head)
     \/ /\ mode[j] = "verify" /\ head # pinned[j]
        /\ Goto(j, "pin", "fail")
        /\ UNCHANGED contextVars
  /\ UNCHANGED <<storeVars, branchVars, mode, pinned, resumeVars, endVars, faults>>

(***************************************************************************)
(* authorize_continue: load a checkpoint, opening an acknowledged one that *)
(* was never activated, and compare the branch with it.                    *)
(***************************************************************************)
Found(j) ==
  CASE mode[j] = "continue_source" -> FoundBySource
    [] mode[j] = "continue_translation" /\ pr -> FoundByHead(head)
    [] OTHER -> {}

Load(j) ==
  /\ pc[j] = "load"
  /\ \/ \E c \in Found(j) :
          /\ Goto(j, "load", IF rows[c].status = "pending" THEN "check" ELSE "admit")
          /\ held' = [held EXCEPT ![j] = c]
          /\ seen' = [seen EXCEPT ![j] = rows[c].consumer]
     \/ /\ Found(j) = {} /\ Goto(j, "load", "fail")
        /\ UNCHANGED resumeVars
  /\ UNCHANGED <<storeVars, branchVars, mode, pinned, contextVars, endVars, faults>>

(* What activate_checkpoint wants to find before and after its UPDATE.     *)
Openable(c) == rows[c].status \in {"pending", "open"} /\ Live(c) /\ Acknowledged(c)
IsOpen(c)   == rows[c].status = "open" /\ Live(c) /\ Acknowledged(c)

(* The UPDATE's own failure is suppressed: the read that follows decides.  *)
ActivateCall(c) ==
  \E out \in Outcome :
    /\ Counted(out)
    /\ IF out = "failed" THEN UNCHANGED storeVars ELSE Activate(c)

ReviveCheck(j) ==
  /\ Goto(j, "check", IF ~Openable(held[j]) THEN "fail"
                      ELSE IF rows[held[j]].status = "pending" THEN "revive" ELSE "reread")
  /\ UNCHANGED <<storeVars, faults, rest>>

Revive(j) ==
  /\ Goto(j, "revive", "reread")
  /\ ActivateCall(held[j])
  /\ UNCHANGED rest

ReviveConfirm(j) ==
  /\ Goto(j, "reread", IF IsOpen(held[j]) THEN "admit" ELSE "fail")
  /\ UNCHANGED <<storeVars, faults, rest>>

(* The head is compared, then the label removed; validate_checkpoint_job   *)
(* reads the audit of the producer again.                                  *)
Admit(j) ==
  /\ Goto(j, "admit", IF head = rows[held[j]].target /\ Acknowledged(held[j])
                      THEN "replay" ELSE "fail")
  /\ UNCHANGED <<storeVars, faults, rest>>

(* snapshot_continue.                                                      *)
Replay(j) ==
  /\ \/ /\ Goto(j, "replay", "bind")
        /\ head = rows[held[j]].target
        /\ pinned' = [pinned EXCEPT ![j] = head]
        /\ Context(j, IF head = NoSha THEN Base ELSE head)
     \/ /\ Goto(j, "replay", "fail")
        /\ head # rows[held[j]].target
        /\ UNCHANGED <<pinned, contextVars>>
  /\ UNCHANGED <<storeVars, branchVars, mode, resumeVars, endVars, faults>>

Bind(j) ==
  /\ pc[j] = "bind"
  /\ \E out \in Outcome :
       /\ Counted(out)
       /\ IF out = "failed" THEN UNCHANGED storeVars ELSE BindSnapshot(j, pinned[j])
       /\ Goto(j, "bind", IF out = "answered" THEN "prepare" ELSE "fail")
  /\ UNCHANGED rest

-----------------------------------------------------------------------------
(***************************************************************************)
(* Content.  A stop for want of a decision captures the head it then       *)
(* finds; a continuation can meet one only where one was met before.       *)
(***************************************************************************)
MayStopEarly(j) ==
  \/ mode[j] = "translate"
  \/ mode[j] = "verify" /\ MixedPairs
  \/ Continues(j) /\ rows[held[j]].stage = "direction" /\ head = pinned[j]

StopEarly(j) ==
  /\ Goto(j, "prepare", "save")
  /\ MayStopEarly(j)
  /\ capture' = [capture EXCEPT ![j] = [stage |-> "direction", target |-> head]]
  /\ UNCHANGED <<storeVars, branchVars, mode, pinned, contextVars, resumeVars, todo, verdict, faults>>

(* The translation is there already, or there is something to do.          *)
Prepare(j) ==
  /\ \/ mode[j] = "translate" /\ Goto(j, "prepare", "settle")
     \/ Goto(j, "prepare", "work")
  /\ UNCHANGED <<storeVars, faults, rest>>

(***************************************************************************)
(* Publication and review.  The candidate, each chunk the critic corrects  *)
(* and the reviewed candidate are commits when they change a file; push    *)
(* looks at the head, and then writes it.  A push under way has Room.      *)
(***************************************************************************)
Room == commits + Cardinality({j \in Job : pc[j] = "push"}) < MaxCommits

WantPush(j) ==
  /\ pc[j] = "work" /\ Room
  /\ Goto(j, "work", IF head = expected[j] THEN "push" ELSE "fail")
  /\ UNCHANGED <<storeVars, faults, rest>>

Reviewed(j) ==
  /\ Goto(j, "work", "report")
  /\ \E v \in {"red", "good"} : verdict' = [verdict EXCEPT ![j] = v]
  /\ UNCHANGED <<storeVars, branchVars, mode, pinned, contextVars, resumeVars, todo, capture, faults>>

(* GitHub creates a reference that is absent, moves one forward from the   *)
(* parent of the new commit, and moves it anywhere when forced.            *)
Forced(j) == expected[j] # current[j]
AcceptedAlways(j) == (expected[j] = NoSha) = (head = NoSha)  \* faulty: always forced
Accepted(j) ==
  IF expected[j] = NoSha THEN head = NoSha
  ELSE head # NoSha /\ (Forced(j) \/ head = expected[j])

Push(j) ==
  \/ /\ Goto(j, "push", "fail") /\ ~Accepted(j)
     /\ UNCHANGED <<storeVars, faults, rest>>
  \/ \E out \in Outcome :
       /\ pc[j] = "push" /\ Accepted(j) /\ Counted(out)
       /\ IF out = "failed" THEN UNCHANGED <<head, commits>>
          ELSE commits' = commits + 1 /\ head' = commits + 1
       /\ IF out = "answered"
          THEN /\ expected' = [expected EXCEPT ![j] = head']
               /\ current' = [current EXCEPT ![j] = head']
               /\ pushed' = [pushed EXCEPT ![j] = TRUE]
               /\ Goto(j, "push", IF pushed[j] THEN "work" ELSE "ensure")
          ELSE Goto(j, "push", "fail") /\ UNCHANGED contextVars
       /\ UNCHANGED <<storeVars, pr, mode, pinned, resumeVars, endVars>>

(* ensure_pr after the first commit: update the pull request or create it. *)
EnsurePr(j) ==
  /\ pc[j] = "ensure"
  /\ \E out \in Outcome :
       /\ Counted(out)
       /\ pr' = (pr \/ (out # "failed" /\ head # NoSha))
       /\ Goto(j, "ensure", IF out = "answered" /\ pr' THEN "work" ELSE "fail")
  /\ UNCHANGED <<storeVars, head, commits, mode, pinned, contextVars, resumeVars, endVars>>

(***************************************************************************)
(* update_current_pr.  A job without a commit reports on the source PR if  *)
(* it is a translation, or a continuation of a branch that never was.      *)
(***************************************************************************)
OnSource(j) ==
  /\ ~pushed[j]
  /\ mode[j] = "translate" \/ (Continues(j) /\ pinned[j] = NoSha /\ head = NoSha)

Report(j) ==
  LET onBranch == head = current[j] /\ (pushed[j] \/ pr)
      reported == IF mode[j] = "verify" THEN "list"
                  ELSE IF verdict[j] = "red" THEN "capture"
                  ELSE IF mode[j] = "translate" THEN "succeed" ELSE "consume"
  IN  /\ Goto(j, "report", IF OnSource(j) \/ onBranch THEN reported ELSE "fail")
      /\ pr' = (pr \/ (pushed[j] /\ onBranch))
      /\ UNCHANGED <<storeVars, head, commits, mode, pinned, contextVars, resumeVars, endVars, faults>>

-----------------------------------------------------------------------------
(***************************************************************************)
(* review_checkpoint, and the handoff of a semantic stop: stage the row,   *)
(* record the stop as the job's end, consume the checkpoint this job came  *)
(* from if it is a continuation, and open the row.                         *)
(***************************************************************************)
FinalShaOfContext(j) == current[j]             \* faulty: also when there is no commit
FinalSha(j) == IF pushed[j] THEN current[j] ELSE pinned[j]  \* of base: recorded as none

Capture(j) ==
  LET target == FinalSha(j)
      fits   == head = target \/ (target = NoSha /\ ~Continues(j))
  IN  /\ Goto(j, "capture", IF fits THEN "save" ELSE "fail")
      /\ capture' = [capture EXCEPT ![j] = [stage |-> "review", target |-> target]]
      /\ UNCHANGED <<storeVars, branchVars, mode, pinned, contextVars, resumeVars, todo, verdict, faults>>

(* A successor is as old as the checkpoint it succeeds.                    *)
OwnRoot(j) == j                                \* faulty: a fresh age
RootOf(j) == IF Continues(j) THEN rows[held[j]].root ELSE j

Save(j) ==
  \/ /\ pc[j] = "save" /\ RootOf(j) \in expired
     /\ Raise(j)
     /\ UNCHANGED <<storeVars, faults, rest>>
  \/ \E out \in Outcome :
       /\ pc[j] = "save" /\ RootOf(j) \notin expired
       /\ Counted(out)
       /\ IF out = "failed" THEN UNCHANGED storeVars
          ELSE SaveCheckpoint(j, capture[j].stage, capture[j].target, RootOf(j))
       /\ IF out = "answered" THEN pc' = [pc EXCEPT ![j] = "stop"] ELSE Raise(j)
       /\ UNCHANGED rest

(* A write of the jobs table at from, and where its answer leads.          *)
Record(j, from, status, error, target, answered, unanswered) ==
  /\ pc[j] = from
  /\ \E out \in Outcome :
       /\ Counted(out)
       /\ IF out = "failed" THEN UNCHANGED storeVars ELSE FinishJob(j, status, error, target)
       /\ Goto(j, from, IF out = "answered" THEN answered ELSE unanswered)
  /\ UNCHANGED rest

RecordStop(j) ==
  IF Continues(j)
  THEN Record(j, "stop", "failed", capture[j].stage, capture[j].target, "consume", "stop_check")
  ELSE Record(j, "stop", "failed", capture[j].stage, capture[j].target, "match", "abandon")

(* finish_job_reconciled reads the job again before it calls it failed.    *)
StopCheck(j) ==
  /\ Goto(j, "stop_check",
       CASE jobs[j] = [status |-> "failed", error |-> capture[j].stage, target |-> capture[j].target]
              -> "consume"
         [] jobs[j].status = "started" -> "stop_fail"
         [] OTHER -> "ended")
  /\ UNCHANGED <<storeVars, faults, rest>>

StopFail(j) == Record(j, "stop_fail", "failed", "other", capture[j].target, "ended", "ended")
SaveFail(j) == Record(j, "save_fail", "failed", "other", capture[j].target, "ended", "ended")

(***************************************************************************)
(* consume_checkpoint: read, guarded UPDATE, read again.                   *)
(***************************************************************************)
ConsumeCheck(j) ==
  /\ pc[j] = "consume"
  /\ IF Live(held[j]) /\ Consumable(held[j], seen[j]) /\ Acknowledged(held[j])
     THEN pc' = [pc EXCEPT ![j] = "take"] ELSE Raise(j)
  /\ UNCHANGED <<storeVars, faults, rest>>

Take(j) ==
  /\ Goto(j, "take", "confirm")
  /\ \E out \in Outcome :
       /\ Counted(out)
       /\ IF out = "failed" THEN UNCHANGED storeVars ELSE Consume(held[j], seen[j], j)
  /\ UNCHANGED rest

Confirm(j) ==
  /\ pc[j] = "confirm"
  /\ IF rows[held[j]].status = "open" /\ rows[held[j]].consumer = j
     THEN pc' = [pc EXCEPT ![j] = IF verdict[j] = "good" THEN "finish" ELSE "match"]
     ELSE Raise(j)
  /\ UNCHANGED <<storeVars, faults, rest>>

(***************************************************************************)
(* activate_checkpoint of the job's own row.                               *)
(***************************************************************************)
Match(j) ==
  /\ pc[j] = "match"
  /\ IF Openable(j)
     THEN pc' = [pc EXCEPT ![j] = IF rows[j].status = "pending" THEN "activate" ELSE "opened"]
     ELSE Raise(j)
  /\ UNCHANGED <<storeVars, faults, rest>>

ActivateOwn(j) ==
  /\ Goto(j, "activate", "opened")
  /\ ActivateCall(j)
  /\ UNCHANGED rest

OwnOpened(j) ==
  /\ pc[j] = "opened"
  /\ IF IsOpen(j)
     THEN pc' = [pc EXCEPT ![j] = IF Continues(j) THEN "tidy" ELSE "handed"]
     ELSE Raise(j)
  /\ UNCHANGED <<storeVars, faults, rest>>

(* An UPDATE that closes a row and whose failure is suppressed.            *)
CloseQuietly(j, c, from, to) ==
  /\ pc[j] = from
  /\ \E out \in Outcome :
       /\ Counted(out)
       /\ IF out = "failed" THEN UNCHANGED storeVars ELSE Close(c)
       /\ Goto(j, from, to)
  /\ UNCHANGED rest

Tidy(j) == CloseQuietly(j, held[j], "tidy", IF verdict[j] = "good" THEN "ended" ELSE "handed")

(* _abandon_capture; then _fail_job, unless content stopped the job early. *)
Abandon(j) == CloseQuietly(j, j, "abandon", "abandon_fail")
AbandonFail(j) ==
  LET next == IF verdict[j] = "none" THEN "ended" ELSE "fail"
  IN  Record(j, "abandon_fail", "failed", "other", capture[j].target, next, next)

-----------------------------------------------------------------------------
(***************************************************************************)
(* The other ends: a continuation to GREEN, a translation or verification, *)
(* a translation with nothing to do, and _fail_job.                        *)
(***************************************************************************)
Finish(j) == Record(j, "finish", "succeeded", "none", FinalSha(j), "tidy", "finish_check")

FinishUnchecked(j) ==                               \* faulty: writes without a read-back
  /\ Goto(j, "finish_check", "finish_fail")
  /\ UNCHANGED <<storeVars, faults, rest>>
FinishCheck(j) ==
  /\ Goto(j, "finish_check", CASE jobs[j].status = "succeeded" -> "tidy"
                               [] jobs[j].status = "started"   -> "finish_fail"
                               [] OTHER -> "ended")
  /\ UNCHANGED <<storeVars, faults, rest>>

FinishFail(j) == Record(j, "finish_fail", "failed", "other", FinalSha(j), "ended", "ended")

Succeed(j)   == Record(j, "succeed", "succeeded", "none", FinalSha(j), "ended", "unsucceed")
Unsucceed(j) == Record(j, "unsucceed", "failed", "other", FinalSha(j), "ended", "ended")
Settle(j)    == Record(j, "settle", "succeeded", "none", FinalSha(j), "ended", "unsettle")
Unsettle(j)  == Record(j, "unsettle", "failed", "other", FinalSha(j), "fail", "fail")
FailJob(j)   == Record(j, "fail", "failed", "other", FinalSha(j), "ended", "ended")

(* A maintainer pushes to the translation branch; two weeks pass.          *)
OutsidePush ==
  /\ "push" \in Outside /\ pr /\ Room
  /\ commits' = commits + 1 /\ head' = commits + 1
  /\ UNCHANGED <<storeVars, pr, mode, pc, pinned, contextVars, resumeVars, endVars, faults>>

Expire(j) ==
  /\ "expiry" \in Outside /\ Ended(j) /\ j \notin expired
  /\ expired' = expired \cup {j}
  /\ UNCHANGED <<jobs, rows, pc, faults, rest>>

-----------------------------------------------------------------------------
Translating(j) == List(j) \/ Sweep(j) \/ Swept(j) \/ DeleteBranch(j) \/ PinHead(j)
Resuming(j) ==
  Load(j) \/ ReviveCheck(j) \/ Revive(j) \/ ReviveConfirm(j) \/ Admit(j) \/ Replay(j) \/ Bind(j)
Publishing(j) ==
  \/ StopEarly(j) \/ Prepare(j) \/ WantPush(j) \/ Reviewed(j)
  \/ Push(j) \/ EnsurePr(j) \/ Report(j) \/ Capture(j)
HandingOver(j) ==
  \/ Save(j) \/ RecordStop(j) \/ StopCheck(j) \/ StopFail(j) \/ SaveFail(j)
  \/ ConsumeCheck(j) \/ Take(j) \/ Confirm(j)
  \/ Match(j) \/ ActivateOwn(j) \/ OwnOpened(j) \/ Tidy(j) \/ Abandon(j) \/ AbandonFail(j)
Ending(j) ==
  \/ Finish(j) \/ FinishCheck(j) \/ FinishFail(j)
  \/ Succeed(j) \/ Unsucceed(j) \/ Settle(j) \/ Unsettle(j) \/ FailJob(j)

JobStep(j) ==
  Translating(j) \/ Resuming(j) \/ Publishing(j) \/ HandingOver(j) \/ Ending(j) \/ ReadFails(j) \/ Refused(j)

Next ==
  \/ OutsidePush
  \/ \E j \in Job :
       JobStep(j) \/ RunnerLost(j) \/ Expire(j) \/ (\E m \in Modes : Start(j, m))

Spec == Init /\ [][Next]_vars

(* A runner goes on with its job.                                          *)
FairSpec == Spec /\ \A j \in Job : WF_vars(JobStep(j))
-----------------------------------------------------------------------------
(***************************************************************************)
(* Properties.                                                             *)
(***************************************************************************)
Succeeded(j) == Continues(j) /\ jobs[j].status = "succeeded"

(* Of all the continuations that were admitted to a checkpoint at most one *)
(* ends in success, however they overlap and whatever acknowledgement is   *)
(* lost (consume_checkpoint's guarded UPDATE and its two readings).        *)
OneSuccessPerCheckpoint ==
  \A j, k \in Job : Succeeded(j) /\ Succeeded(k) /\ held[j] = held[k] => j = k

(* What a GREEN continuation, a later translation or verification has      *)
(* closed stays closed: no activation that was under way opens it again.   *)
ClosedStaysClosed ==
  [][\A c \in Job : rows[c].status = "closed" => rows'[c].status = "closed"]_vars

(* How far a continuation is, by its audit.                                *)
EndOf(j) ==
  IF ~Continues(j) THEN "none"
  ELSE CASE jobs[j].status = "none" -> "none"
         [] jobs[j].status = "started" -> "running"
         [] OTHER -> jobs[j].status

L == INSTANCE Lineage WITH
       status <- [c \in Job |-> rows[c].status],
       taker  <- [c \in Job |-> rows[c].consumer],
       end    <- [j \in Job |-> EndOf(j)]

(* The jobs implement Lineage: only a stop that is the recorded end of its *)
(* job is opened; a checkpoint passes from a continuation that failed to   *)
(* one that is on its way to success or leaves its own in its place; none  *)
(* takes two; one that succeeds has its checkpoint and leaves none, and    *)
(* its SUCCESS is never overwritten, not even when the answer to the write *)
(* was lost (consume_checkpoint, activate_checkpoint, and                  *)
(* finish_job_reconciled).                                                 *)
LineageKept == L!Spec

(* The job whose start began the lineage of a checkpoint.                  *)
Origin(c) ==
  LET From[i \in Job] == IF Continues(i) /\ held[i] # NoJob THEN From[held[i]] ELSE i
  IN  From[c]

(* Fourteen days after the first job of a lineage no continuation of it is *)
(* admitted any more, however often it has been continued since            *)
(* (save_checkpoint stages a stop "without refreshing its lineage age").   *)
NoneOutlivesOrigin ==
  [][\A j \in Job : pc[j] = "load" /\ held'[j] # NoJob => Origin(held'[j]) \notin expired]_vars

(* A verification or continuation replaces only the head it expects, even  *)
(* when the head moves between push's reading and its write: GitHub moves  *)
(* a reference that is not forced forward only.                            *)
Replaces(j) == pc[j] = "push" /\ pc'[j] # "push" /\ head' # head

UpdatesFollowHead ==
  [][\A j \in Job : Replaces(j) /\ mode[j] # "translate" => head = expected[j]]_vars

(* docs/deployment.md: a translation "replaces only the exact head         *)
(* captured during snapshot resolution; a moved head fails closed".        *)
TranslationReplacesCapturedHead ==
  [][\A j \in Job : Replaces(j) /\ mode[j] = "translate" => head = expected[j]]_vars

Quiet == Running = {}

(* Once a continuation has succeeded, and nobody is at work, no checkpoint *)
(* from before it can be resumed from the source pull request.             *)
SuccessSeals ==
  Quiet => \A k \in Job : Succeeded(k) => \A c \in FoundBySource : c > k

(* A stop that was handed over can be continued: while the branch has the  *)
(* head it names, nothing but continuations came after it and each of them *)
(* recorded a failure, a lookup from the source finds a checkpoint there.  *)
StopStaysResumable ==
  Quiet => \A j \in Job :
    /\ pc[j] = "handed" /\ head = rows[j].target /\ rows[j].root \notin expired
    /\ \A k \in Job : k > j /\ pc[k] # "idle" =>
          Continues(k) /\ pc[k] = "ended" /\ jobs[k].status = "failed"
    => \E c \in FoundBySource : rows[c].target = head

(* Every job that was started gets a terminal status when no call fails.   *)
AuditCloses == \A j \in Job : jobs[j].status = "started" ~> jobs[j].status # "started"
=============================================================================
