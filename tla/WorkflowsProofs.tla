----------------------------- MODULE WorkflowsProofs -----------------------------
(***************************************************************************)
(* Eight promises of Workflows for any number of jobs, commits and faults: *)
(* what may be done to a checkpoint, to a success and to the branch.  The  *)
(* proof abstracts a step of a job to its effect on the two tables, and    *)
(* follows the way of a continuation through its calls.                    *)
(***************************************************************************)
EXTENDS Workflows, FiniteSetTheorems, WellFoundedInduction, TLAPS

(* The shape of the state, a SHA being any number.                         *)
JobShape == [status : JobStatus, error : Error, target : Nat]
RowShape == [status : RowStatus, stage : Stage, target : Nat,
             consumer : Job \cup {NoJob}, root : Job \cup {NoJob}]
Shape ==
  /\ jobs \in [Job -> JobShape] /\ rows \in [Job -> RowShape]
  /\ head \in Nat /\ commits \in Nat
  /\ mode \in [Job -> Mode] /\ pc \in [Job -> Stop]
  /\ pinned \in [Job -> Nat] /\ expected \in [Job -> Nat] /\ current \in [Job -> Nat]
  /\ held \in [Job -> Job \cup {NoJob}] /\ seen \in [Job -> Job \cup {NoJob}]
  /\ todo \in [Job -> SUBSET Job] /\ verdict \in [Job -> Verdict]
  /\ capture \in [Job -> [stage : Stage, target : Nat]]

(* The way of a job: what its next call says of the ones before.           *)
Early   == {"load", "check", "revive", "reread", "admit", "replay", "bind", "prepare", "work", "push", "ensure"}
Unknown == {"list", "sweep", "delete", "pin", "succeed", "unsucceed", "settle", "unsettle",
            "abandon", "abandon_fail"}
Resumed == {"load", "check", "revive", "reread", "admit", "replay", "bind", "stop_check", "stop_fail",
            "save_fail", "consume", "take", "confirm", "tidy"}
Stopping  == {"capture", "save", "stop", "stop_check", "stop_fail", "save_fail"}
Finishing == {"finish", "finish_check", "finish_fail"}

Way(j) ==
  /\ pc[j] = "idle" => mode[j] = "translate" /\ jobs[j].status = "none" /\ expected[j] = NoSha
                       /\ verdict[j] = "none"
  /\ Continues(j) => pc[j] \notin Unknown
  /\ pc[j] \in Resumed \cup Finishing => Continues(j)
  /\ Continues(j) /\ pc[j] \in Early => verdict[j] = "none"
  /\ Continues(j) /\ pc[j] \in Begun \cup {"save"} => jobs[j].status = "started"
  /\ Continues(j) /\ pc[j] \notin {"load", "fail", "ended", "lost"} => held[j] \in Job
  /\ Continues(j) /\ pc[j] \in Stopping => verdict[j] # "good"
  /\ pc[j] \in Finishing => verdict[j] = "good"
  /\ mode[j] # "translate" /\ expected[j] # NoSha => current[j] = expected[j]

(* What has become of a continuation, and who has consumed its checkpoint. *)
Settled(j) ==
  /\ Continues(j) /\ jobs[j].status = "failed" /\ verdict[j] = "good" => pc[j] \in {"ended", "lost"}
  /\ Succeeded(j) => verdict[j] = "good" /\ pc[j] \in {"finish_check", "tidy", "ended", "lost"}
  /\ Succeeded(j) \/ pc[j] \in Finishing => held[j] \in Job /\ rows[held[j]].consumer = j

(* A row is written once; whoever was seen to have consumed it has failed. *)
Written(j) ==
  /\ pc[j] \in Begun \cup {"idle", "save"} => rows[j].status = "absent"
  /\ rows[j].status = "pending" => rows[j].consumer = NoJob
  /\ rows[j].consumer # NoJob => Continues(rows[j].consumer)
  /\ held[j] # NoJob => rows[held[j]].status # "absent"
  /\ seen[j] # NoJob => Continues(seen[j]) /\ jobs[seen[j]].status = "failed"

WorkInv == Shape /\ \A j \in Job : Way(j) /\ Settled(j) /\ Written(j)

USE DEF storeVars, branchVars, contextVars, resumeVars, endVars, rest

LEMMA NoJobIsNone == NoJob \notin Job
BY DEF NoJob, Job

-----------------------------------------------------------------------------
LEMMA WorkInit == Init => WorkInv
<1> SUFFICES ASSUME Init PROVE WorkInv
  OBVIOUS
<1> USE DEF Init, StoreInit
<1>1. Shape
  BY DEF Shape, JobShape, RowShape, JobStatus, Error, Stage, RowStatus, NoRow, NoSha, NoJob, Mode, Stop,
         Verdict
<1>2. ASSUME NEW j \in Job PROVE Way(j)
  BY DEF Way, Continues, Unknown, Resumed, Finishing
<1>3. ASSUME NEW j \in Job PROVE Settled(j)
  BY DEF Settled, Succeeded, Continues, Finishing
<1>4. ASSUME NEW j \in Job PROVE Written(j)
  BY DEF Written, NoRow
<1> QED
  BY <1>1, <1>2, <1>3, <1>4 DEF WorkInv

-----------------------------------------------------------------------------
(* The effect of a step of job j on the tables.                            *)
Failing    == {"stop", "stop_fail", "save_fail", "abandon_fail", "finish_fail", "unsucceed", "unsettle", "fail"}
Succeeding == {"finish", "succeed", "settle"}

(* The commits a job has a name for when it writes.                        *)
Named(j) == {NoSha, head, pinned[j], capture[j].target, FinalSha(j)}

Effect(j) ==
  \/ UNCHANGED <<jobs, rows>>
  \/ pc[j] = "idle" /\ \E t \in Named(j) : InsertJob(j, t)
  \/ \E t \in Named(j) : BindSnapshot(j, t)
  \/ pc[j] \in Failing /\ \E e \in Error, t \in Named(j) : FinishJob(j, "failed", e, t)
  \/ pc[j] \in Succeeding /\ \E t \in Named(j) : FinishJob(j, "succeeded", "none", t)
  \/ pc[j] = "save" /\ \E s \in Stage, t \in Named(j) : SaveCheckpoint(j, s, t, RootOf(j))
  \/ pc[j] = "take" /\ Consume(held[j], seen[j], j)
  \/ pc[j] = "revive" /\ Activate(held[j])
  \/ pc[j] = "activate" /\ Activate(j)
  \/ \E c \in Job : Close(c)

Step(j) == JobStep(j) \/ RunnerLost(j) \/ Expire(j) \/ \E m \in Modes : Start(j, m)

LEMMA ShaTypes ==
  ASSUME Shape, NEW j \in Job
  PROVE  /\ FinalSha(j) \in Nat /\ pinned[j] \in Nat /\ capture[j].target \in Nat
         /\ Named(j) \subseteq Nat
         /\ capture[j].stage \in Stage /\ capture[j].stage \in Error
         /\ {NoSha, head, pinned[j], capture[j].target, FinalSha(j)} \subseteq Named(j)
BY DEF Shape, FinalSha, Error, Named, NoSha

LEMMA RecordEffect ==
  ASSUME Shape, NEW j \in Job, NEW from, NEW status, NEW error \in Error, NEW target \in Named(j), NEW a, NEW u,
         Record(j, from, status, error, target, a, u),
         \/ status = "failed" /\ from \in Failing
         \/ status = "succeeded" /\ error = "none" /\ from \in Succeeding
  PROVE  Effect(j)
<1>1. pc[j] = from
  BY DEF Record, Goto
<1>2. UNCHANGED storeVars \/ FinishJob(j, status, error, target)
  BY DEF Record
<1>3. CASE UNCHANGED storeVars
  BY <1>3 DEF Effect
<1>4. CASE FinishJob(j, status, error, target)
  BY <1>1, <1>4 DEF Effect
<1> QED
  BY <1>2, <1>3, <1>4

LEMMA StepEffect ==
  ASSUME Shape, NEW j \in Job, Way(j), Step(j)
  PROVE  Effect(j)
<1>0. "other" \in Error /\ "none" \in Error
  BY DEF Error
<1>1. CASE \/ List(j) \/ Swept(j) \/ DeleteBranch(j) \/ PinHead(j) \/ Load(j) \/ ReviveCheck(j)
           \/ ReviveConfirm(j) \/ Admit(j) \/ Replay(j) \/ StopEarly(j) \/ Prepare(j) \/ WantPush(j)
           \/ Reviewed(j) \/ Push(j) \/ EnsurePr(j) \/ Report(j) \/ Capture(j) \/ StopCheck(j)
           \/ ConsumeCheck(j) \/ Confirm(j) \/ Match(j) \/ OwnOpened(j) \/ FinishCheck(j)
           \/ ReadFails(j) \/ Refused(j) \/ RunnerLost(j) \/ Expire(j)
  <2>1. UNCHANGED <<jobs, rows>>
    BY <1>1 DEF List, Swept, DeleteBranch, PinHead, Load, ReviveCheck, ReviveConfirm, Admit, Replay, StopEarly,
                Prepare, WantPush, Reviewed, Push, EnsurePr, Report, Capture, StopCheck, ConsumeCheck, Confirm,
                Match, OwnOpened, FinishCheck, ReadFails, Refused, RunnerLost, Expire
  <2> QED
    BY <2>1 DEF Effect
<1>2. CASE Sweep(j)
  <2>1. PICK c \in todo[j] : UNCHANGED storeVars \/ Close(c)
    BY <1>2 DEF Sweep
  <2>2. c \in Job
    BY DEF Shape
  <2> QED
    BY <2>1, <2>2 DEF Effect
<1>3. CASE Revive(j) \/ Tidy(j)
  <2>1. held[j] \in Job
    BY <1>3 DEF Revive, Tidy, CloseQuietly, Goto, Way, Resumed
  <2>2. UNCHANGED storeVars \/ (pc[j] = "revive" /\ Activate(held[j])) \/ Close(held[j])
    BY <1>3 DEF Revive, Tidy, CloseQuietly, ActivateCall, Goto
  <2> QED
    BY <2>1, <2>2 DEF Effect
<1>4. CASE ActivateOwn(j) \/ Abandon(j)
  <2>1. UNCHANGED storeVars \/ (pc[j] = "activate" /\ Activate(j)) \/ Close(j)
    BY <1>4 DEF ActivateOwn, Abandon, CloseQuietly, ActivateCall, Goto
  <2> QED
    BY <2>1 DEF Effect
<1>5. CASE Bind(j)
  <2>1. UNCHANGED storeVars \/ BindSnapshot(j, pinned[j])
    BY <1>5 DEF Bind
  <2> QED
    BY <2>1, ShaTypes DEF Effect
<1>6. CASE Save(j)
  <2>1. pc[j] = "save" /\ (UNCHANGED storeVars \/ SaveCheckpoint(j, capture[j].stage, capture[j].target, RootOf(j)))
    BY <1>6 DEF Save
  <2> QED
    BY <2>1, ShaTypes DEF Effect
<1>7. CASE Take(j)
  <2>1. pc[j] = "take" /\ (UNCHANGED storeVars \/ Consume(held[j], seen[j], j))
    BY <1>7 DEF Take, Goto
  <2> QED
    BY <2>1 DEF Effect
<1>8. CASE RecordStop(j)
  <2>1. \E a, u : Record(j, "stop", "failed", capture[j].stage, capture[j].target, a, u)
    BY <1>8 DEF RecordStop
  <2> QED
    BY <2>1, ShaTypes, RecordEffect DEF Failing
<1>9. CASE StopFail(j) \/ SaveFail(j) \/ AbandonFail(j)
  <2>1. \E from \in Failing : \E a, u : Record(j, from, "failed", "other", capture[j].target, a, u)
    BY <1>9 DEF StopFail, SaveFail, AbandonFail, Failing
  <2> QED
    BY <2>1, <1>0, ShaTypes, RecordEffect
<1>10. CASE FinishFail(j) \/ Unsucceed(j) \/ Unsettle(j) \/ FailJob(j)
  <2>1. \E from \in Failing : \E a, u : Record(j, from, "failed", "other", FinalSha(j), a, u)
    BY <1>10 DEF FinishFail, Unsucceed, Unsettle, FailJob, Failing
  <2> QED
    BY <2>1, <1>0, ShaTypes, RecordEffect
<1>11. CASE Finish(j) \/ Succeed(j) \/ Settle(j)
  <2>1. \E from \in Succeeding : \E a, u : Record(j, from, "succeeded", "none", FinalSha(j), a, u)
    BY <1>11 DEF Finish, Succeed, Settle, Succeeding
  <2> QED
    BY <2>1, <1>0, ShaTypes, RecordEffect
<1>12. ASSUME NEW m \in Modes, Start(j, m) PROVE Effect(j)
  <2>1. pc[j] = "idle" /\ (UNCHANGED storeVars \/ InsertJob(j, IF m = "verify" THEN head ELSE NoSha))
    BY <1>12 DEF Start
  <2>2. (IF m = "verify" THEN head ELSE NoSha) \in Named(j)
    BY ShaTypes
  <2> QED
    BY <2>1, <2>2 DEF Effect
<1> QED
  BY <1>1, <1>2, <1>3, <1>4, <1>5, <1>6, <1>7, <1>8, <1>9, <1>10, <1>11, <1>12
     DEF Step, JobStep, Translating, Resuming, Publishing, HandingOver, Ending

-----------------------------------------------------------------------------
(* What an effect does to every job and every row.                         *)
RowKept(c) ==
  /\ rows'[c].consumer = rows[c].consumer /\ rows'[c].root = rows[c].root
  /\ rows'[c].status = "absent" <=> rows[c].status = "absent"
  /\ rows'[c].status = "pending" => rows[c].status = "pending"
  /\ rows[c].status = "closed" => rows'[c].status = "closed"
RowSaved(j, c) ==
  /\ c = j /\ pc[j] = "save"
  /\ rows'[c].status = "pending" /\ rows'[c].consumer = NoJob /\ rows'[c].root = RootOf(j)
RowTaken(j, c) ==
  /\ c = held[j] /\ pc[j] = "take"
  /\ rows[c].status = "open" /\ rows'[c].status = "open"
  /\ rows[c].consumer = seen[j] /\ rows'[c].consumer = j
  /\ rows'[c].root = rows[c].root

StatusMoves(j) ==
  \/ jobs'[j].status = jobs[j].status
  \/ pc[j] = "idle" /\ jobs'[j].status = "started"
  \/ pc[j] \in Failing /\ jobs'[j].status = "failed"
  \/ pc[j] \in Succeeding /\ jobs'[j].status = "succeeded"

StoreStep(j) ==
  /\ jobs' \in [Job -> JobShape] /\ rows' \in [Job -> RowShape]
  /\ \A i \in Job : i # j => jobs'[i] = jobs[i]
  /\ StatusMoves(j)
  /\ \A c \in Job : RowKept(c) \/ RowSaved(j, c) \/ RowTaken(j, c)
  /\ \A c \in Job : /\ jobs'[c].target \in Named(j) \cup {jobs[c].target}
                    /\ rows'[c].target \in Named(j) \cup {rows[c].target}

LEMMA JobsWrite ==
  ASSUME Shape, NEW j \in Job, NEW r \in JobShape, jobs' = [jobs EXCEPT ![j] = r], UNCHANGED rows,
         r.target \in Named(j) \cup {jobs[j].target},
         r.status # jobs[j].status =>
            \/ pc[j] = "idle" /\ r.status = "started"
            \/ pc[j] \in Failing /\ r.status = "failed"
            \/ pc[j] \in Succeeding /\ r.status = "succeeded"
  PROVE  StoreStep(j)
<1>1. jobs' \in [Job -> JobShape] /\ rows' \in [Job -> RowShape]
  BY DEF Shape
<1>2. \A i \in Job : i # j => jobs'[i] = jobs[i]
  BY DEF Shape
<1>3. jobs'[j] = r
  BY DEF Shape
<1>4. \A c \in Job : RowKept(c)
  BY DEF RowKept
<1>5. \A c \in Job : jobs'[c].target \in Named(j) \cup {jobs[c].target} /\ rows'[c].target = rows[c].target
  BY <1>2, <1>3
<1> QED
  BY <1>1, <1>2, <1>3, <1>4, <1>5 DEF StoreStep, StatusMoves

LEMMA RowsWrite ==
  ASSUME Shape, NEW j \in Job, NEW c \in Job, NEW r \in RowShape,
         rows' = [rows EXCEPT ![c] = r], UNCHANGED jobs, r.target \in Named(j) \cup {rows[c].target},
         \/ /\ r.consumer = rows[c].consumer /\ r.root = rows[c].root
            /\ r.status = "absent" <=> rows[c].status = "absent"
            /\ r.status = "pending" => rows[c].status = "pending"
            /\ rows[c].status = "closed" => r.status = "closed"
         \/ /\ c = j /\ pc[j] = "save"
            /\ r.status = "pending" /\ r.consumer = NoJob /\ r.root = RootOf(j)
         \/ /\ c = held[j] /\ pc[j] = "take" /\ rows[c].status = "open" /\ r.status = "open"
            /\ rows[c].consumer = seen[j] /\ r.consumer = j /\ r.root = rows[c].root
  PROVE  StoreStep(j)
<1>1. jobs' \in [Job -> JobShape] /\ rows' \in [Job -> RowShape]
  BY DEF Shape
<1>2. rows'[c] = r /\ \A d \in Job : d # c => rows'[d] = rows[d]
  BY DEF Shape
<1>3. \A d \in Job : d # c => RowKept(d)
  BY <1>2 DEF RowKept
<1>4. RowKept(c) \/ RowSaved(j, c) \/ RowTaken(j, c)
  BY <1>2 DEF RowKept, RowSaved, RowTaken
<1>5. \A d \in Job : rows'[d].target \in Named(j) \cup {rows[d].target} /\ jobs'[d].target = jobs[d].target
  BY <1>2
<1> QED
  BY <1>1, <1>3, <1>4, <1>5 DEF StoreStep, StatusMoves

LEMMA RootTypes ==
  ASSUME Shape, NEW j \in Job, Way(j), pc[j] = "save"
  PROVE  RootOf(j) \in Job \cup {NoJob}
BY DEF RootOf, Way, Shape, RowShape

LEMMA EffectStore ==
  ASSUME Shape, NEW j \in Job, Way(j), pc[j] \in {"take", "revive"} => held[j] \in Job, Effect(j)
  PROVE  StoreStep(j)
<1>0. jobs[j] \in JobShape /\ (\A c \in Job : rows[c] \in RowShape) /\ Named(j) \subseteq Nat
  BY ShaTypes DEF Shape
<1>1. CASE UNCHANGED <<jobs, rows>>
  BY <1>1 DEF StoreStep, StatusMoves, RowKept, Shape
<1>2. ASSUME NEW t \in Named(j), pc[j] = "idle", InsertJob(j, t) PROVE StoreStep(j)
  <2> DEFINE r == [status |-> "started", error |-> "none", target |-> t]
  <2>1. r \in JobShape /\ r.target = t
    BY <1>0 DEF JobShape, JobStatus, Error
  <2>2. jobs' = [jobs EXCEPT ![j] = r] /\ UNCHANGED rows /\ r.status = "started"
    BY <1>2 DEF InsertJob
  <2> HIDE DEF r
  <2> QED
    BY <1>2, <2>1, <2>2, JobsWrite
<1>3. ASSUME NEW t \in Named(j), BindSnapshot(j, t) PROVE StoreStep(j)
  <2> DEFINE r == [jobs[j] EXCEPT !.target = IF jobs[j].status = "started" /\ @ \in {NoSha, t} THEN t ELSE @]
  <2>1. r \in JobShape /\ r.status = jobs[j].status /\ r.target \in {t, jobs[j].target}
    BY <1>0 DEF JobShape
  <2>2. jobs' = [jobs EXCEPT ![j] = r] /\ UNCHANGED rows
    BY <1>3 DEF BindSnapshot
  <2> HIDE DEF r
  <2> QED
    BY <2>1, <2>2, JobsWrite
<1>4. ASSUME NEW s \in {"failed", "succeeded"}, NEW e \in Error, NEW t \in Named(j), FinishJob(j, s, e, t),
             s = "failed" => pc[j] \in Failing, s = "succeeded" => pc[j] \in Succeeding
      PROVE  StoreStep(j)
  <2> DEFINE r == [status |-> s, error |-> e, target |-> IF t = NoSha THEN jobs[j].target ELSE t]
  <2>1. r \in JobShape /\ r.status = s /\ r.target \in {t, jobs[j].target}
    BY <1>0 DEF JobShape, JobStatus
  <2>2. jobs' = [jobs EXCEPT ![j] = r] /\ UNCHANGED rows
    BY <1>4 DEF FinishJob
  <2> HIDE DEF r
  <2> QED
    BY <1>4, <2>1, <2>2, JobsWrite
<1>5. ASSUME NEW s \in Stage, NEW t \in Named(j), SaveCheckpoint(j, s, t, RootOf(j)), pc[j] = "save"
      PROVE  StoreStep(j)
  <2> DEFINE r == [status |-> "pending", stage |-> s, target |-> t, consumer |-> NoJob, root |-> RootOf(j)]
  <2>1. r \in RowShape /\ r.status = "pending" /\ r.consumer = NoJob /\ r.root = RootOf(j) /\ r.target = t
    BY <1>0, <1>5, RootTypes DEF RowShape, RowStatus
  <2>2. rows' = [rows EXCEPT ![j] = r] /\ UNCHANGED jobs
    BY <1>5 DEF SaveCheckpoint
  <2> HIDE DEF r
  <2> QED
    BY <1>5, <2>1, <2>2, RowsWrite
<1>6. ASSUME pc[j] = "take", Consume(held[j], seen[j], j) PROVE StoreStep(j)
  <2> DEFINE r == [rows[held[j]] EXCEPT !.consumer = IF Consumable(held[j], seen[j]) THEN j ELSE @]
  <2>1. r \in RowShape /\ r.status = rows[held[j]].status /\ r.root = rows[held[j]].root /\ r.target = rows[held[j]].target
    BY <1>0, <1>6 DEF RowShape
  <2>2. rows' = [rows EXCEPT ![held[j]] = r] /\ UNCHANGED jobs
    BY <1>6 DEF Consume
  <2>3. Consumable(held[j], seen[j]) =>
          rows[held[j]].status = "open" /\ rows[held[j]].consumer = seen[j] /\ r.consumer = j
    BY <1>0, <1>6 DEF Consumable, RowShape
  <2>4. ~Consumable(held[j], seen[j]) => r.consumer = rows[held[j]].consumer
    BY <1>0, <1>6 DEF RowShape
  <2> HIDE DEF r
  <2> QED
    BY <1>6, <2>1, <2>2, <2>3, <2>4, RowsWrite
<1>7. ASSUME NEW c \in Job, Activate(c) \/ Close(c) PROVE StoreStep(j)
  <2> DEFINE a == [rows[c] EXCEPT !.status = IF Activatable(c) THEN "open" ELSE @]
             b == [rows[c] EXCEPT !.status = IF @ = "absent" THEN @ ELSE "closed"]
  <2>1. /\ a \in RowShape /\ b \in RowShape
        /\ a.consumer = rows[c].consumer /\ b.consumer = rows[c].consumer
        /\ a.root = rows[c].root /\ b.root = rows[c].root
        /\ a.target = rows[c].target /\ b.target = rows[c].target
    BY <1>0 DEF RowShape, RowStatus
  <2>2. /\ a.status = IF rows[c].status = "pending" THEN "open" ELSE rows[c].status
        /\ b.status = IF rows[c].status = "absent" THEN rows[c].status ELSE "closed"
    BY <1>0 DEF RowShape, Activatable
  <2>3. UNCHANGED jobs /\ (rows' = [rows EXCEPT ![c] = a] \/ rows' = [rows EXCEPT ![c] = b])
    BY <1>7 DEF Activate, Close
  <2> HIDE DEF a, b
  <2>4. CASE rows' = [rows EXCEPT ![c] = a]
    BY <2>1, <2>2, <2>3, <2>4, RowsWrite
  <2>5. CASE rows' = [rows EXCEPT ![c] = b]
    BY <2>1, <2>2, <2>3, <2>5, RowsWrite
  <2> QED
    BY <2>3, <2>4, <2>5
<1> QED
  BY <1>1, <1>2, <1>3, <1>4, <1>5, <1>6, <1>7 DEF Effect, Error

-----------------------------------------------------------------------------
(* Steps that move nothing of a job but its pc.                            *)
Moving(j) ==
  \/ Swept(j) \/ ReviveCheck(j) \/ Revive(j) \/ ReviveConfirm(j) \/ Admit(j) \/ Bind(j)
  \/ Prepare(j) \/ WantPush(j) \/ HandingOver(j) \/ Ending(j)
  \/ ReadFails(j) \/ Refused(j) \/ RunnerLost(j) \/ Expire(j)

LEMMA MovingKeeps == ASSUME NEW j \in Job, Moving(j) PROVE UNCHANGED rest
<1>1. CASE \/ Swept(j) \/ ReviveCheck(j) \/ Revive(j) \/ ReviveConfirm(j) \/ Admit(j) \/ Bind(j)
           \/ Prepare(j) \/ WantPush(j) \/ ReadFails(j) \/ Refused(j) \/ RunnerLost(j) \/ Expire(j)
  BY <1>1 DEF Swept, ReviveCheck, Revive, ReviveConfirm, Admit, Bind, Prepare, WantPush, ReadFails, Refused,
              RunnerLost, Expire
<1>2. CASE HandingOver(j)
  BY <1>2 DEF HandingOver, Save, RecordStop, StopCheck, StopFail, SaveFail, ConsumeCheck, Take, Confirm, Match,
              ActivateOwn, OwnOpened, Tidy, Abandon, AbandonFail, Record, CloseQuietly
<1>3. CASE Ending(j)
  BY <1>3 DEF Ending, Finish, FinishCheck, FinishFail, Succeed, Unsucceed, Settle, Unsettle, FailJob, Record
<1> QED
  BY <1>1, <1>2, <1>3 DEF Moving

(* A pc moves within Stop, and no step moves the pc of another job.        *)
PcMoves(j) == \E p \in Stop : pc' = [pc EXCEPT ![j] = p]

LEMMA ErrorStops == ASSUME NEW j \in Job PROVE OnError(j) \in Stop
BY DEF OnError, Stop, AtWork, Begun, Handing, Closing

LEMMA PcStep == ASSUME Shape, NEW j \in Job, Step(j) PROVE PcMoves(j)
<1> USE DEF PcMoves, Goto
<1>0. Stop = {"idle", "handed", "ended", "lost"} \cup Begun \cup Handing \cup Closing
  BY DEF Stop, AtWork
<1>1. CASE Translating(j) \/ Resuming(j)
  <2>1. verdict[j] \in {"none", "red", "good"}
    BY DEF Shape, Verdict
  <2>2. CASE Swept(j)
    BY <1>0, <2>1, <2>2 DEF Swept, Begun, Closing
  <2>3. CASE List(j) \/ Sweep(j) \/ DeleteBranch(j) \/ PinHead(j)
    BY <1>0, <2>3 DEF List, Sweep, DeleteBranch, PinHead, Begun, Closing
  <2>4. CASE Resuming(j)
    BY <1>0, <2>4 DEF Resuming, Load, ReviveCheck, Revive, ReviveConfirm, Admit, Replay, Bind, Begun, Closing
  <2> QED
    BY <1>1, <2>2, <2>3, <2>4 DEF Translating
<1>2. CASE Publishing(j)
  BY <1>0, <1>2 DEF Publishing, StopEarly, Prepare, WantPush, Reviewed, Push, EnsurePr, Report, Capture,
                Begun, Handing, Closing
<1>3. CASE \/ Save(j) \/ RecordStop(j) \/ StopCheck(j) \/ StopFail(j) \/ SaveFail(j)
           \/ ConsumeCheck(j) \/ Take(j) \/ Confirm(j)
  BY <1>0, <1>3, ErrorStops DEF Save, RecordStop, StopCheck, StopFail, SaveFail, ConsumeCheck, Take, Confirm,
                Record, Raise, Handing, Closing
<1>4. CASE \/ Match(j) \/ ActivateOwn(j) \/ OwnOpened(j) \/ Tidy(j) \/ Abandon(j) \/ AbandonFail(j)
  BY <1>0, <1>4, ErrorStops DEF Match, ActivateOwn, OwnOpened, Tidy, Abandon, AbandonFail,
                Record, CloseQuietly, Raise, Handing, Closing
<1>5. CASE Ending(j)
  BY <1>0, <1>5 DEF Ending, Finish, FinishCheck, FinishFail, Succeed, Unsucceed, Settle, Unsettle, FailJob,
                Record, Handing, Closing
<1>6. CASE ReadFails(j) \/ Refused(j) \/ RunnerLost(j)
  BY <1>0, <1>6, ErrorStops DEF ReadFails, Refused, RunnerLost, Raise
<1>7. CASE Expire(j)
  <2>1. pc' = [pc EXCEPT ![j] = pc[j]] /\ pc[j] \in Stop
    BY <1>7 DEF Expire, Shape
  <2> QED
    BY <2>1
<1>8. ASSUME NEW m \in Modes, Start(j, m) PROVE PcMoves(j)
  BY <1>0, <1>8 DEF Start, First, Begun
<1> QED
  BY <1>1, <1>2, <1>3, <1>4, <1>5, <1>6, <1>7, <1>8 DEF Step, JobStep, HandingOver

-----------------------------------------------------------------------------
(* What a step leaves of every other job, and the shape it leaves behind.  *)
Frame(j) ==
  /\ \A i \in Job : i # j =>
       /\ pc'[i] = pc[i] /\ mode'[i] = mode[i] /\ verdict'[i] = verdict[i]
       /\ expected'[i] = expected[i] /\ current'[i] = current[i]
       /\ held'[i] = held[i] /\ seen'[i] = seen[i]
  /\ pc[j] # "idle" => mode'[j] = mode[j]

LEMMA FoundStored ==
  ASSUME NEW j \in Job, NEW c \in Found(j)
  PROVE  /\ c \in Job /\ rows[c].status # "absent"
         /\ rows[c].status = "pending" \/ ConsumerStatus(c) = "failed"
<1>1. \A S \in SUBSET Stored : \A d \in Lookup(S) : d \in S /\ ConsumerStatus(d) = "failed"
  BY DEF Lookup
<1>2. Stored \in SUBSET Stored /\ AtHead(head) \in SUBSET Stored
  BY DEF AtHead
<1>3. c \in FoundBySource \/ c \in Lookup(AtHead(head)) \/ c \in Unactivated(head)
  BY DEF Found, FoundByHead
<1>4. c \in Stored /\ (rows[c].status = "pending" \/ ConsumerStatus(c) = "failed")
  BY <1>1, <1>2, <1>3 DEF FoundBySource, Unactivated, AtHead
<1> QED
  BY <1>4 DEF Stored

LEMMA ShapeKept ==
  ASSUME Shape, NEW j \in Job, StoreStep(j), PcMoves(j), UNCHANGED rest
  PROVE  Shape' /\ Frame(j)
<1>1. jobs' \in [Job -> JobShape] /\ rows' \in [Job -> RowShape]
  BY DEF StoreStep
<1>2. pc' \in [Job -> Stop] /\ \A i \in Job : i # j => pc'[i] = pc[i]
  BY DEF PcMoves, Shape
<1> QED
  BY <1>1, <1>2 DEF Shape, Frame

LEMMA ShapeStep ==
  ASSUME Shape, NEW j \in Job, Step(j), StoreStep(j), PcMoves(j)
  PROVE  Shape' /\ Frame(j)
<1>1. jobs' \in [Job -> JobShape] /\ rows' \in [Job -> RowShape]
  BY DEF StoreStep
<1>2. pc' \in [Job -> Stop] /\ \A i \in Job : i # j => pc'[i] = pc[i]
  BY DEF PcMoves, Shape
<1>3. Base \in Nat /\ NoSha \in Nat
  BY BoundAssumption DEF Base, NoSha
<1>4. CASE Moving(j)
  BY <1>4, MovingKeeps, ShapeKept
<1>5. CASE List(j) \/ Sweep(j)
  <2>1. \E S \in SUBSET Job : todo' = [todo EXCEPT ![j] = S]
    <3>1. CASE List(j)
      BY <3>1 DEF List, Recoverable
    <3>2. CASE Sweep(j)
      <4>1. PICK c \in todo[j] : todo' = [todo EXCEPT ![j] = @ \ {c}]
        BY <3>2 DEF Sweep
      <4>2. todo[j] \ {c} \in SUBSET Job /\ todo' = [todo EXCEPT ![j] = todo[j] \ {c}]
        BY <4>1 DEF Shape
      <4> QED
        BY <4>2
    <3> QED
      BY <1>5, <3>1, <3>2
  <2>2. UNCHANGED <<branchVars, mode, pinned, contextVars, resumeVars, verdict, capture>>
    BY <1>5 DEF List, Sweep
  <2> QED
    BY <1>1, <1>2, <2>1, <2>2 DEF Shape, Frame
<1>6. CASE DeleteBranch(j) \/ EnsurePr(j) \/ Report(j)
  <2>1. head' \in Nat /\ UNCHANGED <<commits, mode, pinned, contextVars, resumeVars, endVars>>
    BY <1>3, <1>6 DEF DeleteBranch, EnsurePr, Report, Shape
  <2> QED
    BY <1>1, <1>2, <2>1 DEF Shape, Frame
<1>7. CASE PinHead(j)
  <2>1. UNCHANGED contextVars \/ (\E n \in Nat : Context(j, n))
    BY <1>3, <1>7 DEF PinHead, Shape
  <2>2. UNCHANGED <<branchVars, mode, pinned, resumeVars, endVars>>
    BY <1>7 DEF PinHead
  <2> QED
    BY <1>1, <1>2, <2>1, <2>2 DEF Shape, Frame, Context
<1>8. CASE Load(j)
  <2>1. \/ UNCHANGED resumeVars
        \/ \E c \in Found(j) : held' = [held EXCEPT ![j] = c] /\ seen' = [seen EXCEPT ![j] = rows[c].consumer]
    BY <1>8 DEF Load
  <2>2. \A c \in Found(j) : c \in Job /\ rows[c].consumer \in Job \cup {NoJob}
    BY FoundStored DEF Shape, RowShape
  <2>3. UNCHANGED <<branchVars, mode, pinned, contextVars, endVars>>
    BY <1>8 DEF Load
  <2> QED
    BY <1>1, <1>2, <2>1, <2>2, <2>3 DEF Shape, Frame
<1>9. CASE Replay(j)
  <2>1. \/ UNCHANGED <<pinned, contextVars>>
        \/ pinned' = [pinned EXCEPT ![j] = head] /\ \E n \in Nat : Context(j, n)
    BY <1>3, <1>9 DEF Replay, Shape
  <2>2. UNCHANGED <<branchVars, mode, resumeVars, endVars>>
    BY <1>9 DEF Replay
  <2>3. /\ pinned' \in [Job -> Nat] /\ expected' \in [Job -> Nat] /\ current' \in [Job -> Nat]
        /\ \A i \in Job : i # j => expected'[i] = expected[i] /\ current'[i] = current[i]
    BY <2>1 DEF Shape, Context
  <2> QED
    BY <1>1, <1>2, <2>2, <2>3 DEF Shape, Frame
<1>10. CASE StopEarly(j) \/ Capture(j)
  <2>1. FinalSha(j) \in Nat
    BY ShaTypes
  <2>2. \E s \in Stage, t \in Nat : capture' = [capture EXCEPT ![j] = [stage |-> s, target |-> t]]
    BY <1>10, <2>1 DEF StopEarly, Capture, Shape, Stage
  <2>3. UNCHANGED <<branchVars, mode, pinned, contextVars, resumeVars, todo, verdict>>
    BY <1>10 DEF StopEarly, Capture
  <2> QED
    BY <1>1, <1>2, <2>2, <2>3 DEF Shape, Frame
<1>11. CASE Reviewed(j)
  <2>1. \E v \in Verdict : verdict' = [verdict EXCEPT ![j] = v]
    BY <1>11 DEF Reviewed, Verdict
  <2>2. UNCHANGED <<branchVars, mode, pinned, contextVars, resumeVars, todo, capture>>
    BY <1>11 DEF Reviewed
  <2> QED
    BY <1>1, <1>2, <2>1, <2>2 DEF Shape, Frame
<1>12. CASE Push(j)
  <2>1. head' \in Nat /\ commits' \in Nat
    <3>1. \/ UNCHANGED <<head, commits>>
          \/ commits' = commits + 1 /\ head' = commits + 1
      BY <1>12 DEF Push
    <3> QED
      BY <3>1 DEF Shape
  <2>2. \/ UNCHANGED contextVars
        \/ expected' = [expected EXCEPT ![j] = head'] /\ current' = [current EXCEPT ![j] = head']
    BY <1>12 DEF Push
  <2>3. UNCHANGED <<mode, pinned, resumeVars, endVars>>
    BY <1>12 DEF Push
  <2> QED
    BY <1>1, <1>2, <2>1, <2>2, <2>3 DEF Shape, Frame
<1>13. ASSUME NEW m \in Modes, Start(j, m) PROVE Shape' /\ Frame(j)
  <2>1. m \in Mode
    BY WorkflowAssumption
  <2>2. \E n \in Nat : pinned' = [pinned EXCEPT ![j] = n]
    BY <1>3, <1>13 DEF Start, Shape
  <2>3. mode' = [mode EXCEPT ![j] = m] /\ UNCHANGED <<branchVars, contextVars, resumeVars, endVars>>
    BY <1>13 DEF Start
  <2>4. pc[j] = "idle"
    BY <1>13 DEF Start
  <2> QED
    BY <1>1, <1>2, <2>1, <2>2, <2>3, <2>4 DEF Shape, Frame
<1> QED
  BY <1>4, <1>5, <1>6, <1>7, <1>8, <1>9, <1>10, <1>11, <1>12, <1>13
     DEF Step, JobStep, Moving, Translating, Resuming, Publishing

-----------------------------------------------------------------------------
(* What a step leaves of the rows and of the jobs that took them.          *)
RowsMove(j) ==
  /\ \A k \in Job : Continues(k) => Continues(k)'
  /\ \A k \in Job : Continues(k) /\ jobs[k].status = "failed" => jobs'[k].status = "failed"
  /\ \A c \in Job : /\ rows[c].status # "absent" => rows'[c].status # "absent"
                    /\ rows'[c].status = "pending" => rows'[c].consumer = NoJob
                    /\ (rows[c].consumer # NoJob => Continues(rows[c].consumer))'
                    /\ (c # j \/ pc[j] # "save") /\ rows[c].status = "absent" => rows'[c].status = "absent"
  /\ \A i \in Job : Succeeded(i) \/ pc[i] \in Finishing => rows'[held[i]].consumer = i

LEMMA RowsStep ==
  ASSUME WorkInv, NEW j \in Job, StoreStep(j), Frame(j)
  PROVE  RowsMove(j)
<1>0. \A k \in Job : Way(k) /\ Settled(k) /\ Written(k)
  BY DEF WorkInv
<1>1. \A k \in Job : Continues(k) => Continues(k)'
  BY <1>0 DEF Way, Continues, Frame
<1>2. \A k \in Job : Continues(k) /\ jobs[k].status = "failed" => jobs'[k].status = "failed"
  <2>1. ASSUME Continues(j), jobs[j].status = "failed" PROVE jobs'[j].status = "failed"
    <3>1. pc[j] # "idle"
      BY <1>0, <2>1 DEF Way, Continues
    <3>2. pc[j] \notin Succeeding
      BY <1>0, <2>1 DEF Way, Settled, Succeeding, Unknown, Finishing
    <3> QED
      BY <2>1, <3>1, <3>2 DEF StoreStep, StatusMoves
  <2> QED
    BY <2>1 DEF StoreStep
<1>3. ASSUME NEW c \in Job
      PROVE  /\ rows[c].status # "absent" => rows'[c].status # "absent"
             /\ rows'[c].status = "pending" => rows'[c].consumer = NoJob
             /\ (rows[c].consumer # NoJob => Continues(rows[c].consumer))'
             /\ (c # j \/ pc[j] # "save") /\ rows[c].status = "absent" => rows'[c].status = "absent"
  <2>1. CASE RowKept(c)
    <3>1. rows[c].consumer \in Job \cup {NoJob} /\ Written(c)
      BY <1>0 DEF WorkInv, Shape, RowShape
    <3> QED
      BY <1>1, <2>1, <3>1 DEF RowKept, Written
  <2>2. CASE RowSaved(j, c)
    BY <2>2 DEF RowSaved
  <2>3. CASE RowTaken(j, c)
    <3>1. Continues(j)
      BY <1>0, <2>3 DEF RowTaken, Way, Resumed
    <3> QED
      BY <1>1, <2>3, <3>1 DEF RowTaken
  <2> QED
    BY <2>1, <2>2, <2>3 DEF StoreStep
<1>4. ASSUME NEW i \in Job, Succeeded(i) \/ pc[i] \in Finishing PROVE rows'[held[i]].consumer = i
  <2>1. held[i] \in Job /\ rows[held[i]].consumer = i
    BY <1>0, <1>4 DEF Settled
  <2>2. CASE RowKept(held[i])
    BY <2>1, <2>2 DEF RowKept
  <2>3. ~RowSaved(j, held[i])
    BY <1>0, <2>1, NoJobIsNone DEF RowSaved, Written
  <2>4. ~RowTaken(j, held[i])
    <3> SUFFICES ASSUME RowTaken(j, held[i]) PROVE FALSE
      OBVIOUS
    <3>1. seen[j] = i /\ i # NoJob /\ Written(j)
      BY <1>0, <2>1, NoJobIsNone DEF RowTaken
    <3>2. Continues(i) /\ jobs[i].status = "failed"
      BY <3>1 DEF Written
    <3>3. pc[i] \in Finishing
      BY <1>4, <3>2 DEF Succeeded
    <3> QED
      BY <1>0, <3>2, <3>3 DEF Way, Settled, Finishing
  <2> QED
    BY <2>1, <2>2, <2>3, <2>4 DEF StoreStep
<1> QED
  BY <1>1, <1>2, <1>3, <1>4 DEF RowsMove

LEMMA OthersKept ==
  ASSUME WorkInv, Shape', NEW j \in Job, StoreStep(j), Frame(j), RowsMove(j), NEW i \in Job, i # j
  PROVE  Way(i)' /\ Settled(i)' /\ Written(i)'
<1>0. Way(i) /\ Settled(i) /\ Written(i)
  BY DEF WorkInv
<1>1. jobs'[i] = jobs[i] /\ (Continues(i)' <=> Continues(i)) /\ (Succeeded(i)' <=> Succeeded(i))
  BY DEF StoreStep, Frame, Continues, Succeeded
<1>2. Way(i)'
  BY <1>0, <1>1 DEF Way, Frame
<1>3. Settled(i)'
  <2>1. Succeeded(i)' \/ pc'[i] \in Finishing => held'[i] \in Job /\ rows'[held'[i]].consumer = i
    BY <1>0, <1>1 DEF Settled, Frame, RowsMove
  <2> QED
    BY <1>0, <1>1, <2>1 DEF Settled, Frame
<1>4. Written(i)'
  <2>1. held[i] \in Job \cup {NoJob} /\ seen[i] \in Job \cup {NoJob}
    BY DEF WorkInv, Shape
  <2> QED
    BY <1>0, <2>1 DEF Written, Frame, RowsMove
<1> QED
  BY <1>2, <1>3, <1>4

-----------------------------------------------------------------------------
(* The job that moves: only before a handoff can it be ready to save.      *)
Ready == Begun \cup {"idle"}

LEMMA ErrorLeaves == ASSUME NEW j \in Job PROVE OnError(j) \in {"fail", "save_fail", "abandon", "ended"}
BY DEF OnError

LEMMA Turns ==
  ASSUME Shape, NEW j \in Job, Step(j), pc'[j] \in Ready \cup {"save"}
  PROVE  pc[j] \in Ready
<1> USE DEF Goto, Ready, Begun
<1>0. pc \in [Job -> Stop]
  BY DEF Shape
<1>1. CASE Translating(j) \/ Resuming(j) \/ Refused(j)
  BY <1>1 DEF Translating, Resuming, Refused, List, Sweep, Swept, DeleteBranch, PinHead, Load, ReviveCheck,
              Revive, ReviveConfirm, Admit, Replay, Bind
<1>2. CASE Publishing(j)
  BY <1>2 DEF Publishing, StopEarly, Prepare, WantPush, Reviewed, Push, EnsurePr, Report, Capture
<1>3. CASE \/ Save(j) \/ RecordStop(j) \/ StopCheck(j) \/ StopFail(j) \/ SaveFail(j)
           \/ ConsumeCheck(j) \/ Take(j) \/ Confirm(j)
  BY <1>0, <1>3, ErrorLeaves DEF Save, RecordStop, StopCheck, StopFail, SaveFail, ConsumeCheck, Take, Confirm,
                Record, Raise
<1>4. CASE \/ Match(j) \/ ActivateOwn(j) \/ OwnOpened(j) \/ Tidy(j) \/ Abandon(j) \/ AbandonFail(j)
  BY <1>0, <1>4, ErrorLeaves DEF Match, ActivateOwn, OwnOpened, Tidy, Abandon, AbandonFail,
                Record, CloseQuietly, Raise
<1>5. CASE Ending(j)
  BY <1>0, <1>5 DEF Ending, Finish, FinishCheck, FinishFail, Succeed, Unsucceed, Settle, Unsettle, FailJob,
                Record
<1>6. CASE ReadFails(j) \/ RunnerLost(j)
  BY <1>0, <1>6, ErrorLeaves DEF ReadFails, RunnerLost, Raise
<1>7. CASE Expire(j)
  BY <1>0, <1>7 DEF Expire, Ended
<1>8. ASSUME NEW m \in Modes, Start(j, m) PROVE pc[j] = "idle"
  BY <1>8 DEF Start
<1> QED
  BY <1>1, <1>2, <1>3, <1>4, <1>5, <1>6, <1>7, <1>8 DEF Step, JobStep, HandingOver

LEMMA ResumeStep ==
  ASSUME NEW j \in Job, Step(j)
  PROVE  UNCHANGED resumeVars \/ Load(j)
<1>1. CASE Moving(j)
  BY <1>1, MovingKeeps
<1>2. CASE Translating(j) \/ Resuming(j)
  BY <1>1, <1>2 DEF Translating, Resuming, List, Sweep, DeleteBranch, PinHead, Replay, Moving
<1>3. CASE Publishing(j)
  BY <1>1, <1>3 DEF Publishing, StopEarly, Reviewed, Push, EnsurePr, Report, Capture, Moving
<1>4. ASSUME NEW m \in Modes, Start(j, m) PROVE UNCHANGED resumeVars
  BY <1>4 DEF Start
<1> QED
  BY <1>1, <1>2, <1>3, <1>4 DEF Step, JobStep, Moving

LEMMA MoverWritten ==
  ASSUME WorkInv, NEW j \in Job, Step(j), StoreStep(j), Frame(j), RowsMove(j)
  PROVE  Written(j)'
<1>0. Shape /\ Written(j) /\ held[j] \in Job \cup {NoJob} /\ seen[j] \in Job \cup {NoJob}
  BY DEF WorkInv, Shape
<1>1. pc'[j] \in Begun \cup {"idle", "save"} => rows'[j].status = "absent"
  BY <1>0, Turns DEF Ready, Written, RowsMove, Begun
<1>2. /\ rows'[j].status = "pending" => rows'[j].consumer = NoJob
      /\ (rows[j].consumer # NoJob => Continues(rows[j].consumer))'
  BY DEF RowsMove
<1>3. /\ held'[j] # NoJob => rows'[held'[j]].status # "absent"
      /\ (seen[j] # NoJob => Continues(seen[j]) /\ jobs[seen[j]].status = "failed")'
  <2>1. CASE UNCHANGED resumeVars
    BY <1>0, <2>1 DEF Written, RowsMove
  <2>2. ASSUME NEW c \in Found(j), held' = [held EXCEPT ![j] = c], seen' = [seen EXCEPT ![j] = rows[c].consumer]
        PROVE  /\ held'[j] # NoJob => rows'[held'[j]].status # "absent"
               /\ (seen[j] # NoJob => Continues(seen[j]) /\ jobs[seen[j]].status = "failed")'
    <3>1. held'[j] = c /\ seen'[j] = rows[c].consumer /\ c \in Job /\ rows[c].status # "absent"
      BY <1>0, <2>2, FoundStored DEF Shape
    <3>2. rows[c].consumer \in Job \cup {NoJob} /\ Written(c)
      BY <3>1 DEF WorkInv, Shape, RowShape
    <3>3. rows[c].consumer # NoJob => Continues(rows[c].consumer) /\ jobs[rows[c].consumer].status = "failed"
      BY <3>2, FoundStored DEF Written, ConsumerStatus
    <3> QED
      BY <3>1, <3>2, <3>3 DEF RowsMove
  <2> QED
    BY <2>1, <2>2, ResumeStep DEF Load
<1> QED
  BY <1>1, <1>2, <1>3 DEF Written

-----------------------------------------------------------------------------
(* Where a step that moves only the pc may lead.                           *)
Edge(j) ==
  /\ pc'[j] # "idle"
  /\ Continues(j) => pc'[j] \notin Unknown
  /\ pc'[j] \in Resumed \cup Finishing => Continues(j)
  /\ Continues(j) /\ pc'[j] \in Early => pc[j] \in Early
  /\ Continues(j) /\ pc'[j] \notin {"load", "fail", "ended", "lost"} => held[j] \in Job
  /\ Continues(j) /\ pc'[j] \in Stopping => verdict[j] # "good"
  /\ pc'[j] \in Finishing => verdict[j] = "good"

LEMMA Edges == ASSUME Shape, NEW j \in Job, Way(j), Moving(j) PROVE Edge(j)
<1> USE DEF Edge, Way, Goto, Early, Unknown, Resumed, Stopping, Finishing
<1>0. /\ pc \in [Job -> Stop] /\ mode[j] \in Mode /\ verdict[j] \in {"none", "red", "good"}
      /\ Continues(j) <=> mode[j] \notin {"translate", "verify"}
  BY DEF Shape, Verdict, Continues, Mode
<1>1. CASE Swept(j) \/ Prepare(j) \/ WantPush(j)
  BY <1>0, <1>1 DEF Swept, Prepare, WantPush
<1>2. CASE ReviveCheck(j) \/ Revive(j) \/ ReviveConfirm(j) \/ Admit(j) \/ Bind(j)
  BY <1>0, <1>2 DEF ReviveCheck, Revive, ReviveConfirm, Admit, Bind
<1>3. CASE Save(j) \/ RecordStop(j) \/ StopCheck(j) \/ StopFail(j) \/ SaveFail(j)
  <2>1. CASE Save(j)
    BY <1>0, <2>1 DEF Save, Raise, OnError, Begun
  <2>2. CASE RecordStop(j)
    BY <1>0, <2>2 DEF RecordStop, Record
  <2>3. CASE StopCheck(j) \/ StopFail(j) \/ SaveFail(j)
    BY <1>0, <2>3 DEF StopCheck, StopFail, SaveFail, Record
  <2> QED
    BY <1>3, <2>1, <2>2, <2>3
<1>4. CASE ConsumeCheck(j) \/ Take(j) \/ Confirm(j)
  BY <1>0, <1>4 DEF ConsumeCheck, Take, Confirm, Raise, OnError, Begun
<1>5. CASE Match(j) \/ ActivateOwn(j) \/ OwnOpened(j)
  BY <1>0, <1>5 DEF Match, ActivateOwn, OwnOpened, Raise, OnError, Begun
<1>6. CASE Tidy(j) \/ Abandon(j) \/ AbandonFail(j)
  BY <1>0, <1>6 DEF Tidy, Abandon, AbandonFail, Record, CloseQuietly
<1>7. CASE Ending(j)
  BY <1>0, <1>7 DEF Ending, Finish, FinishCheck, FinishFail, Succeed, Unsucceed, Settle, Unsettle, FailJob,
                Record
<1>8. CASE ReadFails(j) \/ Refused(j)
  BY <1>0, <1>8 DEF ReadFails, Refused, Raise, OnError, Reads, Begun
<1>9. CASE RunnerLost(j) \/ Expire(j)
  BY <1>0, <1>9 DEF RunnerLost, Expire, Ended
<1> QED
  BY <1>1, <1>2, <1>3, <1>4, <1>5, <1>6, <1>7, <1>8, <1>9 DEF Moving, HandingOver

(* A job that has not handed over keeps the status it has.                 *)
LEMMA BegunStays ==
  ASSUME NEW j \in Job, pc[j] \in Begun \cup {"save"}, StoreStep(j)
  PROVE  jobs'[j].status = jobs[j].status
BY DEF StoreStep, StatusMoves, Begun, Failing, Succeeding

LEMMA MovingWay ==
  ASSUME Shape, NEW j \in Job, Way(j), Step(j), Moving(j), StoreStep(j)
  PROVE  Way(j)'
<1>1. /\ mode'[j] = mode[j] /\ verdict'[j] = verdict[j] /\ held'[j] = held[j]
      /\ expected'[j] = expected[j] /\ current'[j] = current[j]
  BY MovingKeeps
<1>2. Continues(j)' <=> Continues(j)
  BY <1>1 DEF Continues
<1>3. Edge(j)
  BY Edges
<1>4. Continues(j) /\ pc'[j] \in Begun \cup {"save"} => jobs'[j].status = "started"
  <2> SUFFICES ASSUME Continues(j), pc'[j] \in Begun \cup {"save"} PROVE jobs'[j].status = "started"
    OBVIOUS
  <2>1. pc[j] \in Begun
    BY Turns DEF Ready, Way, Continues
  <2> QED
    BY <2>1, BegunStays DEF Way
<1> QED
  BY <1>1, <1>2, <1>3, <1>4 DEF Edge, Way

(* The steps that say more of a job than where it is.                      *)
Working(j) ==
  \/ List(j) \/ Sweep(j) \/ DeleteBranch(j) \/ PinHead(j) \/ Load(j) \/ Replay(j)
  \/ StopEarly(j) \/ Reviewed(j) \/ Push(j) \/ EnsurePr(j) \/ Report(j) \/ Capture(j)

LEMMA WorkingFrom ==
  ASSUME NEW j \in Job, Working(j)
  PROVE  pc[j] \in Begun /\ UNCHANGED mode
BY DEF Working, List, Sweep, DeleteBranch, PinHead, Load, Replay, StopEarly, Reviewed, Push, EnsurePr, Report,
       Capture, Goto, Begun

LEMMA WorkingWay ==
  ASSUME Shape, NEW j \in Job, Way(j), Working(j), StoreStep(j)
  PROVE  Way(j)'
<1> USE DEF Goto, Way, Early, Unknown, Resumed, Stopping, Finishing, Begun
<1>1. /\ pc \in [Job -> Stop] /\ mode[j] \in Mode /\ verdict \in [Job -> Verdict]
      /\ held \in [Job -> Job \cup {NoJob}] /\ expected \in [Job -> Nat] /\ current \in [Job -> Nat]
  BY DEF Shape
<1>2. /\ Continues(j) <=> mode[j] \notin {"translate", "verify"}
      /\ Continues(j)' <=> Continues(j)
      /\ mode' = mode /\ jobs'[j].status = jobs[j].status
  BY <1>1, WorkingFrom, BegunStays DEF Continues, Mode
<1>3. CASE List(j) \/ Sweep(j) \/ DeleteBranch(j)
  <2>1. UNCHANGED <<mode, contextVars, resumeVars, verdict>>
    BY <1>3 DEF List, Sweep, DeleteBranch
  <2>2. pc[j] \in Unknown /\ pc'[j] \in {"sweep", "fail", "pin"}
    BY <1>1, <1>3 DEF List, Sweep, DeleteBranch
  <2> QED
    BY <1>2, <2>1, <2>2
<1>4. CASE PinHead(j)
  <2>1. pc[j] \in Unknown /\ pc'[j] \in {"prepare", "fail"} /\ UNCHANGED <<mode, resumeVars, verdict>>
    BY <1>1, <1>4 DEF PinHead
  <2>2. mode[j] # "translate" /\ expected'[j] # NoSha => current'[j] = expected'[j]
    BY <1>1, <1>4 DEF PinHead, Context
  <2> QED
    BY <1>2, <2>1, <2>2
<1>5. CASE Load(j)
  <2>1. pc[j] = "load" /\ UNCHANGED <<mode, contextVars, verdict>>
    BY <1>5 DEF Load
  <2>2. pc'[j] = "fail" \/ (pc'[j] \in {"check", "admit"} /\ held'[j] \in Job)
    BY <1>1, <1>5, FoundStored DEF Load
  <2> QED
    BY <1>2, <2>1, <2>2
<1>6. CASE Replay(j)
  <2>1. pc[j] = "replay" /\ pc'[j] \in {"bind", "fail"} /\ UNCHANGED <<mode, resumeVars, verdict>>
    BY <1>1, <1>6 DEF Replay
  <2>2. mode[j] # "translate" /\ expected'[j] # NoSha => current'[j] = expected'[j]
    BY <1>1, <1>6 DEF Replay, Context
  <2> QED
    BY <1>2, <2>1, <2>2
<1>7. CASE StopEarly(j)
  BY <1>1, <1>2, <1>7 DEF StopEarly
<1>8. CASE Reviewed(j)
  BY <1>1, <1>2, <1>8 DEF Reviewed
<1>9. CASE Push(j)
  <2>1. pc[j] = "push" /\ pc'[j] \in {"fail", "work", "ensure"} /\ UNCHANGED <<mode, resumeVars, verdict>>
    BY <1>1, <1>9 DEF Push
  <2>2. \/ UNCHANGED contextVars
        \/ expected' = [expected EXCEPT ![j] = head'] /\ current' = [current EXCEPT ![j] = head']
    BY <1>9 DEF Push
  <2>3. mode[j] # "translate" /\ expected'[j] # NoSha => current'[j] = expected'[j]
    BY <1>1, <2>2
  <2> QED
    BY <1>2, <2>1, <2>3
<1>10. CASE EnsurePr(j)
  BY <1>1, <1>2, <1>10 DEF EnsurePr
<1>11. CASE Report(j)
  BY <1>1, <1>2, <1>11 DEF Report
<1>12. CASE Capture(j)
  BY <1>1, <1>2, <1>12 DEF Capture
<1> QED
  BY <1>3, <1>4, <1>5, <1>6, <1>7, <1>8, <1>9, <1>10, <1>11, <1>12 DEF Working

LEMMA StartWay ==
  ASSUME Shape, NEW j \in Job, Way(j), NEW m \in Modes, Start(j, m)
  PROVE  Way(j)'
<1>1. m \in Mode /\ verdict[j] = "none" /\ expected[j] = NoSha
  BY WorkflowAssumption DEF Start, Way
<1>2. /\ mode'[j] = m /\ UNCHANGED <<contextVars, verdict>>
      /\ pc'[j] = First(m) \/ pc'[j] = "ended"
  BY DEF Start, Goto, Shape
<1>3. pc'[j] = First(m) => jobs'[j].status = "started"
  <2>1. UNCHANGED storeVars => pc'[j] = "ended"
    <3> SUFFICES ASSUME UNCHANGED storeVars PROVE pc'[j] = "ended"
      OBVIOUS
    <3> QED
      BY DEF Start, Goto, Shape, Counted, InsertJob, Way
  <2> QED
    BY <1>1, <2>1 DEF Start, InsertJob, Shape, First
<1> QED
  BY <1>1, <1>2, <1>3 DEF Way, First, Mode, Continues, Early, Unknown, Resumed, Stopping, Finishing, Begun

-----------------------------------------------------------------------------
(* How a continuation ends.                                                *)
Settles(j) ==
  /\ pc[j] \in Succeeding => pc'[j] \in {"tidy", "finish_check", "ended", "lost", "unsucceed", "unsettle"}
  /\ pc[j] \in {"finish_fail", "fail", "ended"} => pc'[j] \in {"ended", "lost"}
  /\ pc[j] = "lost" => pc'[j] = "lost"
  /\ pc[j] = "tidy" /\ verdict[j] = "good" => pc'[j] \in {"ended", "lost"}
  /\ pc[j] = "finish_check" /\ jobs[j].status = "succeeded" => pc'[j] \in {"tidy", "ended", "lost"}
  /\ pc'[j] \in Finishing /\ pc[j] \notin Finishing =>
        held[j] \in Job /\ rows[held[j]].consumer = j /\ UNCHANGED rows

LEMMA SettleStep == ASSUME Shape, NEW j \in Job, Way(j), Moving(j) PROVE Settles(j)
<1> USE DEF Settles, Goto, Succeeding, Finishing
<1>0. pc \in [Job -> Stop] /\ verdict[j] \in {"none", "red", "good"}
  BY DEF Shape, Verdict
<1>1. CASE \/ Swept(j) \/ Prepare(j) \/ WantPush(j) \/ ReviveCheck(j) \/ Revive(j)
           \/ ReviveConfirm(j) \/ Admit(j) \/ Bind(j)
  BY <1>0, <1>1 DEF Swept, Prepare, WantPush, ReviveCheck, Revive, ReviveConfirm, Admit, Bind
<1>2. CASE Save(j)
  BY <1>0, <1>2, ErrorLeaves DEF Save, Raise
<1>3. CASE RecordStop(j) \/ StopCheck(j) \/ StopFail(j) \/ SaveFail(j)
  BY <1>0, <1>3 DEF RecordStop, StopCheck, StopFail, SaveFail, Record
<1>4. CASE ConsumeCheck(j) \/ Take(j)
  BY <1>0, <1>4, ErrorLeaves DEF ConsumeCheck, Take, Raise
<1>5. CASE Confirm(j)
  <2>1. pc[j] = "confirm" /\ UNCHANGED rows
    BY <1>5 DEF Confirm
  <2>2. held[j] \in Job
    BY <2>1 DEF Way, Resumed
  <2>3. pc'[j] \in Finishing => rows[held[j]].consumer = j
    BY <1>0, <1>5, ErrorLeaves DEF Confirm, Raise
  <2> QED
    BY <2>1, <2>2, <2>3
<1>6. CASE Match(j) \/ ActivateOwn(j) \/ OwnOpened(j)
  BY <1>0, <1>6, ErrorLeaves DEF Match, ActivateOwn, OwnOpened, Raise
<1>7. CASE Tidy(j) \/ Abandon(j) \/ AbandonFail(j)
  BY <1>0, <1>7 DEF Tidy, Abandon, AbandonFail, Record, CloseQuietly
<1>8. CASE Ending(j)
  BY <1>0, <1>8 DEF Ending, Finish, FinishCheck, FinishFail, Succeed, Unsucceed, Settle, Unsettle, FailJob,
                Record
<1>9. CASE ReadFails(j) \/ Refused(j)
  <2>1. pc'[j] = OnError(j) /\ pc[j] \in Begun \cup {"stop_check", "consume", "confirm", "match", "opened", "finish_check"}
    BY <1>0, <1>9 DEF ReadFails, Refused, Raise, Reads, Begun
  <2>2. pc[j] = "finish_check" => OnError(j) = "ended"
    BY DEF OnError, Begun
  <2> QED
    BY <2>1, <2>2, ErrorLeaves DEF Begun
<1>10. CASE RunnerLost(j) \/ Expire(j)
  BY <1>0, <1>10 DEF RunnerLost, Expire, Ended, AtWork, Begun, Handing, Closing
<1> QED
  BY <1>1, <1>2, <1>3, <1>4, <1>5, <1>6, <1>7, <1>8, <1>9, <1>10 DEF Moving, HandingOver

LEMMA MovingSettled ==
  ASSUME WorkInv, NEW j \in Job, Moving(j), StoreStep(j), RowsMove(j)
  PROVE  Settled(j)'
<1>0. Shape /\ Way(j) /\ Settled(j)
  BY DEF WorkInv
<1>1. mode'[j] = mode[j] /\ verdict'[j] = verdict[j] /\ held'[j] = held[j] /\ (Continues(j)' <=> Continues(j))
  BY MovingKeeps DEF Continues
<1>2. Settles(j)
  BY <1>0, SettleStep
<1>3. Continues(j) /\ jobs'[j].status = "failed" /\ verdict[j] = "good" => pc'[j] \in {"ended", "lost"}
  <2> SUFFICES ASSUME Continues(j), jobs'[j].status = "failed", verdict[j] = "good"
               PROVE  pc'[j] \in {"ended", "lost"}
    OBVIOUS
  <2>1. CASE jobs[j].status = "failed"
    BY <1>0, <1>2, <2>1 DEF Settled, Settles
  <2>2. CASE jobs[j].status # "failed"
    <3>1. pc[j] \in Failing
      BY <2>2 DEF StoreStep, StatusMoves
    <3>2. pc[j] \in {"finish_fail", "fail"}
      BY <1>0, <3>1 DEF Way, Failing, Stopping, Unknown
    <3> QED
      BY <1>2, <3>2 DEF Settles
  <2> QED
    BY <2>1, <2>2
<1>4. ASSUME Continues(j), jobs'[j].status = "succeeded"
      PROVE  /\ verdict[j] = "good" /\ pc'[j] \in {"finish_check", "tidy", "ended", "lost"}
             /\ Succeeded(j) \/ pc[j] \in Finishing
  <2>1. CASE Succeeded(j)
    BY <1>0, <1>2, <2>1 DEF Settled, Settles, Succeeded
  <2>2. CASE ~Succeeded(j)
    <3>1. pc[j] \in Succeeding
      BY <1>4, <2>2 DEF StoreStep, StatusMoves, Succeeded
    <3>2. pc[j] = "finish"
      BY <1>0, <1>4, <3>1 DEF Way, Succeeding, Unknown
    <3>3. pc'[j] \in {"finish_check", "tidy", "ended", "lost"}
      <4>1. Edge(j)
        BY <1>0, Edges
      <4> QED
        BY <1>2, <1>4, <3>2, <4>1 DEF Settles, Succeeding, Edge, Unknown
    <3> QED
      BY <1>0, <3>2, <3>3 DEF Way, Finishing
  <2> QED
    BY <2>1, <2>2
<1>5. Succeeded(j)' \/ pc'[j] \in Finishing => held'[j] \in Job /\ rows'[held'[j]].consumer = j
  <2>1. CASE Succeeded(j) \/ pc[j] \in Finishing
    BY <1>0, <1>1, <2>1 DEF Settled, RowsMove
  <2>2. CASE ~(Succeeded(j) \/ pc[j] \in Finishing)
    <3>1. ~Succeeded(j)'
      BY <1>1, <1>4, <2>2 DEF Succeeded
    <3> QED
      BY <1>1, <1>2, <2>2, <3>1 DEF Settles
  <2> QED
    BY <2>1, <2>2
<1> QED
  BY <1>1, <1>3, <1>4, <1>5 DEF Settled, Succeeded

LEMMA BegunSettled ==
  ASSUME Shape, NEW j \in Job, Way(j), StoreStep(j), RowsMove(j), Working(j)
  PROVE  Settled(j)'
<1>1. pc[j] \in Begun /\ jobs'[j].status = jobs[j].status /\ (Continues(j)' <=> Continues(j))
  BY WorkingFrom, BegunStays DEF Continues
<1>2. pc'[j] \notin Finishing
  BY DEF Shape, Working, List, Sweep, DeleteBranch, PinHead, Load, Replay, StopEarly, Reviewed, Push, EnsurePr,
         Report, Capture, Goto, Finishing
<1> QED
  BY <1>1, <1>2 DEF Way, Settled, Succeeded

LEMMA StartSettled ==
  ASSUME Shape, NEW j \in Job, Way(j), NEW m \in Modes, Start(j, m), StoreStep(j)
  PROVE  Settled(j)'
<1>1. pc[j] = "idle" /\ jobs[j].status = "none"
  BY DEF Start, Way
<1>2. jobs'[j].status \in {"none", "started"}
  BY <1>1 DEF StoreStep, StatusMoves, Failing, Succeeding
<1>3. pc'[j] \notin Finishing
  BY DEF Shape, Start, Goto, First, Finishing
<1> QED
  BY <1>2, <1>3 DEF Settled, Succeeded

-----------------------------------------------------------------------------
(* A step of a job keeps the invariant, and does to the tables no more     *)
(* than StoreStep says.                                                    *)
LEMMA StepEffects ==
  ASSUME WorkInv, NEW j \in Job, Step(j)
  PROVE  StoreStep(j) /\ PcMoves(j) /\ Shape' /\ Frame(j) /\ RowsMove(j)
<1>0. Shape /\ Way(j) /\ held[j] \in Job \cup {NoJob}
  BY DEF WorkInv, Shape
<1>1. StoreStep(j)
  <2>1. pc[j] \in {"take", "revive"} => held[j] \in Job
    BY <1>0 DEF Way, Resumed
  <2> QED
    BY <1>0, <2>1, StepEffect, EffectStore
<1>2. PcMoves(j)
  BY <1>0, PcStep
<1>3. Shape' /\ Frame(j)
  BY <1>0, <1>1, <1>2, ShapeStep
<1> QED
  BY <1>1, <1>2, <1>3, RowsStep

LEMMA WorkStep == ASSUME WorkInv, NEW j \in Job, Step(j) PROVE WorkInv'
<1>0. Shape /\ Way(j)
  BY DEF WorkInv
<1>1. StoreStep(j) /\ Shape' /\ Frame(j) /\ RowsMove(j)
  BY StepEffects
<1>2. Moving(j) \/ Working(j) \/ \E m \in Modes : Start(j, m)
  BY DEF Step, JobStep, Translating, Resuming, Publishing, Moving, Working
<1>3. Way(j)'
  BY <1>0, <1>1, <1>2, MovingWay, WorkingWay, StartWay
<1>4. Settled(j)'
  BY <1>0, <1>1, <1>2, MovingSettled, BegunSettled, StartSettled
<1>5. Written(j)'
  BY <1>1, MoverWritten
<1>6. \A i \in Job : i # j => Way(i)' /\ Settled(i)' /\ Written(i)'
  BY <1>1, OthersKept
<1> QED
  BY <1>1, <1>3, <1>4, <1>5, <1>6 DEF WorkInv

(* A push from outside, and a stutter, touch nothing the invariant is about.*)
LEMMA QuietStep ==
  ASSUME WorkInv, OutsidePush \/ UNCHANGED vars
  PROVE  WorkInv' /\ UNCHANGED <<jobs, rows, pc, mode>>
<1>1. UNCHANGED <<storeVars, mode, pc, pinned, contextVars, resumeVars, endVars>>
  BY DEF OutsidePush, vars
<1>2. Shape'
  <2>1. head' \in Nat /\ commits' \in Nat
    <3>1. (commits' = commits + 1 /\ head' = commits + 1) \/ UNCHANGED <<head, commits>>
      BY DEF OutsidePush, vars
    <3> QED
      BY <3>1 DEF WorkInv, Shape
  <2> QED
    BY <1>1, <2>1 DEF WorkInv, Shape
<1>3. ASSUME NEW j \in Job PROVE Way(j)' /\ Settled(j)' /\ Written(j)'
  BY <1>1 DEF WorkInv, Way, Settled, Written, Continues, Succeeded
<1> QED
  BY <1>1, <1>2, <1>3 DEF WorkInv

LEMMA NextStep == Next => OutsidePush \/ \E j \in Job : Step(j)
BY DEF Next, Step

(* What is known of a continuation at each of its calls, of the row it was *)
(* admitted to, and of the job it saw to have failed before it.            *)
THEOREM WorkInvariant == Spec => []WorkInv
<1>1. WorkInv /\ [Next]_vars => WorkInv'
  BY NextStep, WorkStep, QuietStep
<1> QED
  BY WorkInit, <1>1, PTL DEF Spec

(* Of all the continuations that were admitted to a checkpoint, of any     *)
(* number of jobs, at most one ends in success: the row names its last     *)
(* consumer, a consumer that may still succeed is never replaced, and      *)
(* nobody goes on to success without reading its own name back.            *)
THEOREM OneSuccess == Spec => []OneSuccessPerCheckpoint
<1>1. WorkInv => OneSuccessPerCheckpoint
  BY DEF WorkInv, Settled, OneSuccessPerCheckpoint
<1> QED
  BY <1>1, WorkInvariant, PTL

(* No call of any job, of whatever age, opens a closed row again.          *)
THEOREM ClosedStays == Spec => ClosedStaysClosed
<1> DEFINE Stays == \A c \in Job : rows[c].status = "closed" => rows'[c].status = "closed"
<1>1. ASSUME WorkInv, NEW j \in Job, Step(j) PROVE Stays
  <2>1. StoreStep(j) /\ Written(j)
    BY <1>1, StepEffects DEF WorkInv
  <2> QED
    BY <2>1 DEF StoreStep, Written, RowKept, RowSaved, RowTaken
<1>2. ASSUME WorkInv, OutsidePush \/ UNCHANGED vars PROVE Stays
  BY <1>2, QuietStep
<1>3. WorkInv /\ [Next]_vars => Stays
  BY <1>1, <1>2, NextStep
<1> QED
  BY <1>3, WorkInvariant, PTL DEF Spec, ClosedStaysClosed

(* The head that a verification or continuation replaces is the one it     *)
(* expects: an existing reference is moved without force, so forward from  *)
(* the commit that was made on the head the job has last seen.             *)
THEOREM UpdatesFollow == Spec => UpdatesFollowHead
<1> DEFINE AsExpected == \A j \in Job : Replaces(j) /\ mode[j] # "translate" => head = expected[j]
<1>1. ASSUME WorkInv, NEW j \in Job, Step(j) PROVE AsExpected
  <2>0. Shape /\ Way(j) /\ Frame(j)
    BY <1>1, StepEffects DEF WorkInv
  <2>1. ASSUME NEW i \in Job, Replaces(i), mode[i] # "translate" PROVE head = expected[i]
    <3>1. i = j /\ pc[j] = "push" /\ head' # head
      BY <2>0, <2>1 DEF Frame, Replaces
    <3>2. Push(j) \/ head' = head
      <4>1. CASE Moving(j)
        BY <4>1, MovingKeeps
      <4>2. CASE Working(j)
        BY <3>1, <4>2 DEF Working, List, Sweep, DeleteBranch, PinHead, Load, Replay, StopEarly, Reviewed,
                          EnsurePr, Report, Capture, Goto
      <4>3. ASSUME NEW m \in Modes, Start(j, m) PROVE head' = head
        BY <4>3 DEF Start
      <4> QED
        BY <1>1, <4>1, <4>2, <4>3 DEF Step, JobStep, Translating, Resuming, Publishing, Moving, Working
    <3>3. Accepted(j)
      BY <3>1, <3>2 DEF Push
    <3> QED
      BY <2>0, <2>1, <3>1, <3>3 DEF Accepted, Forced, Way
  <2> QED
    BY <2>1
<1>2. ASSUME WorkInv, OutsidePush \/ UNCHANGED vars PROVE AsExpected
  BY <1>2, QuietStep DEF Replaces
<1>3. WorkInv /\ [Next]_vars => AsExpected
  BY <1>1, <1>2, NextStep
<1> QED
  BY <1>3, WorkInvariant, PTL DEF Spec, UpdatesFollowHead

-----------------------------------------------------------------------------
(***************************************************************************)
(* Lineage.  What each call of a continuation knows of its end, and that a *)
(* row names whoever took it for good, are invariants beside WorkInv; with *)
(* them every effect on the tables is a step of Lineage or none.           *)
(***************************************************************************)

(* A continuation that has taken its checkpoint, or never will.            *)
After == {"confirm", "match", "activate", "opened", "tidy", "finish", "finish_check", "finish_fail",
          "fail", "handed", "ended", "lost"}

(* What each call of a continuation knows of its own end and its own row,  *)
(* and of the job whose row it opens; and that nobody holds two rows.      *)
Passed(j) ==
  /\ Continues(j) /\ pc[j] \notin {"idle", "ended", "lost"} => jobs[j].status # "none"
  /\ Continues(j) /\ verdict[j] = "good" => rows[j].status = "absent"
  /\ Continues(j) /\ pc[j] \in {"stop", "stop_check", "consume", "take"} /\ verdict[j] # "good" =>
        rows[j].status # "absent"
  /\ pc[j] = "report" => verdict[j] # "none"
  /\ Continues(j) /\ pc[j] = "activate" => jobs[j].status = "failed"
  /\ pc[j] = "revive" /\ Continues(held[j]) => jobs[held[j]].status = "failed"
Taken(c) ==
  LET k == rows[c].consumer
  IN  /\ rows[c].status = "absent" => k = NoJob
      /\ k # NoJob => held[k] = c /\ pc[k] \in After

LineageInv == \A j \in Job : Passed(j) /\ Taken(j)

-----------------------------------------------------------------------------
(* Where a step that moves only the pc comes from.                         *)
Leads(j) ==
  /\ pc[j] \in {"ended", "lost"} => pc'[j] \in {"ended", "lost"}
  /\ Continues(j) /\ pc[j] \in After \cup {"take"} => pc'[j] \in After
  /\ Continues(j) /\ pc'[j] \in {"stop", "stop_check", "consume", "take"} =>
        \/ pc[j] \in {"stop", "stop_check", "consume", "take"}
        \/ pc[j] = "save" /\ rows'[j].status # "absent"
  /\ pc'[j] = "report" => pc[j] = "report"
  /\ pc'[j] = "activate" => pc[j] = "activate" \/ jobs[j].status = "failed"
  /\ pc'[j] = "revive" => pc[j] = "revive" \/ jobs[held[j]].status = "failed"

LEMMA LeadsStep == ASSUME Shape, NEW j \in Job, Way(j), Moving(j) PROVE Leads(j)
<1> USE DEF Leads, Goto, After
<1>0. pc \in [Job -> Stop] /\ verdict[j] \in {"none", "red", "good"}
  BY DEF Shape, Verdict
<1>1. CASE Swept(j) \/ Prepare(j) \/ WantPush(j)
  BY <1>0, <1>1 DEF Swept, Prepare, WantPush
<1>2. CASE ReviveCheck(j) \/ Revive(j) \/ ReviveConfirm(j) \/ Admit(j) \/ Bind(j)
  BY <1>0, <1>2 DEF ReviveCheck, Revive, ReviveConfirm, Admit, Bind, Openable, Acknowledged
<1>3. CASE Save(j)
  <2>1. pc[j] = "save" /\ (pc' = [pc EXCEPT ![j] = "stop"] \/ Raise(j))
    BY <1>3 DEF Save
  <2>2. CASE Raise(j)
    BY <1>0, <2>1, <2>2, ErrorLeaves DEF Raise
  <2>3. CASE ~Raise(j)
    <3>1. SaveCheckpoint(j, capture[j].stage, capture[j].target, RootOf(j))
      BY <1>3, <2>3 DEF Save
    <3>2. rows'[j].status = "pending"
      BY <3>1 DEF SaveCheckpoint, Shape
    <3> QED
      BY <1>0, <2>1, <2>3, <3>2
  <2> QED
    BY <2>2, <2>3
<1>4. CASE RecordStop(j) \/ StopCheck(j) \/ StopFail(j) \/ SaveFail(j)
  BY <1>0, <1>4 DEF RecordStop, StopCheck, StopFail, SaveFail, Record
<1>5. CASE ConsumeCheck(j) \/ Take(j) \/ Confirm(j)
  BY <1>0, <1>5, ErrorLeaves DEF ConsumeCheck, Take, Confirm, Raise, OnError, Begun
<1>6. CASE Match(j) \/ ActivateOwn(j) \/ OwnOpened(j)
  BY <1>0, <1>6 DEF Match, ActivateOwn, OwnOpened, Raise, OnError, Begun, Openable, Acknowledged
<1>7. CASE Tidy(j) \/ Abandon(j) \/ AbandonFail(j)
  BY <1>0, <1>7 DEF Tidy, Abandon, AbandonFail, Record, CloseQuietly
<1>8. CASE Ending(j)
  BY <1>0, <1>8 DEF Ending, Finish, FinishCheck, FinishFail, Succeed, Unsucceed, Settle, Unsettle, FailJob,
                Record
<1>9. CASE ReadFails(j) \/ Refused(j)
  BY <1>0, <1>9 DEF ReadFails, Refused, Raise, OnError, Reads, Begun
<1>10. CASE RunnerLost(j) \/ Expire(j)
  BY <1>0, <1>10 DEF RunnerLost, Expire, Ended, AtWork, Begun, Handing, Closing
<1> QED
  BY <1>1, <1>2, <1>3, <1>4, <1>5, <1>6, <1>7, <1>8, <1>9, <1>10 DEF Moving, HandingOver

(* The audit of a job that was inserted is never lost.                     *)
LEMMA NoneStays ==
  ASSUME NEW j \in Job, StoreStep(j), NEW i \in Job, jobs[i].status # "none"
  PROVE  jobs'[i].status # "none"
BY DEF StoreStep, StatusMoves

LEMMA PassedMoving ==
  ASSUME WorkInv, LineageInv, NEW j \in Job, Moving(j), StoreStep(j), Frame(j), RowsMove(j)
  PROVE  Passed(j)'
<1>0. Shape /\ Way(j) /\ Settled(j) /\ Passed(j) /\ held[j] \in Job \cup {NoJob}
  BY DEF WorkInv, LineageInv, Shape
<1>1. mode' = mode /\ verdict' = verdict /\ held' = held /\ \A k \in Job : Continues(k)' <=> Continues(k)
  BY MovingKeeps DEF Continues
<1>2. Leads(j)
  BY <1>0, LeadsStep
<1>3. (Continues(j) /\ pc[j] \notin {"idle", "ended", "lost"} => jobs[j].status # "none")'
  <2>1. pc[j] # "idle"
    BY DEF Moving, Swept, ReviveCheck, Revive, ReviveConfirm, Admit, Bind, Prepare, WantPush, HandingOver, Save,
           RecordStop, StopCheck, StopFail, SaveFail, ConsumeCheck, Take, Confirm, Match, ActivateOwn, OwnOpened,
           Tidy, Abandon, AbandonFail, Record, CloseQuietly, Ending, Finish, FinishCheck, FinishFail, Succeed,
           Unsucceed, Settle, Unsettle, FailJob, ReadFails, Reads, Refused, RunnerLost, AtWork, Expire, Ended,
           Begun, Handing, Closing, Goto
  <2> QED
    BY <1>0, <1>1, <1>2, <2>1, NoneStays DEF Leads, Passed
<1>4. (Continues(j) /\ verdict[j] = "good" => rows[j].status = "absent")'
  BY <1>0, <1>1 DEF Passed, RowsMove, Way, Stopping
<1>5. (Continues(j) /\ pc[j] \in {"stop", "stop_check", "consume", "take"} /\ verdict[j] # "good" =>
          rows[j].status # "absent")'
  BY <1>0, <1>1, <1>2 DEF Leads, Passed, RowsMove
<1>6. (pc[j] = "report" => verdict[j] # "none")'
  BY <1>0, <1>1, <1>2 DEF Leads, Passed
<1>7. (Continues(j) /\ pc[j] = "activate" => jobs[j].status = "failed")'
  BY <1>0, <1>1, <1>2 DEF Leads, Passed, RowsMove
<1>8. (pc[j] = "revive" /\ Continues(held[j]) => jobs[held[j]].status = "failed")'
  <2>1. pc'[j] = "revive" => held[j] \in Job /\ (pc[j] = "revive" \/ jobs[held[j]].status = "failed")
    BY <1>0, <1>2, Edges DEF Leads, Edge, Resumed
  <2> QED
    BY <1>0, <1>1, <2>1 DEF Passed, RowsMove
<1> QED
  BY <1>3, <1>4, <1>5, <1>6, <1>7, <1>8 DEF Passed

LEMMA PassedWorking ==
  ASSUME WorkInv, LineageInv, NEW j \in Job, Working(j), StoreStep(j), RowsMove(j)
  PROVE  Passed(j)'
<1>0. Shape /\ Way(j) /\ Written(j) /\ Passed(j) /\ pc \in [Job -> Stop] /\ verdict \in [Job -> Verdict]
  BY DEF WorkInv, LineageInv, Shape
<1>1. pc[j] \in Begun /\ (Continues(j)' <=> Continues(j)) /\ jobs'[j].status = jobs[j].status
  BY WorkingFrom, BegunStays DEF Continues
<1>2. rows[j].status = "absent" /\ rows'[j].status = "absent"
  BY <1>0, <1>1 DEF Written, RowsMove, Begun
<1>3. jobs'[j].status # "none" \/ ~Continues(j)
  BY <1>0, <1>1 DEF Way
<1>4. pc'[j] \notin {"stop", "stop_check", "take", "activate", "revive"}
  BY <1>0 DEF Working, List, Sweep, DeleteBranch, PinHead, Load, Replay, StopEarly, Reviewed, Push, EnsurePr,
              Report, Capture, Goto
<1>5. pc'[j] = "report" => verdict'[j] # "none"
  BY <1>0 DEF Working, List, Sweep, DeleteBranch, PinHead, Load, Replay, StopEarly, Reviewed, Push, EnsurePr,
              Report, Capture, Goto
<1>6. pc'[j] = "consume" => Report(j)
  BY <1>0 DEF Working, List, Sweep, DeleteBranch, PinHead, Load, Replay, StopEarly, Reviewed, Push, EnsurePr,
              Capture, Goto
<1>7. pc'[j] = "consume" => verdict'[j] = "good"
  BY <1>0, <1>6 DEF Report, Goto, Passed, Verdict
<1> QED
  BY <1>1, <1>2, <1>3, <1>4, <1>5, <1>7 DEF Passed

LEMMA PassedStart ==
  ASSUME Shape, NEW j \in Job, Way(j), NEW m \in Modes, Start(j, m)
  PROVE  Passed(j)'
<1>1. verdict'[j] = "none" /\ (pc'[j] = First(m) \/ pc'[j] = "ended") /\ mode'[j] = m
  BY WorkflowAssumption DEF Start, Way, Goto, Shape
<1>2. Way(j)'
  BY StartWay
<1>3. pc'[j] \in {"list", "pin", "load", "ended"}
  BY <1>1 DEF First
<1> QED
  BY <1>1, <1>2, <1>3 DEF Passed, Way, Begun

LEMMA PassedOthers ==
  ASSUME WorkInv, LineageInv, NEW j \in Job, StoreStep(j), Frame(j), RowsMove(j), NEW i \in Job, i # j
  PROVE  Passed(i)'
<1>0. Shape /\ Way(i) /\ Written(i) /\ Passed(i) /\ \A k \in Job : Written(k) /\ Way(k)
  BY DEF WorkInv, LineageInv
<1>1. /\ jobs'[i] = jobs[i] /\ (Continues(i)' <=> Continues(i))
      /\ pc'[i] = pc[i] /\ verdict'[i] = verdict[i] /\ held'[i] = held[i]
  BY DEF StoreStep, Frame, Continues
<1>2. (pc[i] = "revive" /\ Continues(held[i]) => jobs[held[i]].status = "failed")'
  <2> SUFFICES ASSUME pc[i] = "revive", Continues(held[i])' PROVE jobs'[held[i]].status = "failed"
    BY <1>1
  <2>1. held[i] \in Job /\ held[i] # NoJob
    BY <1>0, NoJobIsNone DEF Way, Resumed
  <2>2. rows[held[i]].status # "absent" /\ Written(held[i])
    BY <1>0, <2>1 DEF Written
  <2>3. pc[held[i]] # "idle"
    BY <2>2 DEF Written
  <2>4. Continues(held[i])
    BY <1>1, <2>1, <2>3 DEF Frame, Continues
  <2> QED
    BY <1>0, <2>1, <2>4 DEF Passed, RowsMove
<1> QED
  BY <1>0, <1>1, <1>2 DEF Passed, RowsMove

LEMMA TakenStep ==
  ASSUME WorkInv, LineageInv, NEW j \in Job, Step(j), StoreStep(j), Frame(j), RowsMove(j), NEW c \in Job
  PROVE  Taken(c)'
<1>0. /\ Shape /\ Way(j) /\ Written(c) /\ Taken(c)
      /\ rows[c].consumer \in Job \cup {NoJob} /\ rows'[c].consumer \in Job \cup {NoJob}
  BY DEF WorkInv, LineageInv, Shape, RowShape, StoreStep
<1>1. ASSUME Continues(j), pc[j] \in After \cup {"take"} PROVE pc'[j] \in After /\ held'[j] = held[j]
  <2>1. ~Working(j) /\ ~\E m \in Modes : Start(j, m)
    BY <1>1, WorkingFrom DEF After, Begun, Start
  <2>2. Moving(j)
    BY <2>1 DEF Step, JobStep, Translating, Resuming, Publishing, Moving, Working
  <2> QED
    BY <1>0, <1>1, <2>2, LeadsStep, MovingKeeps DEF Leads
<1>2. CASE RowKept(c)
  <2>1. rows'[c].consumer = rows[c].consumer /\ (rows'[c].status = "absent" <=> rows[c].status = "absent")
    BY <1>2 DEF RowKept
  <2>2. ASSUME NEW k \in Job, k = rows[c].consumer, k # NoJob PROVE held'[k] = c /\ pc'[k] \in After
    <3>1. held[k] = c /\ pc[k] \in After /\ Continues(k)
      BY <1>0, <2>2 DEF Taken, Written
    <3> QED
      BY <1>1, <3>1 DEF Frame
  <2> QED
    BY <1>0, <2>1, <2>2 DEF Taken
<1>3. CASE RowSaved(j, c)
  BY <1>3 DEF RowSaved, Taken
<1>4. CASE RowTaken(j, c)
  <2>1. Continues(j) /\ pc[j] = "take" /\ held[j] = c /\ rows'[c].consumer = j /\ rows'[c].status = "open"
    BY <1>0, <1>4 DEF RowTaken, Way, Resumed
  <2> QED
    BY <1>1, <2>1 DEF Taken
<1> QED
  BY <1>2, <1>3, <1>4 DEF StoreStep

LEMMA LineageStep == ASSUME WorkInv, LineageInv, NEW j \in Job, Step(j) PROVE LineageInv'
<1>0. Shape /\ Way(j)
  BY DEF WorkInv
<1>1. StoreStep(j) /\ Frame(j) /\ RowsMove(j)
  BY StepEffects
<1>2. Moving(j) \/ Working(j) \/ \E m \in Modes : Start(j, m)
  BY DEF Step, JobStep, Translating, Resuming, Publishing, Moving, Working
<1>3. Passed(j)'
  BY <1>0, <1>1, <1>2, PassedMoving, PassedWorking, PassedStart
<1>4. \A i \in Job : i # j => Passed(i)'
  BY <1>1, PassedOthers
<1>5. \A c \in Job : Taken(c)'
  BY <1>1, TakenStep
<1> QED
  BY <1>3, <1>4, <1>5 DEF LineageInv

LEMMA LineageInit == Init => LineageInv
BY DEF Init, StoreInit, NoRow, LineageInv, Passed, Taken

LEMMA LineageQuiet ==
  ASSUME LineageInv, OutsidePush \/ UNCHANGED vars
  PROVE  LineageInv'
<1>1. UNCHANGED <<jobs, rows, pc, mode, verdict, held>>
  BY DEF OutsidePush, vars
<1> QED
  BY <1>1 DEF LineageInv, Passed, Taken, Continues

-----------------------------------------------------------------------------
(* The state of Lineage, and what becomes of it when one table changes.    *)
Statuses == [c \in Job |-> rows[c].status]
Takers   == [c \in Job |-> rows[c].consumer]
Ends     == [j \in Job |-> EndOf(j)]

LEMMA EndsKept ==
  ASSUME WorkInv, NEW j \in Job, Frame(j), \A i \in Job : jobs'[i].status = jobs[i].status
  PROVE  UNCHANGED Ends
<1>1. ASSUME NEW i \in Job PROVE EndOf(i)' = EndOf(i)
  <2>1. CASE Continues(i)' <=> Continues(i)
    BY <2>1 DEF EndOf
  <2>2. CASE jobs[i].status = "none"
    BY <2>2 DEF EndOf
  <2>3. pc[i] = "idle" => jobs[i].status = "none"
    BY DEF WorkInv, Way
  <2>4. pc[i] # "idle" => (Continues(i)' <=> Continues(i))
    BY DEF Frame, Continues
  <2> QED
    BY <2>1, <2>2, <2>3, <2>4
<1> QED
  BY <1>1 DEF Ends

LEMMA EndsMoved ==
  ASSUME NEW j \in Job, Frame(j), StoreStep(j)
  PROVE  Ends' = [Ends EXCEPT ![j] = EndOf(j)']
<1>1. ASSUME NEW i \in Job, i # j PROVE EndOf(i)' = EndOf(i)
  BY <1>1 DEF EndOf, Continues, Frame, StoreStep
<1> QED
  BY <1>1 DEF Ends

LEMMA RowChange ==
  ASSUME Shape, NEW c \in Job, NEW r, rows' = [rows EXCEPT ![c] = r]
  PROVE  /\ Statuses' = [Statuses EXCEPT ![c] = r.status]
         /\ Takers' = [Takers EXCEPT ![c] = r.consumer]
BY DEF Shape, Statuses, Takers

LEMMA RowsKept == ASSUME UNCHANGED rows PROVE UNCHANGED <<Statuses, Takers>>
BY DEF Statuses, Takers

(* An end that a job writes: a continuation fails only while it runs, and  *)
(* succeeds with its checkpoint in its hands.                              *)
LEMMA EndStep ==
  ASSUME WorkInv, LineageInv, NEW j \in Job, Frame(j), StoreStep(j), UNCHANGED rows,
         \/ pc[j] \in Failing /\ jobs'[j].status = "failed"
         \/ pc[j] \in Succeeding /\ jobs'[j].status = "succeeded"
  PROVE  \/ UNCHANGED Ends
         \/ /\ Ends[j] = "running"
            /\ Ends' = [Ends EXCEPT ![j] = "failed"]
         \/ /\ Ends[j] = "running" /\ Statuses[j] = "absent"
            /\ \E c \in Job : Takers[c] = j
            /\ Ends' = [Ends EXCEPT ![j] = "succeeded"]
<1>0. /\ Way(j) /\ Settled(j) /\ Passed(j) /\ jobs[j].status \in JobStatus
      /\ held[j] \in Job \cup {NoJob}
  BY DEF WorkInv, LineageInv, Shape, JobShape
<1>1. pc[j] # "idle" /\ (Continues(j)' <=> Continues(j)) /\ pc[j] \notin {"ended", "lost"}
  BY DEF Failing, Succeeding, Frame, Continues
<1>2. Ends' = [Ends EXCEPT ![j] = EndOf(j)']
  BY EndsMoved
<1>3. CASE ~Continues(j)
  BY <1>1, <1>2, <1>3 DEF EndOf, Ends
<1>4. CASE Continues(j) /\ pc[j] \in Failing /\ jobs'[j].status = "failed"
  <2>1. jobs[j].status \in {"started", "failed"}
    BY <1>0, <1>1, <1>4 DEF Passed, Settled, Succeeded, JobStatus, Failing
  <2>2. EndOf(j)' = "failed"
    BY <1>1, <1>4 DEF EndOf
  <2>3. Ends[j] \in {"running", "failed"}
    BY <1>4, <2>1 DEF Ends, EndOf
  <2> QED
    BY <1>2, <2>2, <2>3 DEF Ends
<1>5. CASE Continues(j) /\ pc[j] \in Succeeding /\ jobs'[j].status = "succeeded"
  <2>1. pc[j] = "finish" /\ verdict[j] = "good"
    BY <1>0, <1>5 DEF Succeeding, Way, Unknown, Finishing
  <2>2. jobs[j].status = "started"
    BY <1>0, <1>1, <1>5, <2>1 DEF Passed, Settled, Succeeded, JobStatus
  <2>3. Ends[j] = "running" /\ EndOf(j)' = "succeeded"
    BY <1>1, <1>5, <2>2 DEF Ends, EndOf
  <2>4. Statuses[j] = "absent"
    BY <1>0, <1>5, <2>1 DEF Passed, Statuses
  <2>5. \E c \in Job : Takers[c] = j
    BY <1>0, <2>1 DEF Settled, Finishing, Takers
  <2> QED
    BY <1>2, <2>3, <2>4, <2>5
<1> QED
  BY <1>3, <1>4, <1>5

(* A job takes an open row from nobody, or from a job that has failed.     *)
LEMMA TakeStep ==
  ASSUME WorkInv, LineageInv, NEW j \in Job, pc[j] = "take", Consumable(held[j], seen[j])
  PROVE  /\ held[j] \in Job /\ Statuses[held[j]] = "open"
         /\ Ends[j] = "running" \/ (Ends[j] = "failed" /\ Statuses[j] # "absent")
         /\ Takers[held[j]] = NoJob \/ Ends[Takers[held[j]]] = "failed"
         /\ \A d \in Job : Takers[d] # j
<1>0. /\ Way(j) /\ Settled(j) /\ Passed(j) /\ Written(j) /\ jobs[j].status \in JobStatus
      /\ held[j] \in Job \cup {NoJob} /\ seen[j] \in Job \cup {NoJob}
  BY DEF WorkInv, LineageInv, Shape, JobShape
<1>1. Continues(j) /\ held[j] \in Job
  BY <1>0 DEF Way, Resumed
<1>2. rows[held[j]].status = "open" /\ rows[held[j]].consumer = seen[j]
  BY DEF Consumable
<1>3. Ends[j] = "running" \/ (Ends[j] = "failed" /\ Statuses[j] # "absent")
  <2>1. jobs[j].status \in {"started", "failed"}
    BY <1>0, <1>1 DEF Passed, Settled, Succeeded, JobStatus
  <2>2. jobs[j].status = "failed" => rows[j].status # "absent"
    BY <1>0, <1>1 DEF Passed, Settled
  <2> QED
    BY <1>1, <2>1, <2>2 DEF Ends, EndOf, Statuses
<1>4. seen[j] # NoJob => Ends[seen[j]] = "failed"
  BY <1>0 DEF Written, Ends, EndOf
<1>5. ASSUME NEW d \in Job, rows[d].consumer = j PROVE FALSE
  <2>1. j # NoJob
    BY NoJobIsNone
  <2>2. pc[j] \in After
    BY <1>5, <2>1 DEF LineageInv, Taken
  <2> QED
    BY <2>2 DEF After
<1> QED
  BY <1>1, <1>2, <1>3, <1>4, <1>5 DEF Statuses, Takers

(* Only an acknowledged stop is opened, and that of a continuation is its  *)
(* failure.                                                                *)
LEMMA OpenStep ==
  ASSUME WorkInv, LineageInv, NEW j \in Job, NEW c \in Job,
         (pc[j] = "revive" /\ c = held[j]) \/ (pc[j] = "activate" /\ c = j)
  PROVE  Ends[c] \in {"none", "failed"}
BY DEF LineageInv, Passed, Ends, EndOf

LEMMA LineageMove ==
  ASSUME WorkInv, LineageInv, NEW j \in Job, Step(j)
  PROVE  [L!Next]_(L!vars)
<1>0. /\ Shape /\ Way(j) /\ Written(j) /\ StoreStep(j) /\ Frame(j) /\ Effect(j)
      /\ rows \in [Job -> RowShape]
  BY StepEffects, StepEffect DEF WorkInv, Shape
<1> USE DEF Statuses, Takers, Ends
<1>1. CASE UNCHANGED <<jobs, rows>>
  BY <1>0, <1>1, EndsKept, RowsKept DEF L!vars
<1>2. ASSUME NEW t \in Named(j), BindSnapshot(j, t) PROVE UNCHANGED L!vars
  <2>1. UNCHANGED rows /\ \A i \in Job : jobs'[i].status = jobs[i].status
    BY <1>0, <1>2 DEF BindSnapshot, Shape
  <2> QED
    BY <1>0, <2>1, EndsKept, RowsKept DEF L!vars
<1>3. ASSUME NEW t \in Named(j), pc[j] = "idle", InsertJob(j, t) PROVE L!Begin(j) \/ UNCHANGED L!vars
  <2>1. UNCHANGED rows /\ jobs'[j].status = "started" /\ jobs[j].status = "none" /\ rows[j].status = "absent"
    BY <1>0, <1>3 DEF InsertJob, Shape, Way, Written
  <2>2. EndOf(j) = "none" /\ EndOf(j)' \in {"none", "running"}
    BY <2>1 DEF EndOf
  <2>3. Ends' = [Ends EXCEPT ![j] = EndOf(j)'] /\ UNCHANGED <<Statuses, Takers>>
    BY <1>0, <2>1, EndsMoved, RowsKept
  <2>4. Ends[j] = "none" /\ Statuses[j] = "absent"
    BY <2>1, <2>2
  <2>5. CASE EndOf(j)' = "running"
    BY <2>3, <2>4, <2>5 DEF L!Begin
  <2>6. CASE EndOf(j)' = "none"
    <3>1. Ends' = Ends
      BY <2>2, <2>3, <2>6
    <3> QED
      BY <2>3, <3>1 DEF L!vars
  <2> QED
    BY <2>2, <2>5, <2>6
<1>4. ASSUME \/ pc[j] \in Failing /\ \E e \in Error, t \in Named(j) : FinishJob(j, "failed", e, t)
             \/ pc[j] \in Succeeding /\ \E t \in Named(j) : FinishJob(j, "succeeded", "none", t)
      PROVE  L!Fail(j) \/ L!Succeed(j) \/ UNCHANGED L!vars
  <2>1. /\ UNCHANGED rows
        /\ \/ pc[j] \in Failing /\ jobs'[j].status = "failed"
           \/ pc[j] \in Succeeding /\ jobs'[j].status = "succeeded"
    BY <1>0, <1>4 DEF FinishJob, Shape
  <2>2. UNCHANGED <<Statuses, Takers>>
    BY <2>1, RowsKept
  <2> QED
    BY <1>0, <2>1, <2>2, EndStep DEF L!Fail, L!Succeed, L!vars
<1>5. ASSUME NEW s, NEW t, pc[j] = "save", SaveCheckpoint(j, s, t, RootOf(j)) PROVE L!Stage(j)
  <2> DEFINE r == [status |-> "pending", stage |-> s, target |-> t, consumer |-> NoJob, root |-> RootOf(j)]
  <2>1. rows' = [rows EXCEPT ![j] = r] /\ UNCHANGED jobs
    BY <1>5 DEF SaveCheckpoint
  <2>2. r.status = "pending" /\ r.consumer = NoJob
    OBVIOUS
  <2> HIDE DEF r
  <2>3. Statuses' = [Statuses EXCEPT ![j] = "pending"] /\ Takers' = [Takers EXCEPT ![j] = NoJob]
    BY <1>0, <2>1, <2>2, RowChange
  <2>4. rows[j].status = "absent" /\ rows[j].consumer = NoJob
    BY <1>0, <1>5 DEF Written, LineageInv, Taken
  <2>5. Takers' = Takers
    BY <2>3, <2>4
  <2>6. UNCHANGED Ends
    BY <1>0, <2>1, EndsKept
  <2>7. Ends[j] \in {"none", "running"}
    BY <1>0, <1>5 DEF Way, EndOf
  <2> QED
    BY <2>3, <2>4, <2>5, <2>6, <2>7 DEF L!Stage
<1>6. ASSUME pc[j] = "take", Consume(held[j], seen[j], j) PROVE (\E c \in Job : L!Take(c, j)) \/ UNCHANGED L!vars
  <2> DEFINE r == [rows[held[j]] EXCEPT !.consumer = IF Consumable(held[j], seen[j]) THEN j ELSE @]
  <2>0. held[j] \in Job
    BY <1>0, <1>6 DEF Way, Resumed
  <2>1. rows' = [rows EXCEPT ![held[j]] = r] /\ UNCHANGED jobs
    BY <1>6 DEF Consume
  <2>2. /\ r.status = rows[held[j]].status
        /\ r.consumer = IF Consumable(held[j], seen[j]) THEN j ELSE rows[held[j]].consumer
    BY <1>0, <2>0 DEF RowShape
  <2> HIDE DEF r
  <2>3. /\ Statuses' = [Statuses EXCEPT ![held[j]] = rows[held[j]].status]
        /\ Takers' = [Takers EXCEPT ![held[j]] = IF Consumable(held[j], seen[j]) THEN j ELSE rows[held[j]].consumer]
    BY <1>0, <2>0, <2>1, <2>2, RowChange
  <2>4. UNCHANGED Ends /\ UNCHANGED Statuses
    BY <1>0, <2>0, <2>1, <2>3, EndsKept
  <2>5. CASE Consumable(held[j], seen[j])
    <3>1. L!Take(held[j], j)
      BY <1>6, <2>3, <2>4, <2>5, TakeStep DEF L!Take
    <3> QED
      BY <2>0, <3>1
  <2>6. CASE ~Consumable(held[j], seen[j])
    BY <2>0, <2>3, <2>4, <2>6 DEF L!vars
  <2> QED
    BY <2>5, <2>6
<1>7. ASSUME NEW c \in Job, Activate(c), (pc[j] = "revive" /\ c = held[j]) \/ (pc[j] = "activate" /\ c = j)
      PROVE  L!Open(c) \/ UNCHANGED L!vars
  <2> DEFINE r == [rows[c] EXCEPT !.status = IF Activatable(c) THEN "open" ELSE @]
  <2>1. rows' = [rows EXCEPT ![c] = r] /\ UNCHANGED jobs
    BY <1>7 DEF Activate
  <2>2. r.consumer = rows[c].consumer /\ r.status = IF rows[c].status = "pending" THEN "open" ELSE rows[c].status
    BY <1>0 DEF RowShape, Activatable
  <2> HIDE DEF r
  <2>3. /\ Statuses' = [Statuses EXCEPT ![c] = IF rows[c].status = "pending" THEN "open" ELSE rows[c].status]
        /\ UNCHANGED Takers
    BY <1>0, <2>1, <2>2, RowChange
  <2>4. UNCHANGED Ends /\ Ends[c] \in {"none", "failed"}
    BY <1>0, <1>7, <2>1, EndsKept, OpenStep
  <2> QED
    BY <2>3, <2>4 DEF L!Open, L!vars
<1>8. ASSUME NEW c \in Job, Close(c) PROVE L!Close(c) \/ UNCHANGED L!vars
  <2> DEFINE r == [rows[c] EXCEPT !.status = IF @ = "absent" THEN @ ELSE "closed"]
  <2>1. rows' = [rows EXCEPT ![c] = r] /\ UNCHANGED jobs
    BY <1>8 DEF Close
  <2>2. r.consumer = rows[c].consumer /\ r.status = IF rows[c].status = "absent" THEN rows[c].status ELSE "closed"
    BY <1>0 DEF RowShape
  <2> HIDE DEF r
  <2>3. /\ Statuses' = [Statuses EXCEPT ![c] = IF rows[c].status = "absent" THEN rows[c].status ELSE "closed"]
        /\ UNCHANGED Takers
    BY <1>0, <2>1, <2>2, RowChange
  <2>4. UNCHANGED Ends
    BY <1>0, <2>1, EndsKept
  <2>5. rows[c].status \in RowStatus
    BY <1>0 DEF RowShape
  <2> QED
    BY <2>3, <2>4, <2>5 DEF L!Close, L!vars, RowStatus
<1>9. held[j] \in Job \/ pc[j] # "revive"
  BY <1>0 DEF Way, Resumed, Shape
<1> QED
  BY <1>0, <1>1, <1>2, <1>3, <1>4, <1>5, <1>6, <1>7, <1>8, <1>9 DEF Effect, L!Next

(* The jobs implement Lineage, for any number of jobs, faults and          *)
(* interleavings: a checkpoint is opened only as the recorded failure of   *)
(* its job, passes from a continuation that failed to the next, and stays  *)
(* with one that succeeds, whose SUCCESS is never overwritten.             *)
THEOREM LineageImplemented == Spec => LineageKept
<1>1. Init => L!Init
  BY DEF Init, StoreInit, NoRow, L!Init, EndOf
<1>2. WorkInv /\ LineageInv /\ [Next]_vars => LineageInv' /\ [L!Next]_(L!vars)
  <2>1. ASSUME WorkInv, LineageInv, NEW j \in Job, Step(j) PROVE LineageInv' /\ [L!Next]_(L!vars)
    BY <2>1, LineageStep, LineageMove
  <2>2. ASSUME WorkInv, LineageInv, OutsidePush \/ UNCHANGED vars PROVE LineageInv' /\ [L!Next]_(L!vars)
    <3>1. UNCHANGED <<jobs, rows, mode>>
      BY <2>2, QuietStep
    <3>2. UNCHANGED L!vars
      BY <3>1 DEF L!vars, EndOf, Continues
    <3> QED
      BY <2>2, <3>2, LineageQuiet
  <2> QED
    BY <2>1, <2>2, NextStep
<1> QED
  BY <1>1, <1>2, LineageInit, WorkInvariant, PTL DEF Spec, LineageKept, L!Spec

-----------------------------------------------------------------------------
(***************************************************************************)
(* Origin.  The function that Origin's recursion defines exists, because   *)
(* a job is admitted only to a row that is stored and stores its own only  *)
(* later; whatever function meets the equation, the root of a stored row   *)
(* is its value.  One function is made from the other at each admission,   *)
(* so that no induction over the lineage is needed.                        *)
(***************************************************************************)
Traced(f) == f = [i \in Job |-> IF Continues(i) /\ held[i] # NoJob THEN f[held[i]] ELSE i]

OriginInv ==
  /\ \A j \in Job : pc[j] \in {"idle", "load"} => held[j] = NoJob
  /\ \E f : Traced(f)
  /\ \A f : Traced(f) => \A c \in Job : rows[c].status # "absent" => rows[c].root = f[c]

LEMMA OriginTraced ==
  ASSUME \E f : Traced(f), NEW c \in Job
  PROVE  \E f : Traced(f) /\ Origin(c) = f[c]
<1> DEFINE From == CHOOSE f : f = [i \in Job |-> IF Continues(i) /\ held[i] # NoJob THEN f[held[i]] ELSE i]
<1>1. Traced(From)
  BY DEF Traced
<1>2. Origin(c) = From[c]
  BY DEF Origin
<1> QED
  BY <1>1, <1>2

(* A pc gets to "load" from "idle", and nobody returns to "idle".          *)
LEMMA LoadsOnce ==
  ASSUME Shape, NEW j \in Job, Step(j), pc'[j] \in {"idle", "load"}
  PROVE  pc[j] = "idle" /\ UNCHANGED held
<1> USE DEF Goto
<1>0. pc \in [Job -> Stop]
  BY DEF Shape
<1>1. ~Translating(j) /\ ~Resuming(j) /\ ~Refused(j) /\ ~ReadFails(j) /\ ~RunnerLost(j)
  <2>1. ~Swept(j)
    BY <1>0 DEF Swept, Shape, Verdict
  <2>2. ~List(j) /\ ~Sweep(j) /\ ~DeleteBranch(j) /\ ~PinHead(j)
    BY <1>0 DEF List, Sweep, DeleteBranch, PinHead
  <2>3. ~Resuming(j)
    BY <1>0 DEF Resuming, Load, ReviveCheck, Revive, ReviveConfirm, Admit, Replay, Bind
  <2>4. ~Refused(j) /\ ~ReadFails(j) /\ ~RunnerLost(j)
    BY <1>0, ErrorLeaves DEF Refused, ReadFails, RunnerLost, Raise
  <2> QED
    BY <2>1, <2>2, <2>3, <2>4 DEF Translating
<1>2. ~Publishing(j)
  BY <1>0 DEF Publishing, StopEarly, Prepare, WantPush, Reviewed, Push, EnsurePr, Report, Capture
<1>3. ~(\/ Save(j) \/ RecordStop(j) \/ StopCheck(j) \/ StopFail(j) \/ SaveFail(j)
        \/ ConsumeCheck(j) \/ Take(j) \/ Confirm(j))
  BY <1>0, ErrorLeaves DEF Save, RecordStop, StopCheck, StopFail, SaveFail, ConsumeCheck, Take, Confirm,
                Record, Raise
<1>4. ~(Match(j) \/ ActivateOwn(j) \/ OwnOpened(j) \/ Tidy(j) \/ Abandon(j) \/ AbandonFail(j))
  BY <1>0, ErrorLeaves DEF Match, ActivateOwn, OwnOpened, Tidy, Abandon, AbandonFail,
                Record, CloseQuietly, Raise
<1>5. ~Ending(j)
  BY <1>0 DEF Ending, Finish, FinishCheck, FinishFail, Succeed, Unsucceed, Settle, Unsettle, FailJob, Record
<1>6. ~Expire(j)
  BY DEF Expire, Ended
<1>7. PICK m \in Modes : Start(j, m)
  BY <1>1, <1>2, <1>3, <1>4, <1>5, <1>6 DEF Step, JobStep, HandingOver
<1> QED
  BY <1>7 DEF Start

LEMMA FoundLive == ASSUME NEW j \in Job, NEW c \in Found(j) PROVE Live(c)
<1>1. \A S : \A d \in Lookup(S) : Live(d)
  BY DEF Lookup
<1> QED
  BY <1>1 DEF Found, FoundByHead, FoundBySource, Unactivated

(* A step that admits nobody: the equation stays, and a row that is saved  *)
(* takes the root of the row its job was admitted to.                      *)
LEMMA OriginKept ==
  ASSUME WorkInv, OriginInv, NEW j \in Job, StoreStep(j), Frame(j), UNCHANGED held,
         pc'[j] \in {"idle", "load"} => pc[j] = "idle"
  PROVE  OriginInv'
<1>0. /\ Shape /\ \A i \in Job : Way(i) /\ Written(i)
      /\ \A i \in Job : held[i] \in Job \cup {NoJob}
  BY DEF WorkInv, Shape
<1>1. \A i \in Job : pc'[i] \in {"idle", "load"} => held'[i] = NoJob
  BY DEF OriginInv, Frame
<1>2. \A i \in Job : held[i] # NoJob => (Continues(i)' <=> Continues(i))
  BY DEF OriginInv, Frame, Continues
<1>3. \A f : Traced(f)' <=> Traced(f)
  BY <1>2 DEF Traced
<1>4. ASSUME NEW f, Traced(f), NEW c \in Job, rows'[c].status # "absent" PROVE rows'[c].root = f[c]
  <2>1. CASE RowKept(c) \/ RowTaken(j, c)
    BY <1>4, <2>1 DEF OriginInv, RowKept, RowTaken
  <2>2. CASE RowSaved(j, c)
    <3>1. c = j /\ pc[j] = "save" /\ rows'[j].root = RootOf(j)
      BY <2>2 DEF RowSaved
    <3>2. Continues(j) => held[j] \in Job /\ rows[held[j]].status # "absent" /\ held[j] # NoJob
      BY <1>0, <3>1, NoJobIsNone DEF Way, Written
    <3>3. f[j] = IF Continues(j) /\ held[j] # NoJob THEN f[held[j]] ELSE j
      BY <1>4 DEF Traced
    <3> QED
      BY <1>4, <3>1, <3>2, <3>3 DEF OriginInv, RootOf
  <2> QED
    BY <2>1, <2>2 DEF StoreStep
<1> QED
  BY <1>1, <1>3, <1>4 DEF OriginInv

(* An admission: nobody holds the job that is admitted, so a function that *)
(* meets the equation on one side of the step differs at that job alone    *)
(* from one that meets it on the other.                                    *)
LEMMA OriginLoaded ==
  ASSUME WorkInv, OriginInv, NEW j \in Job, NEW c \in Found(j), pc[j] = "load", pc'[j] \notin {"idle", "load"},
         held' = [held EXCEPT ![j] = c], UNCHANGED <<rows, mode>>, Frame(j)
  PROVE  OriginInv'
<1>0. /\ Shape /\ held \in [Job -> Job \cup {NoJob}] /\ held[j] = NoJob
      /\ \A i \in Job : Way(i) /\ Written(i)
  BY DEF WorkInv, Shape, OriginInv
<1>1. c \in Job /\ rows[c].status # "absent" /\ c # NoJob
  BY FoundStored, NoJobIsNone
<1>2. rows[j].status = "absent" /\ c # j /\ Continues(j)
  BY <1>0, <1>1 DEF Written, Way, Begun, Resumed
<1>3. \A i \in Job : held[i] # j
  BY <1>0, <1>2, NoJobIsNone DEF Written
<1>4. \A i \in Job : held'[i] = (IF i = j THEN c ELSE held[i]) /\ (Continues(i)' <=> Continues(i))
  BY <1>0 DEF Continues
<1>5. \A i \in Job : pc'[i] \in {"idle", "load"} => held'[i] = NoJob
  BY <1>4 DEF OriginInv, Frame
<1>6. \E f : Traced(f)'
  <2>1. PICK f : Traced(f)
    BY DEF OriginInv
  <2> DEFINE g == [i \in Job |-> IF i = j THEN f[c] ELSE f[i]]
  <2>2. ASSUME NEW i \in Job PROVE g[i] = IF Continues(i)' /\ held'[i] # NoJob THEN g[held'[i]] ELSE i
    <3>1. CASE i = j
      BY <1>1, <1>2, <1>4, <3>1
    <3>2. CASE i # j
      <4>1. f[i] = IF Continues(i) /\ held[i] # NoJob THEN f[held[i]] ELSE i
        BY <2>1 DEF Traced
      <4>2. held[i] # NoJob => g[held[i]] = f[held[i]]
        BY <1>0, <1>3
      <4> QED
        BY <1>4, <3>2, <4>1, <4>2
    <3> QED
      BY <3>1, <3>2
  <2>3. g = [i \in Job |-> IF Continues(i)' /\ held'[i] # NoJob THEN g[held'[i]] ELSE i]
    BY <2>2
  <2>4. Traced(g)'
    BY <2>3 DEF Traced
  <2> QED
    BY <2>4
<1>7. ASSUME NEW f, Traced(f)', NEW d \in Job, rows'[d].status # "absent" PROVE rows'[d].root = f[d]
  <2> DEFINE g == [i \in Job |-> IF i = j THEN j ELSE f[i]]
  <2>1. \A i \in Job : f[i] = IF Continues(i)' /\ held'[i] # NoJob THEN f[held'[i]] ELSE i
    BY <1>7 DEF Traced
  <2>2. ASSUME NEW i \in Job PROVE g[i] = IF Continues(i) /\ held[i] # NoJob THEN g[held[i]] ELSE i
    <3>1. CASE i = j
      BY <1>0, <3>1
    <3>2. CASE i # j
      <4>1. held[i] # NoJob => g[held[i]] = f[held[i]]
        BY <1>0, <1>3
      <4> QED
        BY <1>4, <2>1, <3>2, <4>1
    <3> QED
      BY <3>1, <3>2
  <2>3. g = [i \in Job |-> IF Continues(i) /\ held[i] # NoJob THEN g[held[i]] ELSE i]
    BY <2>2
  <2>4. Traced(g)
    BY <2>3 DEF Traced
  <2>5. rows[d].root = g[d] /\ d # j
    BY <1>2, <1>7, <2>4 DEF OriginInv
  <2> QED
    BY <2>5
<1> QED
  BY <1>5, <1>6, <1>7 DEF OriginInv

LEMMA OriginStep == ASSUME WorkInv, OriginInv, NEW j \in Job, Step(j) PROVE OriginInv'
<1>1. StoreStep(j) /\ Frame(j) /\ Shape
  BY StepEffects DEF WorkInv
<1>2. pc'[j] \in {"idle", "load"} => pc[j] = "idle" /\ UNCHANGED held
  BY <1>1, LoadsOnce
<1>3. CASE UNCHANGED held
  BY <1>1, <1>2, <1>3, OriginKept
<1>4. ASSUME NEW c \in Found(j), Load(j), held' = [held EXCEPT ![j] = c] PROVE OriginInv'
  <2>1. pc[j] = "load" /\ UNCHANGED <<rows, mode>>
    BY <1>4 DEF Load
  <2>2. pc'[j] \notin {"idle", "load"}
    BY <1>2, <2>1
  <2> QED
    BY <1>1, <1>4, <2>1, <2>2, OriginLoaded
<1> QED
  BY <1>3, <1>4, ResumeStep DEF Load

LEMMA OriginInit == Init => OriginInv
<1> SUFFICES ASSUME Init PROVE OriginInv
  OBVIOUS
<1>1. \A i \in Job : held[i] = NoJob /\ rows[i].status = "absent"
  BY DEF Init, StoreInit, NoRow
<1> DEFINE f == [i \in Job |-> i]
<1>2. f = [i \in Job |-> IF Continues(i) /\ held[i] # NoJob THEN f[held[i]] ELSE i]
  BY <1>1
<1>3. Traced(f)
  BY <1>2 DEF Traced
<1> QED
  BY <1>1, <1>3 DEF OriginInv

(* No job is admitted to a checkpoint whose lineage began with a job that  *)
(* is over age, through any number of continuations: the root written in   *)
(* the row that a lookup finds alive is the job the lineage began with.    *)
THEOREM NoneOutlives == Spec => NoneOutlivesOrigin
<1> DEFINE Young == \A j \in Job : pc[j] = "load" /\ held'[j] # NoJob => Origin(held'[j]) \notin expired
<1>1. ASSUME WorkInv, OriginInv, OutsidePush \/ UNCHANGED vars PROVE OriginInv' /\ Young
  <2>1. UNCHANGED <<rows, pc, mode, held>>
    BY <1>1 DEF OutsidePush, vars
  <2> QED
    BY <1>1, <2>1 DEF OriginInv, Traced, Continues
<1>2. ASSUME WorkInv, OriginInv, NEW j \in Job, Step(j) PROVE Young
  <2> SUFFICES ASSUME NEW i \in Job, pc[i] = "load", held'[i] # NoJob PROVE Origin(held'[i]) \notin expired
    OBVIOUS
  <2>1. held[i] = NoJob /\ held \in [Job -> Job \cup {NoJob}]
    BY <1>2 DEF WorkInv, Shape, OriginInv
  <2>2. PICK c \in Found(j) : held' = [held EXCEPT ![j] = c]
    BY <1>2, <2>1, ResumeStep DEF Load
  <2>3. i = j /\ held'[i] = c
    BY <2>1, <2>2
  <2>4. c \in Job /\ rows[c].status # "absent" /\ rows[c].root \notin expired
    BY FoundStored, FoundLive DEF Live
  <2>5. PICK f : Traced(f) /\ Origin(c) = f[c]
    BY <1>2, <2>4, OriginTraced DEF OriginInv
  <2> QED
    BY <1>2, <2>3, <2>4, <2>5 DEF OriginInv
<1>3. WorkInv /\ OriginInv /\ [Next]_vars => OriginInv' /\ Young
  BY <1>1, <1>2, OriginStep, NextStep
<1> QED
  BY OriginInit, <1>3, WorkInvariant, PTL DEF Spec, NoneOutlivesOrigin

-----------------------------------------------------------------------------
(***************************************************************************)
(* Bounds.  Every SHA in the tables and in a job's context is a commit     *)
(* that has been pushed, or the base branch in the context of a job that   *)
(* has pushed nothing; and the pushes under way never exceed the room.     *)
(***************************************************************************)
Fresh   == {"idle", "delete", "pin", "load", "check", "revive", "reread", "admit", "replay", "bind", "prepare"}
Pushing == {j \in Job : pc[j] = "push"}

Ranges ==
  /\ expired \subseteq Job /\ pr \in BOOLEAN /\ faults \in 0..MaxFaults
  /\ pushed \in [Job -> BOOLEAN]

Bounded(j) ==
  /\ jobs[j].target <= commits /\ rows[j].target <= commits /\ capture[j].target <= commits
  /\ pinned[j] <= commits /\ expected[j] <= commits
  /\ current[j] <= commits \/ (current[j] = Base /\ ~pushed[j])
  /\ pushed[j] => pc[j] \notin Fresh
  /\ pushed[j] /\ verdict[j] = "none" => pc[j] \notin {"list", "sweep"}
  /\ pc[j] = "report" => verdict[j] # "none"

Places == head <= commits /\ commits + Cardinality(Pushing) <= MaxCommits

BoundInv == Ranges /\ Places /\ \A j \in Job : Bounded(j)

LEMMA BoundInit == Init => BoundInv
<1> SUFFICES ASSUME Init PROVE BoundInv
  OBVIOUS
<1> USE DEF Init, StoreInit
<1>1. Ranges
  <2>1. pr \in BOOLEAN /\ pushed \in [Job -> BOOLEAN]
    OBVIOUS
  <2>2. expired \subseteq Job /\ faults \in 0..MaxFaults
    BY WorkflowAssumption
  <2> QED
    BY <2>1, <2>2 DEF Ranges
<1>2. Pushing = {}
  BY DEF Pushing
<1>3. Places
  BY <1>2, FS_EmptySet, BoundAssumption DEF Places, NoSha
<1>4. ASSUME NEW j \in Job PROVE Bounded(j)
  BY DEF Bounded, NoSha, NoRow
<1> QED
  BY <1>1, <1>3, <1>4 DEF BoundInv

LEMMA PushingFinite == IsFiniteSet(Pushing) /\ Cardinality(Pushing) \in Nat
<1>1. IsFiniteSet(Job)
  BY FS_Interval, BoundAssumption DEF Job
<1>2. IsFiniteSet(Pushing)
  BY <1>1, FS_Subset DEF Pushing
<1> QED
  BY <1>2, FS_CardinalityType

(* What a step does to the counters that are in no table.                  *)
Toll == UNCHANGED faults \/ (faults < MaxFaults /\ faults' = faults + 1)

LEMMA TollStep == ASSUME NEW j \in Job, Step(j) PROVE Toll
<1> USE DEF Toll, Counted, Fault
<1>1. CASE Translating(j) \/ Resuming(j)
  BY <1>1 DEF Translating, Resuming, List, Sweep, Swept, DeleteBranch, PinHead, Load, ReviveCheck, Revive,
              ReviveConfirm, Admit, Replay, Bind, ActivateCall
<1>2. CASE Publishing(j)
  BY <1>2 DEF Publishing, StopEarly, Prepare, WantPush, Reviewed, Push, EnsurePr, Report, Capture
<1>3. CASE HandingOver(j)
  BY <1>3 DEF HandingOver, Save, RecordStop, StopCheck, StopFail, SaveFail, ConsumeCheck, Take, Confirm, Match,
              ActivateOwn, OwnOpened, Tidy, Abandon, AbandonFail, Record, CloseQuietly, ActivateCall
<1>4. CASE Ending(j)
  BY <1>4 DEF Ending, Finish, FinishCheck, FinishFail, Succeed, Unsucceed, Settle, Unsettle, FailJob, Record
<1>5. CASE ReadFails(j) \/ Refused(j) \/ RunnerLost(j) \/ Expire(j)
  BY <1>5 DEF ReadFails, Refused, RunnerLost, Expire
<1>6. ASSUME NEW m \in Modes, Start(j, m) PROVE Toll
  BY <1>6 DEF Start
<1> QED
  BY <1>1, <1>2, <1>3, <1>4, <1>5, <1>6 DEF Step, JobStep

LEMMA AgeStep == ASSUME NEW j \in Job, Step(j) PROVE expired' \in {expired, expired \cup {j}}
<1> USE DEF InsertJob, BindSnapshot, FinishJob, SaveCheckpoint, Consume, Activate, Close
<1>1. CASE Translating(j) \/ Resuming(j)
  BY <1>1 DEF Translating, Resuming, List, Sweep, Swept, DeleteBranch, PinHead, Load, ReviveCheck, Revive,
              ReviveConfirm, Admit, Replay, Bind, ActivateCall
<1>2. CASE Publishing(j)
  BY <1>2 DEF Publishing, StopEarly, Prepare, WantPush, Reviewed, Push, EnsurePr, Report, Capture
<1>3. CASE HandingOver(j)
  BY <1>3 DEF HandingOver, Save, RecordStop, StopCheck, StopFail, SaveFail, ConsumeCheck, Take, Confirm, Match,
              ActivateOwn, OwnOpened, Tidy, Abandon, AbandonFail, Record, CloseQuietly, ActivateCall
<1>4. CASE Ending(j)
  BY <1>4 DEF Ending, Finish, FinishCheck, FinishFail, Succeed, Unsucceed, Settle, Unsettle, FailJob, Record
<1>5. CASE ReadFails(j) \/ Refused(j) \/ RunnerLost(j) \/ Expire(j)
  BY <1>5 DEF ReadFails, Refused, RunnerLost, Expire
<1>6. ASSUME NEW m \in Modes, Start(j, m) PROVE UNCHANGED expired
  BY <1>6 DEF Start
<1> QED
  BY <1>1, <1>2, <1>3, <1>4, <1>5, <1>6 DEF Step, JobStep

LEMMA RangesStep ==
  ASSUME Shape, Ranges, NEW j \in Job, Step(j)
  PROVE  Ranges' /\ \A i \in Job : i # j => pushed'[i] = pushed[i]
<1>1. expired' \subseteq Job /\ faults' \in 0..MaxFaults
  BY AgeStep, TollStep, WorkflowAssumption DEF Ranges, Toll
<1>2. Moving(j) \/ Working(j) \/ \E m \in Modes : Start(j, m)
  BY DEF Step, JobStep, Translating, Resuming, Publishing, Moving, Working
<1>3. pr' \in BOOLEAN
  <2>1. CASE Moving(j)
    BY <2>1, MovingKeeps DEF Ranges
  <2>2. CASE Working(j)
    BY <2>2 DEF Working, List, Sweep, DeleteBranch, PinHead, Load, Replay, StopEarly, Reviewed, Push, EnsurePr,
                Report, Capture, Ranges
  <2>3. ASSUME NEW m \in Modes, Start(j, m) PROVE pr' \in BOOLEAN
    BY <2>3 DEF Start, Ranges
  <2> QED
    BY <1>2, <2>1, <2>2, <2>3
<1>4. UNCHANGED pushed \/ pushed' = [pushed EXCEPT ![j] = TRUE]
  <2>1. CASE Moving(j)
    BY <2>1, MovingKeeps
  <2>2. CASE Working(j)
    BY <2>2 DEF Working, List, Sweep, DeleteBranch, PinHead, Load, Replay, StopEarly, Reviewed, Push, EnsurePr,
                Report, Capture, Context
  <2>3. ASSUME NEW m \in Modes, Start(j, m) PROVE UNCHANGED pushed
    BY <2>3 DEF Start
  <2> QED
    BY <1>2, <2>1, <2>2, <2>3
<1> QED
  BY <1>1, <1>3, <1>4 DEF Ranges

(* The commits: one push under way turns into one commit, or into none.    *)
Grows(j) ==
  \/ UNCHANGED commits /\ head' \in {head, NoSha}
  \/ pc[j] = "push" /\ pc'[j] # "push" /\ commits' = commits + 1 /\ head' = commits + 1

LEMMA PushStep ==
  ASSUME Shape, NEW j \in Job, Step(j)
  PROVE  Grows(j) /\ (pc'[j] = "push" => pc[j] = "push" \/ WantPush(j))
<1> USE DEF Goto
<1>0. pc \in [Job -> Stop]
  BY DEF Shape
<1>1. CASE Moving(j)
  <2>1. Grows(j)
    BY <1>1, MovingKeeps DEF Grows
  <2>2. CASE Swept(j) \/ ReviveCheck(j) \/ Revive(j) \/ ReviveConfirm(j) \/ Admit(j) \/ Bind(j) \/ Prepare(j)
    BY <1>0, <2>1, <2>2 DEF Swept, ReviveCheck, Revive, ReviveConfirm, Admit, Bind, Prepare, Shape, Verdict
  <2>3. CASE \/ Save(j) \/ RecordStop(j) \/ StopCheck(j) \/ StopFail(j) \/ SaveFail(j)
             \/ ConsumeCheck(j) \/ Take(j) \/ Confirm(j)
    BY <1>0, <2>1, <2>3, ErrorLeaves DEF Save, RecordStop, StopCheck, StopFail, SaveFail, ConsumeCheck, Take, Confirm,
                  Record, Raise
  <2>4. CASE \/ Match(j) \/ ActivateOwn(j) \/ OwnOpened(j) \/ Tidy(j) \/ Abandon(j) \/ AbandonFail(j)
    BY <1>0, <2>1, <2>4, ErrorLeaves DEF Match, ActivateOwn, OwnOpened, Tidy, Abandon, AbandonFail,
                  Record, CloseQuietly, Raise
  <2>5. CASE Ending(j)
    BY <1>0, <2>1, <2>5 DEF Ending, Finish, FinishCheck, FinishFail, Succeed, Unsucceed, Settle, Unsettle, FailJob,
                  Record
  <2>6. CASE ReadFails(j) \/ Refused(j) \/ RunnerLost(j) \/ Expire(j)
    BY <1>0, <2>1, <2>6, ErrorLeaves DEF ReadFails, Refused, RunnerLost, Expire, Raise
  <2> QED
    BY <1>1, <2>1, <2>2, <2>3, <2>4, <2>5, <2>6 DEF Moving, HandingOver
<1>2. CASE Working(j)
  <2>1. CASE Push(j)
    BY <1>0, <2>1 DEF Push, Grows
  <2>2. CASE \/ List(j) \/ Sweep(j) \/ DeleteBranch(j) \/ PinHead(j) \/ Load(j) \/ Replay(j)
             \/ StopEarly(j) \/ Reviewed(j) \/ EnsurePr(j) \/ Report(j) \/ Capture(j)
    BY <1>0, <2>2 DEF List, Sweep, DeleteBranch, PinHead, Load, Replay, StopEarly, Reviewed, EnsurePr,
                  Report, Capture, Grows
  <2> QED
    BY <1>2, <2>1, <2>2 DEF Working
<1>3. ASSUME NEW m \in Modes, Start(j, m) PROVE Grows(j) /\ pc'[j] # "push"
  BY <1>0, <1>3 DEF Start, Grows, First
<1> QED
  BY <1>1, <1>2, <1>3 DEF Step, JobStep, Translating, Resuming, Publishing, Moving, Working

LEMMA PlacesStep ==
  ASSUME Shape, Places, NEW j \in Job, Step(j), Frame(j)
  PROVE  Places' /\ commits <= commits'
<1> DEFINE n == Cardinality(Pushing)
           m == Cardinality(Pushing')
<1>0. n \in Nat /\ commits \in Nat /\ head \in Nat /\ head <= commits /\ commits + n <= MaxCommits
  BY PushingFinite DEF Shape, Places
<1>1. Grows(j) /\ (pc'[j] = "push" => pc[j] = "push" \/ WantPush(j))
  BY PushStep
<1>2. CASE pc[j] = "push" /\ pc'[j] # "push"
  <2>1. Pushing' = Pushing \ {j} /\ j \in Pushing
    BY <1>2 DEF Frame, Pushing
  <2>2. m = n - 1
    BY <2>1, PushingFinite, FS_RemoveElement
  <2> QED
    BY <1>0, <1>1, <2>2, BoundAssumption DEF Grows, Places, NoSha
<1>3. CASE pc[j] # "push" /\ pc'[j] = "push"
  <2>1. Pushing' = Pushing \cup {j} /\ j \notin Pushing
    BY <1>3 DEF Frame, Pushing
  <2>2. m = n + 1
    BY <2>1, PushingFinite, FS_AddElement
  <2>3. commits + n < MaxCommits
    BY <1>1, <1>3 DEF WantPush, Room, Pushing
  <2>4. commits' = commits /\ head' \in {head, NoSha}
    BY <1>1, <1>3 DEF Grows
  <2> QED
    BY <1>0, <2>2, <2>3, <2>4, BoundAssumption DEF Places, NoSha
<1>4. CASE pc[j] = "push" <=> pc'[j] = "push"
  <2>1. Pushing' = Pushing
    BY <1>4 DEF Frame, Pushing
  <2>2. commits' = commits /\ head' \in {head, NoSha}
    BY <1>1, <1>4 DEF Grows
  <2> QED
    BY <1>0, <2>1, <2>2 DEF Places, NoSha
<1> QED
  BY <1>2, <1>3, <1>4

(* The SHAs a job can name are commits, so a write of the tables is of one.*)
LEMMA NamedBounded ==
  ASSUME Shape, Ranges, Places, NEW j \in Job, Bounded(j)
  PROVE  /\ \A t \in Named(j) : t <= commits
         /\ pinned[j] \in Nat /\ expected[j] \in Nat /\ current[j] \in Nat /\ FinalSha(j) \in Nat
         /\ FinalSha(j) <= commits /\ NoSha <= commits /\ pushed[j] \in BOOLEAN
BY ShaTypes DEF Shape, Ranges, Places, Bounded, Named, FinalSha, NoSha

LEMMA TargetsStep ==
  ASSUME Shape, Shape', Ranges, Places, NEW j \in Job, Bounded(j), StoreStep(j), commits <= commits',
         NEW c \in Job, Bounded(c)
  PROVE  jobs'[c].target <= commits' /\ rows'[c].target <= commits'
<1>1. /\ jobs'[c].target \in Named(j) \cup {jobs[c].target}
      /\ rows'[c].target \in Named(j) \cup {rows[c].target}
  BY DEF StoreStep
<1>2. jobs'[c].target <= commits /\ rows'[c].target <= commits
  BY <1>1, NamedBounded DEF Bounded
<1>3. jobs'[c].target \in Nat /\ rows'[c].target \in Nat /\ commits \in Nat /\ commits' \in Nat
  BY DEF Shape, JobShape, RowShape
<1> QED
  BY <1>2, <1>3

(* The context of a job is its own.                                        *)
LEMMA OwnContext ==
  ASSUME Shape, NEW j \in Job, Step(j), NEW i \in Job, i # j
  PROVE  pinned'[i] = pinned[i] /\ capture'[i] = capture[i]
<1>1. CASE Moving(j)
  BY <1>1, MovingKeeps
<1>2. CASE Working(j)
  BY <1>2 DEF Working, List, Sweep, DeleteBranch, PinHead, Load, Replay, StopEarly, Reviewed, Push, EnsurePr,
              Report, Capture, Shape
<1>3. ASSUME NEW m \in Modes, Start(j, m) PROVE pinned'[i] = pinned[i] /\ capture'[i] = capture[i]
  BY <1>3 DEF Start, Shape
<1> QED
  BY <1>1, <1>2, <1>3 DEF Step, JobStep, Translating, Resuming, Publishing, Moving, Working

LEMMA BoundedOthers ==
  ASSUME Shape, Shape', Ranges, Places, NEW j \in Job, Step(j), Bounded(j), StoreStep(j), Frame(j),
         commits <= commits', NEW i \in Job, i # j, Bounded(i)
  PROVE  Bounded(i)'
<1>1. /\ pinned'[i] = pinned[i] /\ capture'[i] = capture[i] /\ pushed'[i] = pushed[i]
      /\ expected'[i] = expected[i] /\ current'[i] = current[i] /\ pc'[i] = pc[i] /\ verdict'[i] = verdict[i]
  BY OwnContext, RangesStep DEF Frame
<1>2. jobs'[i].target <= commits' /\ rows'[i].target <= commits'
  BY TargetsStep
<1>3. /\ pinned[i] \in Nat /\ capture[i].target \in Nat /\ expected[i] \in Nat /\ current[i] \in Nat
      /\ commits \in Nat /\ commits' \in Nat
  BY DEF Shape
<1>4. /\ pinned[i] <= commits' /\ capture[i].target <= commits' /\ expected[i] <= commits'
      /\ current[i] <= commits' \/ (current[i] = Base /\ ~pushed[i])
  BY <1>3 DEF Bounded
<1> QED
  BY <1>1, <1>2, <1>4 DEF Bounded, Base

(* Where a step that moves only the pc may lead a job that has pushed.     *)
LEMMA MovingOn ==
  ASSUME Shape, NEW j \in Job, Moving(j)
  PROVE  /\ pc'[j] \in Fresh => pc[j] \in Fresh \/ (pc[j] = "sweep" /\ verdict[j] = "none")
         /\ pc'[j] \notin {"list", "sweep", "report"}
<1> USE DEF Goto, Fresh
<1>0. pc \in [Job -> Stop] /\ verdict[j] \in {"none", "red", "good"}
  BY DEF Shape, Verdict
<1>1. CASE Swept(j) \/ ReviveCheck(j) \/ Revive(j) \/ ReviveConfirm(j) \/ Admit(j) \/ Bind(j) \/ Prepare(j)
           \/ WantPush(j)
  BY <1>0, <1>1 DEF Swept, ReviveCheck, Revive, ReviveConfirm, Admit, Bind, Prepare, WantPush
<1>2. CASE \/ Save(j) \/ RecordStop(j) \/ StopCheck(j) \/ StopFail(j) \/ SaveFail(j)
           \/ ConsumeCheck(j) \/ Take(j) \/ Confirm(j)
  BY <1>0, <1>2, ErrorLeaves DEF Save, RecordStop, StopCheck, StopFail, SaveFail, ConsumeCheck, Take, Confirm,
                Record, Raise
<1>3. CASE \/ Match(j) \/ ActivateOwn(j) \/ OwnOpened(j) \/ Tidy(j) \/ Abandon(j) \/ AbandonFail(j)
  BY <1>0, <1>3, ErrorLeaves DEF Match, ActivateOwn, OwnOpened, Tidy, Abandon, AbandonFail,
                Record, CloseQuietly, Raise
<1>4. CASE Ending(j)
  BY <1>0, <1>4 DEF Ending, Finish, FinishCheck, FinishFail, Succeed, Unsucceed, Settle, Unsettle, FailJob,
                Record
<1>5. CASE ReadFails(j) \/ Refused(j) \/ RunnerLost(j) \/ Expire(j)
  BY <1>0, <1>5, ErrorLeaves DEF ReadFails, Refused, RunnerLost, Expire, Ended, Raise
<1> QED
  BY <1>1, <1>2, <1>3, <1>4, <1>5 DEF Moving, HandingOver

(* What a working step says of the context, and where it leads.            *)
Touches(j) ==
  /\ pinned'[j] \in {pinned[j], head, NoSha}
  /\ expected'[j] \in {expected[j], head, head'}
  /\ \/ current'[j] = current[j] /\ pushed'[j] = pushed[j]
     \/ current'[j] \in {head, Base} /\ pushed'[j] = pushed[j] /\ pc[j] \in Fresh
     \/ current'[j] = head' /\ pc[j] = "push"
  /\ capture'[j].target \in {capture[j].target, head, FinalSha(j)}
  /\ pc'[j] \in Fresh => pc[j] \in Fresh
  /\ pc'[j] \in {"list", "sweep"} => pc[j] \in {"list", "sweep", "report", "idle"}
  /\ pc'[j] = "sweep" => verdict'[j] = verdict[j] /\ pushed'[j] = pushed[j]
  /\ pc'[j] = "list" => verdict'[j] = verdict[j] /\ pushed'[j] = pushed[j]
  /\ pc'[j] = "report" => verdict'[j] # "none"
  /\ pc[j] \in Fresh => pushed'[j] = pushed[j]

LEMMA WorkingContext ==
  ASSUME Shape, Ranges, NEW j \in Job, Working(j) \/ \E m \in Modes : Start(j, m)
  PROVE  Touches(j)
<1> USE DEF Touches, Fresh, Goto
<1>0. /\ pc \in [Job -> Stop] /\ verdict \in [Job -> Verdict] /\ pinned \in [Job -> Nat]
      /\ expected \in [Job -> Nat] /\ current \in [Job -> Nat] /\ pushed \in [Job -> BOOLEAN]
      /\ capture \in [Job -> [stage : Stage, target : Nat]]
  BY DEF Shape, Ranges
<1>1. CASE List(j) \/ Sweep(j) \/ DeleteBranch(j) \/ Load(j) \/ EnsurePr(j)
  BY <1>0, <1>1 DEF List, Sweep, DeleteBranch, Load, EnsurePr
<1>2. CASE PinHead(j)
  BY <1>0, <1>2 DEF PinHead, Context
<1>3. CASE Replay(j)
  BY <1>0, <1>3 DEF Replay, Context
<1>4. CASE StopEarly(j) \/ Capture(j)
  BY <1>0, <1>4 DEF StopEarly, Capture
<1>5. CASE Reviewed(j)
  BY <1>0, <1>5 DEF Reviewed
<1>6. CASE Report(j)
  BY <1>0, <1>6 DEF Report
<1>7. CASE Push(j)
  BY <1>0, <1>7 DEF Push
<1>8. ASSUME NEW m \in Modes, Start(j, m) PROVE Touches(j)
  BY <1>0, <1>8 DEF Start, First
<1> QED
  BY <1>1, <1>2, <1>3, <1>4, <1>5, <1>6, <1>7, <1>8 DEF Working

LEMMA BoundedMover ==
  ASSUME Shape, Shape', Ranges, Ranges', Places, Places', NEW j \in Job, Step(j), Way(j), Bounded(j),
         StoreStep(j), commits <= commits'
  PROVE  Bounded(j)'
<1>1. jobs'[j].target <= commits' /\ rows'[j].target <= commits'
  BY TargetsStep
<1>2. /\ commits \in Nat /\ commits' \in Nat /\ head \in Nat /\ head' \in Nat
      /\ head <= commits /\ head' <= commits'
      /\ pinned[j] \in Nat /\ expected[j] \in Nat /\ current[j] \in Nat /\ capture[j].target \in Nat
      /\ FinalSha(j) \in Nat /\ FinalSha(j) <= commits /\ pushed[j] \in BOOLEAN /\ pushed'[j] \in BOOLEAN
  BY NamedBounded DEF Shape, Places, Ranges
<1>3. CASE Moving(j)
  <2>1. UNCHANGED rest
    BY <1>3, MovingKeeps
  <2>2. /\ pc'[j] \in Fresh => pc[j] \in Fresh \/ (pc[j] = "sweep" /\ verdict[j] = "none")
        /\ pc'[j] \notin {"list", "sweep", "report"}
    BY <1>3, MovingOn
  <2> QED
    BY <1>1, <2>1, <2>2 DEF Bounded, Base
<1>4. CASE Working(j) \/ \E m \in Modes : Start(j, m)
  <2>0. Touches(j)
    BY <1>4, WorkingContext
  <2>1. pinned'[j] <= commits' /\ expected'[j] <= commits' /\ capture'[j].target <= commits'
    BY <1>2, <2>0 DEF Touches, Bounded, NoSha
  <2>2. current'[j] <= commits' \/ (current'[j] = Base /\ ~pushed'[j])
    BY <1>2, <2>0 DEF Touches, Bounded
  <2>3. pushed'[j] => pc'[j] \notin Fresh
    BY <2>0 DEF Touches, Bounded
  <2>4. pushed'[j] /\ verdict'[j] = "none" => pc'[j] \notin {"list", "sweep"}
    BY <2>0 DEF Touches, Bounded, Fresh
  <2>5. pc'[j] = "report" => verdict'[j] # "none"
    BY <2>0 DEF Touches
  <2> QED
    BY <1>1, <2>1, <2>2, <2>3, <2>4, <2>5 DEF Bounded, Base
<1> QED
  BY <1>3, <1>4 DEF Step, JobStep, Translating, Resuming, Publishing, Moving, Working

LEMMA BoundStep == ASSUME WorkInv, BoundInv, NEW j \in Job, Step(j) PROVE BoundInv'
<1>1. Shape /\ Shape' /\ Frame(j) /\ StoreStep(j) /\ Way(j)
  BY StepEffects DEF WorkInv
<1>2. Ranges /\ Ranges' /\ Places /\ Places' /\ commits <= commits'
  BY <1>1, RangesStep, PlacesStep DEF BoundInv
<1>3. \A i \in Job : Bounded(i)
  BY DEF BoundInv
<1>4. Bounded(j)'
  BY <1>1, <1>2, <1>3, BoundedMover
<1>5. \A i \in Job : i # j => Bounded(i)'
  BY <1>1, <1>2, <1>3, BoundedOthers
<1> QED
  BY <1>2, <1>4, <1>5 DEF BoundInv

LEMMA BoundQuiet == ASSUME WorkInv, BoundInv, OutsidePush \/ UNCHANGED vars PROVE BoundInv'
<1>1. UNCHANGED <<storeVars, mode, pc, pinned, contextVars, resumeVars, endVars, faults, pr>>
  BY DEF OutsidePush, vars
<1>2. Pushing' = Pushing
  BY <1>1 DEF Pushing
<1>3. \/ UNCHANGED <<head, commits>>
      \/ commits' = commits + 1 /\ head' = commits + 1 /\ commits + Cardinality(Pushing) < MaxCommits
  BY DEF OutsidePush, vars, Room, Pushing
<1>4. commits \in Nat /\ head \in Nat
  BY DEF WorkInv, Shape
<1>5. Places' /\ commits <= commits' /\ commits' \in Nat
  BY <1>2, <1>3, <1>4, PushingFinite, BoundAssumption DEF BoundInv, Places
<1>6. ASSUME NEW j \in Job PROVE Bounded(j)'
  <2>1. /\ jobs[j].target \in Nat /\ rows[j].target \in Nat /\ capture[j].target \in Nat
        /\ pinned[j] \in Nat /\ expected[j] \in Nat /\ current[j] \in Nat /\ Bounded(j)
    BY DEF WorkInv, BoundInv, Shape, JobShape, RowShape
  <2>2. /\ jobs[j].target <= commits' /\ rows[j].target <= commits' /\ capture[j].target <= commits'
        /\ pinned[j] <= commits' /\ expected[j] <= commits'
        /\ current[j] <= commits' \/ (current[j] = Base /\ ~pushed[j])
    BY <1>4, <1>5, <2>1 DEF Bounded
  <2> QED
    BY <1>1, <2>1, <2>2 DEF Bounded, Base
<1> QED
  BY <1>1, <1>5, <1>6 DEF BoundInv, Ranges

(* Every variable of the workflows keeps its type: a SHA that any job, any *)
(* row or the branch names is a commit that was pushed, however pushes,    *)
(* lost answers and the pushes of others interleave, and no step takes     *)
(* more commits than there is room for.                                    *)
THEOREM WorkflowTyping == Spec => []TypeOK
<1>1. WorkInv /\ BoundInv /\ [Next]_vars => BoundInv'
  BY BoundStep, BoundQuiet, NextStep
<1>2. WorkInv /\ BoundInv => TypeOK
  <2> SUFFICES ASSUME WorkInv, BoundInv PROVE TypeOK
    OBVIOUS
  <2>1. Shape /\ Ranges /\ Places /\ \A j \in Job : Bounded(j)
    BY DEF WorkInv, BoundInv
  <2>2. commits \in 0..MaxCommits
    BY <2>1, PushingFinite, BoundAssumption DEF Places, Shape
  <2>3. \A n \in Nat : n <= commits => n \in Sha
    BY <2>2, BoundAssumption DEF Sha, Commit, NoSha
  <2>4. head \in Sha /\ \A j \in Job : /\ jobs[j].target \in Sha /\ rows[j].target \in Sha
                                       /\ capture[j].target \in Sha /\ pinned[j] \in Sha
                                       /\ expected[j] \in Sha /\ current[j] \in Parent
    BY <2>1, <2>3 DEF Shape, JobShape, RowShape, Places, Bounded, Parent
  <2>5. jobs \in [Job -> JobRow] /\ rows \in [Job -> Row]
    BY <2>1, <2>4 DEF Shape, JobShape, RowShape, JobRow, Row
  <2>6. capture \in [Job -> SemanticStop]
    BY <2>1, <2>4 DEF Shape, SemanticStop
  <2> QED
    BY <2>1, <2>2, <2>4, <2>5, <2>6 DEF TypeOK, StoreTypeOK, Shape, Ranges
<1> QED
  BY BoundInit, <1>1, <1>2, WorkInvariant, PTL DEF Spec

-----------------------------------------------------------------------------
(***************************************************************************)
(* Seals.  A lookup follows chains of consumers of any length, so first    *)
(* what its recursive functions are: they exist, as a consumer is later    *)
(* than the job whose checkpoint it took, and what is said of them holds   *)
(* for want of a least counterexample (Descent).  Then what a checkpoint   *)
(* must be for no lookup to find it, and that it stays so.                 *)
(***************************************************************************)
LEMMA Smallest ==
  ASSUME NEW S \in SUBSET Nat, S # {}
  PROVE  \E n \in S : \A k \in S : n <= k
<1> DEFINE R == {p \in Nat \X Nat : p[1] < p[2]}
<1>1. IsWellFoundedOn(R, Nat)
  BY NatLessThanWellFounded DEF OpToRel
<1>2. ASSUME NEW n \in S, NEW k \in S, ~(<<k, n>> \in R)
      PROVE  n <= k
  <2>1. <<k, n>> \in Nat \X Nat
    OBVIOUS
  <2> QED
    BY <1>2, <2>1
<1> HIDE DEF R
<1>3. \E n \in S : \A k \in S : ~(<<k, n>> \in R)
  BY <1>1, WFMin
<1> QED
  BY <1>2, <1>3

(* A function may be defined along a step that leads to a smaller measure: *)
(* step n leads from D, of values V, and leaves the value B elsewhere.     *)
Descends(I, V, N, m, D, n, B, K) ==
  /\ N \in Nat /\ m \in [I -> 0..N] /\ D \in SUBSET I /\ n \in [D -> I]
  /\ \A c \in D : m[n[c]] < m[c]
  /\ B \in [I -> V] /\ K \in [I -> [V -> V]]
Solvable(I, V, D, n, B, K) == \E f \in [I -> V] : \A c \in I : f[c] = IF c \in D THEN K[c][f[n[c]]] ELSE B[c]

LEMMA Recurrence ==
  ASSUME NEW I, NEW V, NEW N, NEW m, NEW D, NEW next, NEW B, NEW K, Descends(I, V, N, m, D, next, B, K)
  PROVE  Solvable(I, V, D, next, B, K)
<1> USE DEF Descends, Solvable
<1> DEFINE Meets(f, n) == \A c \in I : m[c] < n => f[c] = IF c \in D THEN K[c][f[next[c]]] ELSE B[c]
           Bad == {n \in Nat : ~\E f \in [I -> V] : Meets(f, n)}
<1>1. ASSUME Bad # {} PROVE FALSE
  <2>1. PICK n \in Bad : \A k \in Bad : n <= k
    <3>1. Bad \in SUBSET Nat
      OBVIOUS
    <3> QED
      BY <1>1, <3>1, Smallest
  <2>2. n \in Nat /\ n # 0
    <3>1. Meets(B, 0)
      OBVIOUS
    <3> QED
      BY <2>1, <3>1
  <2>3. n - 1 \in Nat /\ n - 1 \notin Bad
    <3> HIDE DEF Bad
    <3> QED
      BY <2>1, <2>2
  <2>4. PICK f \in [I -> V] : Meets(f, n - 1)
    BY <2>3
  <2> DEFINE g == [c \in I |-> IF c \in D THEN K[c][f[next[c]]] ELSE B[c]]
  <2>5. g \in [I -> V]
    <3>1. ASSUME NEW c \in D PROVE K[c][f[next[c]]] \in V
      <4>1. K[c] \in [V -> V] /\ f[next[c]] \in V
        OBVIOUS
      <4> QED
        BY <4>1
    <3> QED
      BY <3>1
  <2>6. ASSUME NEW c \in I, m[c] < n PROVE g[c] = IF c \in D THEN K[c][g[next[c]]] ELSE B[c]
    <3>1. CASE c \in D
      <4>1. next[c] \in I /\ m[next[c]] < n - 1
        BY <2>2, <2>6, <3>1
      <4>2. g[next[c]] = f[next[c]]
        BY <2>4, <4>1
      <4> QED
        BY <3>1, <4>2
    <3>2. CASE c \notin D
      BY <3>2
    <3> QED
      BY <3>1, <3>2
  <2>7. Meets(g, n)
    BY <2>6
  <2> QED
    BY <2>1, <2>5, <2>7
<1>2. PICK f \in [I -> V] : Meets(f, N + 1)
  <2>1. N + 1 \notin Bad
    <3> HIDE DEF Bad
    <3> QED
      BY <1>1
  <2>2. N + 1 \in Nat
    OBVIOUS
  <2> QED
    BY <2>1, <2>2
<1>3. \A c \in I : m[c] < N + 1
  OBVIOUS
<1> QED
  BY <1>2, <1>3

-----------------------------------------------------------------------------
(* Along the consumers of a lookup: a consumer started after the job whose *)
(* checkpoint it took.                                                     *)
Chained(S) ==
  /\ \A c \in Job : rows[c].consumer \in Job \cup {NoJob}
  /\ \A c \in Job : Follows(S, c) => rows[c].consumer \in Job /\ rows[c].consumer > c

LastOf(S, f) == f = [c \in Job |-> IF Follows(S, c) THEN f[rows[c].consumer] ELSE c]
PathOf(S, f) ==
  f = [c \in Job |-> {c} \cup (IF Follows(S, c) THEN f[rows[c].consumer] ELSE {rows[c].consumer})]
WithinOf(S, f) ==
  f = [n \in 0..MaxJobs |->
        IF n = 0 THEN Opened(S) ELSE f[n - 1] \cup (S \cap {rows[c].consumer : c \in f[n - 1]})]

LEMMA Remaining ==
  ASSUME NEW S, Chained(S)
  PROVE  LET m == [c \in Job |-> MaxJobs - c]
             D == {c \in Job : Follows(S, c)}
             n == [c \in D |-> rows[c].consumer]
         IN  /\ m \in [Job -> 0..MaxJobs] /\ D \in SUBSET Job /\ n \in [D -> Job]
             /\ \A c \in D : m[n[c]] < m[c]
BY BoundAssumption DEF Chained, Job

LEMMA LastExists == ASSUME NEW S, Chained(S) PROVE \E f : LastOf(S, f)
<1> DEFINE m == [c \in Job |-> MaxJobs - c]
           D == {c \in Job : Follows(S, c)}
           n == [c \in D |-> rows[c].consumer]
           B == [c \in Job |-> c]
           K == [c \in Job |-> [v \in Job |-> v]]
<1>1. m \in [Job -> 0..MaxJobs] /\ D \in SUBSET Job /\ n \in [D -> Job] /\ \A c \in D : m[n[c]] < m[c]
  BY Remaining
<1>2. B \in [Job -> Job] /\ K \in [Job -> [Job -> Job]]
  OBVIOUS
<1>3. PICK f \in [Job -> Job] : \A c \in Job : f[c] = IF c \in D THEN K[c][f[n[c]]] ELSE B[c]
  <2>1. Descends(Job, Job, MaxJobs, m, D, n, B, K)
    BY <1>1, <1>2, BoundAssumption DEF Descends
  <2> HIDE DEF m, D, n, B, K
  <2> QED
    BY <2>1, Recurrence DEF Solvable
<1>4. ASSUME NEW c \in Job PROVE f[c] = IF Follows(S, c) THEN f[rows[c].consumer] ELSE c
  <2>1. CASE c \in D
    <3>1. n[c] = rows[c].consumer /\ n[c] \in Job
      BY <1>1, <2>1
    <3>2. f[n[c]] \in Job
      BY <3>1
    <3>3. K[c][f[n[c]]] = f[n[c]]
      BY <3>2
    <3> QED
      BY <1>3, <2>1, <3>1, <3>3
  <2>2. CASE c \notin D
    BY <1>3, <2>2
  <2> QED
    BY <2>1, <2>2
<1> QED
  BY <1>4 DEF LastOf

LEMMA PathExists == ASSUME NEW S, Chained(S) PROVE \E f : PathOf(S, f)
<1> DEFINE m == [c \in Job |-> MaxJobs - c]
           D == {c \in Job : Follows(S, c)}
           n == [c \in D |-> rows[c].consumer]
           V == SUBSET (Job \cup {NoJob})
           B == [c \in Job |-> {c, rows[c].consumer}]
           K == [c \in Job |-> [v \in V |-> {c} \cup v]]
<1>1. m \in [Job -> 0..MaxJobs] /\ D \in SUBSET Job /\ n \in [D -> Job] /\ \A c \in D : m[n[c]] < m[c]
  BY Remaining
<1>2. B \in [Job -> V] /\ K \in [Job -> [V -> V]]
  BY DEF Chained
<1>3. PICK f \in [Job -> V] : \A c \in Job : f[c] = IF c \in D THEN K[c][f[n[c]]] ELSE B[c]
  <2>1. Descends(Job, V, MaxJobs, m, D, n, B, K)
    BY <1>1, <1>2, BoundAssumption DEF Descends
  <2> HIDE DEF m, D, n, V, B, K
  <2> QED
    BY <2>1, Recurrence DEF Solvable
<1>4. ASSUME NEW c \in Job
      PROVE  f[c] = {c} \cup (IF Follows(S, c) THEN f[rows[c].consumer] ELSE {rows[c].consumer})
  <2>1. CASE c \in D
    <3>1. n[c] = rows[c].consumer /\ n[c] \in Job
      BY <1>1, <2>1
    <3>2. f[n[c]] \in V
      BY <3>1
    <3>3. K[c][f[n[c]]] = {c} \cup f[n[c]]
      BY <3>2
    <3> QED
      BY <1>3, <2>1, <3>1, <3>3
  <2>2. CASE c \notin D
    BY <1>3, <2>2
  <2> QED
    BY <2>1, <2>2
<1> QED
  BY <1>4 DEF PathOf

LEMMA WithinExists == ASSUME NEW S PROVE \E f : WithinOf(S, f)
<1> DEFINE I == 0..MaxJobs
           D == 1..MaxJobs
           m == [n \in I |-> n]
           t == [n \in D |-> n - 1]
           V == SUBSET S
           B == [n \in I |-> Opened(S)]
           K == [n \in I |-> [v \in V |-> v \cup (S \cap {rows[c].consumer : c \in v})]]
<1>1. m \in [I -> 0..MaxJobs] /\ D \in SUBSET I /\ t \in [D -> I] /\ \A n \in D : m[t[n]] < m[n]
  BY BoundAssumption
<1>2. B \in [I -> V]
  BY DEF Opened
<1>3. K \in [I -> [V -> V]]
  OBVIOUS
<1>4. PICK f \in [I -> V] : \A n \in I : f[n] = IF n \in D THEN K[n][f[t[n]]] ELSE B[n]
  <2>1. Descends(I, V, MaxJobs, m, D, t, B, K)
    BY <1>1, <1>2, <1>3, BoundAssumption DEF Descends
  <2> HIDE DEF I, D, m, t, V, B, K
  <2> QED
    BY <2>1, Recurrence DEF Solvable
<1>5. ASSUME NEW n \in I
      PROVE  f[n] = IF n = 0 THEN Opened(S) ELSE f[n - 1] \cup (S \cap {rows[c].consumer : c \in f[n - 1]})
  <2>1. CASE n \in D
    <3>1. t[n] = n - 1 /\ t[n] \in I /\ n # 0
      BY <1>1, <2>1
    <3>2. f[t[n]] \in V
      BY <3>1
    <3>3. K[n][f[t[n]]] = f[t[n]] \cup (S \cap {rows[c].consumer : c \in f[t[n]]})
      BY <3>2
    <3> QED
      BY <1>4, <2>1, <3>1, <3>3
  <2>2. CASE n \notin D
    <3>1. n = 0
      BY <2>2, BoundAssumption
    <3> QED
      BY <1>4, <2>2, <3>1
  <2> QED
    BY <2>1, <2>2
<1> QED
  BY <1>5 DEF WithinOf

(* Where each member of a set has one of a smaller measure, there is none. *)
Falls(I, N, m, Bad) ==
  /\ N \in Nat /\ m \in [I -> 0..N] /\ Bad \in SUBSET I
  /\ \A c \in Bad : \E d \in Bad : m[d] < m[c]

LEMMA Descent ==
  ASSUME NEW I, NEW N, NEW m, NEW Bad, Falls(I, N, m, Bad)
  PROVE  Bad = {}
<1> SUFFICES ASSUME Bad # {} PROVE FALSE
  OBVIOUS
<1> USE DEF Falls
<1> DEFINE V == {m[c] : c \in Bad}
<1>1. V \in SUBSET Nat /\ V # {}
  OBVIOUS
<1>2. PICK n \in V : \A k \in V : n <= k
  <2> HIDE DEF V
  <2> QED
    BY <1>1, Smallest
<1>3. PICK c \in Bad : n = m[c]
  BY <1>2
<1>4. PICK d \in Bad : m[d] < m[c]
  OBVIOUS
<1>5. m[d] \in V /\ m[d] \in Nat /\ n \in Nat
  BY <1>1, <1>2
<1> HIDE DEF V, Falls
<1> QED
  BY <1>2, <1>3, <1>4, <1>5

Left == [c \in Job |-> MaxJobs - c]

LEMMA Nearer ==
  ASSUME NEW S, Chained(S), NEW c \in Job, Follows(S, c)
  PROVE  rows[c].consumer \in Job /\ Left[rows[c].consumer] < Left[c]
BY BoundAssumption DEF Chained, Job, Left

LEMMA LeftTypes == MaxJobs \in Nat /\ Left \in [Job -> 0..MaxJobs]
BY BoundAssumption DEF Left, Job

(* Who is followed from c ends at a checkpoint that hands on to no other.  *)
LEMMA LastStops ==
  ASSUME NEW S, Chained(S), NEW f, LastOf(S, f), NEW c \in Job
  PROVE  f[c] \in Job /\ ~Follows(S, f[c])
<1> DEFINE Bad == {d \in Job : ~(f[d] \in Job /\ ~Follows(S, f[d]))}
<1>1. ASSUME NEW d \in Bad PROVE \E e \in Bad : Left[e] < Left[d]
  <2>1. f[d] = IF Follows(S, d) THEN f[rows[d].consumer] ELSE d
    BY DEF LastOf
  <2>2. Follows(S, d)
    BY <2>1
  <2>3. rows[d].consumer \in Job /\ Left[rows[d].consumer] < Left[d] /\ f[d] = f[rows[d].consumer]
    BY <2>1, <2>2, Nearer
  <2> QED
    BY <2>3
<1>2. Bad \in SUBSET Job
  OBVIOUS
<1>3. Bad = {}
  <2>1. Falls(Job, MaxJobs, Left, Bad)
    BY <1>1, <1>2, LeftTypes DEF Falls
  <2> HIDE DEF Bad
  <2> QED
    BY <2>1, Descent
<1> QED
  BY <1>3

LEMMA EndStops ==
  ASSUME NEW S, Chained(S), NEW r \in Job
  PROVE  End(S, r) \in Job /\ ~Follows(S, End(S, r))
<1> DEFINE Last == CHOOSE f : f = [c \in Job |-> IF Follows(S, c) THEN f[rows[c].consumer] ELSE c]
<1>1. LastOf(S, Last)
  BY LastExists DEF LastOf
<1>2. End(S, r) = Last[r]
  BY DEF End
<1> HIDE DEF Last
<1> QED
  BY <1>1, <1>2, LastStops

(* What is visited on the way hands on, or is the end, or has taken it.    *)
Passes(S, x, e) == Follows(S, x) \/ x = e \/ x = rows[e].consumer

LEMMA PathPasses ==
  ASSUME NEW S, Chained(S), NEW f, LastOf(S, f), NEW p, PathOf(S, p), NEW c \in Job, NEW x \in p[c]
  PROVE  Passes(S, x, f[c])
<1> DEFINE Bad == {d \in Job : \E y \in p[d] : ~Passes(S, y, f[d])}
<1>1. ASSUME NEW d \in Bad PROVE \E e \in Bad : Left[e] < Left[d]
  <2>1. f[d] = IF Follows(S, d) THEN f[rows[d].consumer] ELSE d
    BY DEF LastOf
  <2>2. p[d] = {d} \cup (IF Follows(S, d) THEN p[rows[d].consumer] ELSE {rows[d].consumer})
    BY DEF PathOf
  <2>3. PICK y \in p[d] : ~Passes(S, y, f[d])
    OBVIOUS
  <2>4. Follows(S, d) /\ y \in p[rows[d].consumer]
    BY <2>1, <2>2, <2>3 DEF Passes
  <2>5. rows[d].consumer \in Job /\ Left[rows[d].consumer] < Left[d] /\ f[d] = f[rows[d].consumer]
    BY <2>1, <2>4, Nearer
  <2> QED
    BY <2>3, <2>4, <2>5
<1>2. Bad \in SUBSET Job
  OBVIOUS
<1>3. Bad = {}
  <2>1. Falls(Job, MaxJobs, Left, Bad)
    BY <1>1, <1>2, LeftTypes DEF Falls
  <2> HIDE DEF Bad
  <2> QED
    BY <2>1, Descent
<1> QED
  BY <1>3

LEMMA VisitedPasses ==
  ASSUME NEW S, Chained(S), NEW r \in Job, NEW x \in Visited(S, r)
  PROVE  Passes(S, x, End(S, r))
<1> DEFINE Last == CHOOSE f : f = [c \in Job |-> IF Follows(S, c) THEN f[rows[c].consumer] ELSE c]
           Path == CHOOSE f : f = [c \in Job |-> {c} \cup (IF Follows(S, c) THEN f[rows[c].consumer]
                                                           ELSE {rows[c].consumer})]
<1>1. LastOf(S, Last) /\ PathOf(S, Path)
  BY LastExists, PathExists DEF LastOf, PathOf
<1>2. End(S, r) = Last[r] /\ Visited(S, r) = Path[r]
  BY DEF End, Visited
<1> HIDE DEF Last, Path
<1> QED
  BY <1>1, <1>2, PathPasses

(* What a lookup includes: the least set that has the open rows and, with  *)
(* a row, the row of its consumer.                                         *)
LEMMA IncludedWithin == ASSUME NEW S PROVE \E f : WithinOf(S, f) /\ Included(S) = f[MaxJobs]
<1> DEFINE Meets(f) == f = [n \in 0..MaxJobs |->
             IF n = 0 THEN Opened(S) ELSE f[n - 1] \cup (S \cap {rows[c].consumer : c \in f[n - 1]})]
           Within == CHOOSE f : Meets(f)
<1>1. WithinOf(S, Within)
  <2>1. \E f : Meets(f)
    BY WithinExists DEF WithinOf
  <2> HIDE DEF Meets
  <2>2. Meets(Within)
    BY <2>1
  <2> USE DEF Meets
  <2> QED
    BY <2>2 DEF WithinOf
<1>2. Included(S) = Within[MaxJobs]
  BY DEF Included
<1> HIDE DEF Within
<1> QED
  BY <1>1, <1>2

Closes(S, Z) == Opened(S) \subseteq Z /\ \A c \in Z : rows[c].consumer \in S => rows[c].consumer \in Z

LEMMA WithinStep ==
  ASSUME NEW S, NEW f, WithinOf(S, f), NEW n \in 0..MaxJobs
  PROVE  /\ f[0] = Opened(S)
         /\ n # 0 => /\ n - 1 \in 0..MaxJobs /\ n - 1 < n
                     /\ f[n] = f[n - 1] \cup (S \cap {rows[c].consumer : c \in f[n - 1]})
<1>1. MaxJobs \in Nat /\ 0 \in 0..MaxJobs
  BY BoundAssumption
<1> QED
  BY <1>1 DEF WithinOf

LEMMA IncludedLeast == ASSUME NEW S, NEW Z, Closes(S, Z) PROVE Included(S) \subseteq Z
<1>1. PICK f : WithinOf(S, f) /\ Included(S) = f[MaxJobs]
  BY IncludedWithin
<1> DEFINE I == 0..MaxJobs
           m == [n \in I |-> n]
           Bad == {n \in I : ~(f[n] \subseteq Z)}
<1>2. ASSUME NEW n \in Bad PROVE \E k \in Bad : m[k] < m[n]
  <2>1. n # 0
    BY <1>1, WithinStep DEF Closes
  <2>2. n - 1 \in I /\ n - 1 < n /\ f[n] = f[n - 1] \cup (S \cap {rows[c].consumer : c \in f[n - 1]})
    BY <1>1, <2>1, WithinStep
  <2>3. n - 1 \in Bad
    BY <2>2 DEF Closes
  <2>4. m[n - 1] < m[n]
    BY <2>2
  <2> QED
    BY <2>3, <2>4
<1>3. Bad = {}
  <2>1. Falls(I, MaxJobs, m, Bad)
    BY <1>2, BoundAssumption DEF Falls
  <2> HIDE DEF Bad, m, I
  <2> QED
    BY <2>1, Descent
<1> QED
  BY <1>1, <1>3, BoundAssumption

LEMMA IncludedSelected == ASSUME NEW S PROVE Included(S) \subseteq S
<1>1. Closes(S, S)
  BY DEF Closes, Opened
<1> QED
  BY <1>1, IncludedLeast

-----------------------------------------------------------------------------
(* What an effect leaves of a stop: its stage and commit once it is saved, *)
(* and the audit of the job it is the end of.                              *)
Detail(j) ==
  /\ \A c \in Job : \/ c = j /\ pc[j] = "save"
                    \/ rows'[c].stage = rows[c].stage /\ rows'[c].target = rows[c].target
  /\ \A c \in Job : rows'[c].status = "open" =>
        \/ rows[c].status = "open" \/ pc[j] = "revive"
        \/ c = j /\ pc[j] = "activate"
  /\ \/ jobs'[j] = jobs[j] \/ jobs[j].status = "started"
     \/ pc[j] \in Failing \cup Succeeding \cup {"idle"}

LEMMA EffectDetail ==
  ASSUME Shape, NEW j \in Job, Effect(j)
  PROVE  Detail(j)
<1>0. /\ rows \in [Job -> RowShape] /\ jobs \in [Job -> JobShape]
      /\ \A c \in Job : rows[c] \in RowShape
  BY DEF Shape
<1>1. CASE UNCHANGED rows
  <2>1. jobs'[j] = jobs[j] \/ jobs[j].status = "started" \/ pc[j] \in Failing \cup Succeeding \cup {"idle"}
    <3>1. ASSUME NEW t \in Named(j), BindSnapshot(j, t), jobs[j].status # "started" PROVE jobs'[j] = jobs[j]
      <4>1. jobs' = [jobs EXCEPT ![j].target = @]
        BY <3>1 DEF BindSnapshot
      <4> QED
        BY <1>0, <4>1 DEF JobShape
    <3>2. UNCHANGED jobs => jobs'[j] = jobs[j]
      OBVIOUS
    <3>3. CASE UNCHANGED jobs
      BY <3>2, <3>3
    <3>4. CASE \E t \in Named(j) : BindSnapshot(j, t)
      BY <3>1, <3>4
    <3>5. CASE pc[j] \in Failing \cup Succeeding \cup {"idle"}
      BY <3>5
    <3>6. Effect(j) => \/ UNCHANGED jobs \/ (\E t \in Named(j) : BindSnapshot(j, t))
                       \/ pc[j] \in Failing \cup Succeeding \cup {"idle"}
      BY DEF Effect, SaveCheckpoint, Consume, Activate, Close
    <3> QED
      BY <3>3, <3>4, <3>5, <3>6
  <2> QED
    BY <1>1, <2>1 DEF Detail
<1>2. CASE ~(UNCHANGED rows)
  <2>1. \/ pc[j] = "save" /\ \E s \in Stage, t \in Named(j) : SaveCheckpoint(j, s, t, RootOf(j))
        \/ pc[j] = "take" /\ Consume(held[j], seen[j], j)
        \/ pc[j] = "revive" /\ Activate(held[j])
        \/ pc[j] = "activate" /\ Activate(j)
        \/ \E c \in Job : Close(c)
    BY <1>2 DEF Effect, InsertJob, BindSnapshot, FinishJob
  <2>2. ASSUME pc[j] = "save", NEW s \in Stage, NEW t \in Named(j), SaveCheckpoint(j, s, t, RootOf(j))
        PROVE  Detail(j)
    BY <1>0, <2>2 DEF SaveCheckpoint, Detail
  <2>3. CASE pc[j] = "take" /\ Consume(held[j], seen[j], j)
    BY <1>0, <2>3 DEF Consume, Detail, RowShape
  <2>4. CASE pc[j] = "revive" /\ Activate(held[j])
    BY <1>0, <2>4 DEF Activate, Detail, RowShape
  <2>5. CASE pc[j] = "activate" /\ Activate(j)
    BY <1>0, <2>5 DEF Activate, Detail, RowShape
  <2>6. ASSUME NEW c \in Job, Close(c) PROVE Detail(j)
    BY <1>0, <2>6 DEF Close, Detail, RowShape
  <2> QED
    BY <2>1, <2>2, <2>3, <2>4, <2>5, <2>6
<1> QED
  BY <1>1, <1>2

(* A job that has ended, or was not started, makes no step of its own.     *)
LEMMA MovingFrom ==
  ASSUME NEW j \in Job, Moving(j)
  PROVE  pc[j] \in AtWork \/ Expire(j)
<1> USE DEF Goto, AtWork, Begun, Handing, Closing
<1>1. CASE \/ Swept(j) \/ ReviveCheck(j) \/ Revive(j) \/ ReviveConfirm(j) \/ Admit(j) \/ Bind(j)
           \/ Prepare(j) \/ WantPush(j) \/ ReadFails(j) \/ Refused(j) \/ RunnerLost(j)
  BY <1>1 DEF Swept, ReviveCheck, Revive, ReviveConfirm, Admit, Bind, Prepare, WantPush, ReadFails, Refused,
              RunnerLost, Reads
<1>2. CASE HandingOver(j)
  BY <1>2 DEF HandingOver, Save, RecordStop, StopCheck, StopFail, SaveFail, ConsumeCheck, Take, Confirm, Match,
              ActivateOwn, OwnOpened, Tidy, Abandon, AbandonFail, Record, CloseQuietly
<1>3. CASE Ending(j)
  BY <1>3 DEF Ending, Finish, FinishCheck, FinishFail, Succeed, Unsucceed, Settle, Unsettle, FailJob, Record
<1> QED
  BY <1>1, <1>2, <1>3 DEF Moving

LEMMA StepFrom ==
  ASSUME NEW j \in Job, Step(j)
  PROVE  /\ Ended(j) => UNCHANGED <<jobs, rows, pc, mode, resumeVars>>
         /\ pc[j] = "idle" => (\E m \in Modes : Start(j, m))
<1>1. Moving(j) \/ Working(j) \/ \E m \in Modes : Start(j, m)
  BY DEF Step, JobStep, Translating, Resuming, Publishing, Moving, Working
<1>2. Working(j) => pc[j] \in AtWork
  BY WorkingFrom DEF AtWork
<1>3. Expire(j) => Ended(j) /\ UNCHANGED <<jobs, rows, pc, mode, resumeVars>>
  BY DEF Expire
<1>4. (\E m \in Modes : Start(j, m)) => pc[j] = "idle"
  BY DEF Start
<1>5. pc[j] \in AtWork => pc[j] \notin {"idle", "handed", "ended", "lost"}
  BY DEF AtWork, Begun, Handing, Closing
<1> QED
  BY <1>1, <1>2, <1>3, <1>4, <1>5, MovingFrom DEF Ended

(* The calls that open a row, and the ones after them.                     *)
Calls(j) ==
  /\ pc'[j] = "revive" => pc[j] \in {"check", "revive"}
  /\ pc'[j] = "check" => \/ pc[j] = "check"
                         \/ pc[j] = "load" /\ \E c \in Found(j) : rows[c].status = "pending"
  /\ pc'[j] = "activate" => \/ pc[j] = "activate"
                            \/ pc[j] = "match" /\ Acknowledged(j) /\ UNCHANGED <<jobs, rows>>
  /\ Continues(j) /\ pc[j] = "activate" => pc'[j] \in {"opened", "lost"}
  /\ Continues(j) /\ pc[j] \in {"opened", "tidy"} => pc'[j] \in {"tidy", "handed", "ended", "lost"}

LEMMA CallsStep == ASSUME Shape, NEW j \in Job, Step(j) PROVE Calls(j)
<1> USE DEF Calls, Goto
<1>0. pc \in [Job -> Stop] /\ verdict[j] \in {"none", "red", "good"}
  BY DEF Shape, Verdict
<1>1. CASE Translating(j)
  BY <1>0, <1>1 DEF Translating, List, Sweep, Swept, DeleteBranch, PinHead
<1>2. CASE Resuming(j)
  BY <1>0, <1>2 DEF Resuming, Load, ReviveCheck, Revive, ReviveConfirm, Admit, Replay, Bind
<1>3. CASE Publishing(j)
  BY <1>0, <1>3 DEF Publishing, StopEarly, Prepare, WantPush, Reviewed, Push, EnsurePr, Report, Capture
<1>4. CASE \/ Save(j) \/ RecordStop(j) \/ StopCheck(j) \/ StopFail(j) \/ SaveFail(j)
           \/ ConsumeCheck(j) \/ Take(j) \/ Confirm(j)
  BY <1>0, <1>4, ErrorLeaves DEF Save, RecordStop, StopCheck, StopFail, SaveFail, ConsumeCheck, Take, Confirm,
                Record, Raise
<1>5. CASE Match(j) \/ ActivateOwn(j) \/ OwnOpened(j)
  BY <1>0, <1>5 DEF Match, ActivateOwn, OwnOpened, Raise, OnError, Begun, Openable
<1>6. CASE Tidy(j) \/ Abandon(j) \/ AbandonFail(j)
  BY <1>0, <1>6 DEF Tidy, Abandon, AbandonFail, Record, CloseQuietly
<1>7. CASE Ending(j)
  BY <1>0, <1>7 DEF Ending, Finish, FinishCheck, FinishFail, Succeed, Unsucceed, Settle, Unsettle, FailJob, Record
<1>8. CASE ReadFails(j) \/ Refused(j)
  BY <1>0, <1>8 DEF ReadFails, Refused, Raise, OnError, Reads, Begun
<1>9. CASE RunnerLost(j) \/ Expire(j)
  BY <1>0, <1>9 DEF RunnerLost, Expire, Ended
<1>10. ASSUME NEW m \in Modes, Start(j, m) PROVE Calls(j)
  BY <1>0, <1>10 DEF Start, First
<1> QED
  BY <1>1, <1>2, <1>3, <1>4, <1>5, <1>6, <1>7, <1>8, <1>9, <1>10 DEF Step, JobStep, HandingOver

-----------------------------------------------------------------------------
(***************************************************************************)
(* One job at a time, and none that continues from the translation PR.     *)
(***************************************************************************)
Alone == MaxRunning = 1 /\ "continue_translation" \notin Modes

(* The jobs ran one after the other; nobody revives a pending row; a job   *)
(* is admitted to a row from before it; an open row of a continuation is   *)
(* the recorded end of its job.                                            *)
Sequence == \A i, j \in Job : i < j /\ pc[j] # "idle" => Ended(i)
Sourced(j) == mode[j] # "continue_translation" /\ pc[j] \notin {"check", "revive"}
Later(j) == held[j] # NoJob => held[j] < j
Stands(j) ==
  Continues(j) =>
    /\ rows[j].status = "open" => Acknowledged(j) /\ pc[j] \in {"opened", "tidy", "handed", "ended", "lost"}
    /\ pc[j] = "activate" => Acknowledged(j)
OrderInv == Sequence /\ \A j \in Job : Sourced(j) /\ Later(j) /\ Stands(j)

LEMMA NobodyRuns ==
  ASSUME MaxRunning = 1, NEW j \in Job, NEW m \in Modes, Start(j, m)
  PROVE  Running = {} /\ \A i \in Job : i < j => pc[i] # "idle"
<1>1. IsFiniteSet(Running)
  <2>1. IsFiniteSet(Job)
    BY FS_Interval, BoundAssumption DEF Job
  <2> QED
    BY <2>1, FS_Subset DEF Running
<1>2. Cardinality(Running) \in Nat /\ Cardinality(Running) < 1
  BY <1>1, FS_CardinalityType DEF Start
<1>3. Running = {}
  BY <1>1, <1>2, FS_EmptySet
<1> QED
  BY <1>3 DEF Start, Job

LEMMA SequenceStep ==
  ASSUME Alone, Shape, Sequence, NEW j \in Job, Step(j), Frame(j)
  PROVE  Sequence'
<1> SUFFICES ASSUME NEW i \in Job, NEW k \in Job, i < k, pc'[k] # "idle" PROVE Ended(i)'
  BY DEF Sequence
<1>1. Ended(i) => Ended(i)'
  BY StepFrom DEF Ended, Frame
<1>2. CASE pc[k] # "idle"
  BY <1>1, <1>2 DEF Sequence
<1>3. CASE pc[k] = "idle"
  <2>1. k = j
    BY <1>3 DEF Frame
  <2>2. PICK m \in Modes : Start(j, m)
    BY <1>3, <2>1, StepFrom
  <2>3. pc[i] \notin AtWork /\ pc[i] # "idle" /\ pc[i] \in Stop
    BY <2>1, <2>2, NobodyRuns DEF Alone, Running, Shape
  <2> QED
    BY <1>1, <2>3 DEF Stop, Ended
<1> QED
  BY <1>2, <1>3

LEMMA SourcedStep ==
  ASSUME Alone, Shape, NEW j \in Job, Way(j), Sourced(j), Step(j), Frame(j)
  PROVE  Sourced(j)'
<1>1. mode'[j] # "continue_translation"
  <2>1. CASE pc[j] = "idle"
    <3>1. PICK m \in Modes : Start(j, m)
      BY <2>1, StepFrom
    <3>2. mode'[j] = m
      BY <3>1 DEF Start, Shape
    <3> QED
      BY <3>2 DEF Alone
  <2>2. CASE pc[j] # "idle"
    BY <2>2 DEF Frame, Sourced
  <2> QED
    BY <2>1, <2>2
<1>2. Calls(j)
  BY CallsStep
<1>3. pc'[j] # "check"
  <2> SUFFICES ASSUME pc'[j] = "check" PROVE FALSE
    OBVIOUS
  <2>1. pc[j] = "load" /\ \E c \in Found(j) : rows[c].status = "pending"
    BY <1>2 DEF Calls, Sourced
  <2>2. Continues(j)
    BY <2>1 DEF Way, Resumed
  <2>3. Found(j) = FoundBySource
    BY <2>2 DEF Continues, Found, Sourced
  <2>4. \A c \in FoundBySource : rows[c].status = "open"
    BY DEF FoundBySource, Lookup
  <2> QED
    BY <2>1, <2>3, <2>4
<1> QED
  BY <1>1, <1>2, <1>3 DEF Sourced, Calls

LEMMA LaterStep ==
  ASSUME WorkInv, Sequence, NEW j \in Job, Later(j), Step(j)
  PROVE  Later(j)'
<1>0. Shape /\ Written(j)
  BY DEF WorkInv
<1>1. CASE UNCHANGED resumeVars
  BY <1>1 DEF Later
<1>2. ASSUME NEW c \in Found(j), pc[j] = "load", held' = [held EXCEPT ![j] = c] PROVE Later(j)'
  <2>1. c \in Job /\ rows[c].status # "absent" /\ Written(c) /\ held'[j] = c
    BY <1>0, <1>2, FoundStored DEF WorkInv, Shape
  <2>2. pc[c] # "idle" /\ c # j
    BY <1>0, <1>2, <2>1 DEF Written, Begun
  <2>3. ~(j < c)
    BY <1>2, <2>1, <2>2 DEF Sequence, Ended
  <2> QED
    BY <2>1, <2>2, <2>3 DEF Later, Job
<1> QED
  BY <1>1, <1>2, ResumeStep DEF Load, Goto

LEMMA StandsStep ==
  ASSUME WorkInv, NEW j \in Job, Sourced(j), NEW i \in Job, Stands(i), Step(j)
  PROVE  Stands(i)'
<1>0. Shape /\ Way(i) /\ Written(i) /\ StoreStep(j) /\ Frame(j) /\ RowsMove(j)
  BY StepEffects DEF WorkInv
<1>1. Detail(j)
  BY <1>0, StepEffect, EffectDetail DEF WorkInv
<1>2. Calls(j)
  BY <1>0, CallsStep
<1> SUFFICES ASSUME Continues(i)'
             PROVE  /\ rows'[i].status = "open" =>
                         Acknowledged(i)' /\ pc'[i] \in {"opened", "tidy", "handed", "ended", "lost"}
                    /\ pc'[i] = "activate" => Acknowledged(i)'
  BY DEF Stands
<1>3. CASE i # j
  <2>1. /\ Continues(i) /\ pc'[i] = pc[i] /\ jobs'[i] = jobs[i]
        /\ rows'[i].stage = rows[i].stage /\ rows'[i].target = rows[i].target
        /\ rows'[i].status = "open" => rows[i].status = "open"
    BY <1>0, <1>1, <1>3 DEF Frame, Continues, StoreStep, Detail, Sourced
  <2> QED
    BY <2>1 DEF Stands, Acknowledged
<1>4. CASE i = j /\ pc[j] = "idle"
  <2>1. rows'[j].status = "absent"
    BY <1>0, <1>4 DEF Written, RowsMove
  <2>2. pc'[j] # "activate"
    BY <1>2, <1>4 DEF Calls
  <2> QED
    BY <1>4, <2>1, <2>2
<1>5. CASE i = j /\ pc[j] # "idle"
  <2>1. Continues(j) /\ Stands(j)
    BY <1>0, <1>5 DEF Frame, Continues
  <2>2. ASSUME pc[j] # "save", Acknowledged(j), jobs'[j] = jobs[j]
        PROVE  Acknowledged(j)'
    BY <1>1, <2>2 DEF Detail, Acknowledged
  <2>3. ASSUME rows'[j].status = "open"
        PROVE  Acknowledged(j)' /\ pc'[j] \in {"opened", "tidy", "handed", "ended", "lost"}
    <3>1. /\ Acknowledged(j)
          /\ pc[j] \in {"opened", "tidy", "handed", "ended", "lost", "activate"}
          /\ pc[j] = "activate" => rows[j].status # "open"
      BY <1>1, <2>1, <2>3 DEF Detail, Sourced, Stands
    <3>2. jobs'[j] = jobs[j]
      BY <1>1, <3>1 DEF Detail, Acknowledged, Failing, Succeeding
    <3>3. pc'[j] \in {"opened", "tidy", "handed", "ended", "lost"}
      <4>1. CASE Ended(j)
        BY <3>1, <4>1, StepFrom DEF Ended
      <4>2. CASE ~Ended(j)
        BY <1>2, <2>1, <3>1, <4>2 DEF Calls, Ended
      <4> QED
        BY <4>1, <4>2
    <3> QED
      BY <2>2, <3>1, <3>2, <3>3
  <2>4. ASSUME pc'[j] = "activate" PROVE Acknowledged(j)'
    <3>1. Acknowledged(j) /\ UNCHANGED <<jobs, rows>>
      BY <1>2, <2>1, <2>4 DEF Calls
    <3> QED
      BY <3>1 DEF Acknowledged
  <2> QED
    BY <1>5, <2>3, <2>4
<1> QED
  BY <1>3, <1>4, <1>5

LEMMA OrderStep ==
  ASSUME Alone, WorkInv, OrderInv, NEW j \in Job, Step(j)
  PROVE  OrderInv'
<1>0. Shape /\ Frame(j) /\ Way(j)
  BY StepEffects DEF WorkInv
<1>1. Sequence'
  BY <1>0, SequenceStep DEF OrderInv
<1>2. ASSUME NEW i \in Job PROVE Sourced(i)' /\ Later(i)'
  <2>1. CASE i = j
    BY <1>0, <2>1, SourcedStep, LaterStep DEF OrderInv
  <2>2. CASE i # j
    BY <1>0, <2>2 DEF OrderInv, Frame, Sourced, Later
  <2> QED
    BY <2>1, <2>2
<1>3. \A i \in Job : Stands(i)'
  BY StandsStep DEF OrderInv
<1> QED
  BY <1>1, <1>2, <1>3 DEF OrderInv

LEMMA OrderInit == Init => OrderInv
BY DEF Init, StoreInit, NoRow, OrderInv, Sequence, Sourced, Later, Stands, Continues

-----------------------------------------------------------------------------
(* A checkpoint that no lookup from the source finds, and that nobody at   *)
(* work can change: it is closed or was never opened, or over age; or the  *)
(* job that took it has not failed, or has left a checkpoint in its place. *)
Stale(c) ==
  LET d == rows[c].consumer
  IN  \/ rows[c].status # "open" \/ ~Live(c)
      \/ d # NoJob /\ (jobs[d].status # "failed" \/ (rows[d].status \in {"open", "closed"} /\ Acknowledged(d)))
Dead(c) == Ended(c) /\ Stale(c) /\ \A j \in Job : pc[j] \in AtWork => held[j] # c

(* A continuation that is at work or has succeeded has only dead           *)
(* checkpoints before it, but for the one that it is at work on.           *)
Clear(j) ==
  held[j] # NoJob /\ (pc[j] \in AtWork \/ Succeeded(j)) =>
    \A c \in Job : c < j /\ (c # held[j] \/ pc[j] \notin AtWork) => Dead(c)

LEMMA ConsumersChain ==
  ASSUME WorkInv, LineageInv, OrderInv
  PROVE  /\ Chained(Stored)
         /\ \A c \in Job : rows[c].consumer # NoJob =>
              Continues(rows[c].consumer) /\ held[rows[c].consumer] = c /\ pc[rows[c].consumer] \in After
<1>1. \A c \in Job : rows[c].consumer \in Job \cup {NoJob} /\ Taken(c) /\ Written(c)
  BY DEF WorkInv, LineageInv, Shape, RowShape
<1>2. ASSUME NEW c \in Job, Follows(Stored, c) PROVE rows[c].consumer \in Job /\ rows[c].consumer > c
  <2>1. rows[c].consumer \in Job /\ rows[c].consumer # NoJob
    BY <1>2, NoJobIsNone DEF Follows, Stored
  <2>2. held[rows[c].consumer] = c /\ c # NoJob /\ Later(rows[c].consumer)
    BY <1>1, <2>1, NoJobIsNone DEF Taken, OrderInv
  <2> QED
    BY <2>1, <2>2 DEF Later, Job
<1> QED
  BY <1>1, <1>2 DEF Chained, Taken, Written

(* The row a continuation saves has the root of the row it was admitted to.*)
LEMMA RootsShared ==
  ASSUME WorkInv, LineageInv, OrderInv, OriginInv, NEW c \in Job, NEW d \in Job, rows[c].consumer = d,
         rows[c].status # "absent", rows[d].status # "absent"
  PROVE  rows[d].root = rows[c].root
<1>1. PICK f : Traced(f)
  BY DEF OriginInv
<1>2. Continues(d) /\ held[d] = c /\ c # NoJob
  BY ConsumersChain, NoJobIsNone
<1>3. f[d] = f[c]
  BY <1>1, <1>2 DEF Traced
<1> QED
  BY <1>1, <1>3 DEF OriginInv

LEMMA StaleNotFound ==
  ASSUME WorkInv, LineageInv, OrderInv, OriginInv, NEW c \in FoundBySource
  PROVE  c \in Job /\ ~Stale(c)
<1>1. /\ c \in Stored /\ rows[c].status = "open" /\ ConsumerStatus(c) = "failed" /\ Live(c)
      /\ \E r \in Roots(Stored) : c = End(Stored, r)
  BY DEF FoundBySource, Lookup
<1>2. c \in Job /\ rows[c].consumer \in Job \cup {NoJob}
  BY <1>1 DEF Stored, WorkInv, Shape, RowShape
<1>3. ~Follows(Stored, c)
  <2>1. PICK r \in Roots(Stored) : c = End(Stored, r)
    BY <1>1
  <2>2. r \in Job
    BY IncludedSelected DEF Roots, Stored
  <2> QED
    BY <2>1, <2>2, ConsumersChain, EndStops
<1>4. ASSUME NEW d \in Job, d = rows[c].consumer, rows[d].status \in {"open", "closed"}, Acknowledged(d)
      PROVE  Follows(Stored, c)
  <2>1. rows[d].root = rows[c].root
    BY <1>1, <1>2, <1>4, RootsShared
  <2> QED
    BY <1>1, <1>4, <2>1 DEF Follows, Stored, Live, Acknowledged
<1>5. rows[c].consumer # NoJob => rows[c].consumer \in Job /\ jobs[rows[c].consumer].status = "failed"
  BY <1>1, <1>2 DEF ConsumerStatus
<1> QED
  BY <1>1, <1>2, <1>3, <1>4, <1>5 DEF Stale

(* What a lookup passes over: an open row on the way to the one that is    *)
(* found has been handed on, and one at the end of another way is taken by *)
(* a job that succeeded.                                                   *)
LEMMA OneFound ==
  ASSUME NEW c \in FoundBySource, NEW d \in Stored, rows[d].status = "open", ConsumerStatus(d) = "failed",
         NEW r \in Roots(Stored), d = End(Stored, r)
  PROVE  d = c
<1> DEFINE resolved == {End(Stored, k) : k \in Roots(Stored)}
           found == {k \in Stored \cap resolved : rows[k].status = "open" /\ ConsumerStatus(k) = "failed"}
<1>1. FoundBySource = found /\ Cardinality(found) = 1
  BY DEF FoundBySource, Lookup
<1>2. IsFiniteSet(found)
  <2>1. IsFiniteSet(Job)
    BY FS_Interval, BoundAssumption DEF Job
  <2>2. found \subseteq Job
    BY DEF Stored
  <2> QED
    BY <2>1, <2>2, FS_Subset
<1>3. d \in found
  OBVIOUS
<1> HIDE DEF found
<1>4. PICK x : found = {x}
  BY <1>1, <1>2, FS_Singleton
<1> QED
  BY <1>1, <1>3, <1>4

LEMMA PassedOver ==
  ASSUME WorkInv, LineageInv, OrderInv, OriginInv, NEW h \in FoundBySource, NEW c \in Job, c # h
  PROVE  Stale(c)
<1> SUFFICES ASSUME ~Stale(c) PROVE FALSE
  OBVIOUS
<1>0. /\ Written(c) /\ rows[c].consumer \in Job \cup {NoJob}
      /\ \A d \in Job : rows[d] \in RowShape
  BY DEF WorkInv, Shape, RowShape
<1>1. /\ c \in Stored /\ rows[c].status = "open" /\ Live(c) /\ ConsumerStatus(c) = "failed"
      /\ rows[c].consumer # NoJob =>
           ~(rows[rows[c].consumer].status \in {"open", "closed"} /\ Acknowledged(rows[c].consumer))
  BY <1>0 DEF Stale, Stored, ConsumerStatus
<1>2. PICK r \in Roots(Stored) : c \in Visited(Stored, r)
  <2>1. Opened(Stored) \subseteq UNION {Visited(Stored, k) : k \in Roots(Stored)}
    BY DEF FoundBySource, Lookup
  <2> QED
    BY <1>1, <2>1 DEF Opened
<1>3. r \in Job /\ Chained(Stored)
  BY IncludedSelected, ConsumersChain DEF Roots, Stored
<1> DEFINE e == End(Stored, r)
<1>4. e \in Job /\ ~Follows(Stored, e) /\ Passes(Stored, c, e)
  BY <1>2, <1>3, EndStops, VisitedPasses
<1>5. ConsumerStatus(e) \in {"failed", "succeeded"}
  BY DEF FoundBySource, Lookup
<1> HIDE DEF e
<1>6. ~Follows(Stored, c)
  <2> SUFFICES ASSUME Follows(Stored, c) PROVE FALSE
    OBVIOUS
  <2>1. rows[c].consumer \in Job /\ rows[c].consumer # NoJob
    BY NoJobIsNone DEF Follows, Stored
  <2>2. rows[rows[c].consumer].status \in {"open", "closed"}
    BY <1>0, <2>1 DEF Follows, Stored, RowShape, RowStatus
  <2> QED
    BY <1>1, <2>1, <2>2 DEF Follows
<1>7. c # e
  BY <1>1, <1>2, OneFound DEF e
<1>8. c = rows[e].consumer /\ c # NoJob
  BY <1>4, <1>6, <1>7, NoJobIsNone DEF Passes
<1>9. Continues(c) /\ jobs[c].status \in {"failed", "succeeded"}
  BY <1>4, <1>5, <1>8, ConsumersChain DEF ConsumerStatus
<1>10. jobs[c].status = "failed"
  <2>1. Passed(c) /\ Settled(c)
    BY DEF WorkInv, LineageInv
  <2> QED
    BY <1>1, <1>9, <2>1 DEF Passed, Settled, Succeeded
<1>11. Acknowledged(c)
  BY <1>1, <1>9 DEF OrderInv, Stands
<1> QED
  BY <1>1, <1>4, <1>8, <1>10, <1>11 DEF Follows

-----------------------------------------------------------------------------
(* What is dead stays dead, whoever moves.                                 *)
LEMMA AdmittedOnce ==
  ASSUME WorkInv, OriginInv, OrderInv, NEW j \in Job, Step(j), held'[j] # held[j]
  PROVE  /\ pc[j] = "load" /\ held[j] = NoJob /\ held'[j] \in FoundBySource
         /\ UNCHANGED <<jobs, rows, mode, expired>>
<1>0. Shape /\ Way(j) /\ Sourced(j)
  BY DEF WorkInv, OrderInv
<1>1. PICK c \in Found(j) : pc[j] = "load" /\ held' = [held EXCEPT ![j] = c] /\ UNCHANGED <<jobs, rows, mode, expired>>
  BY ResumeStep DEF Load, Goto
<1>2. Continues(j)
  BY <1>0, <1>1 DEF Way, Resumed
<1>3. Found(j) = FoundBySource
  BY <1>0, <1>2 DEF Continues, Found, Sourced
<1> QED
  BY <1>0, <1>1, <1>3 DEF OriginInv, Shape

LEMMA AtWorkBefore ==
  ASSUME WorkInv, OriginInv, NEW j \in Job, Step(j), held[j] # NoJob, pc'[j] \in AtWork
  PROVE  pc[j] \in AtWork
<1>1. pc[j] \in Stop /\ pc[j] # "idle"
  BY DEF WorkInv, Shape, OriginInv
<1>2. ~Ended(j)
  <2> SUFFICES ASSUME Ended(j) PROVE FALSE
    OBVIOUS
  <2>1. pc'[j] \in {"handed", "ended", "lost"}
    BY StepFrom DEF Ended
  <2> QED
    BY <2>1 DEF AtWork, Begun, Handing, Closing
<1> QED
  BY <1>1, <1>2 DEF Stop, Ended

LEMMA DeadStep ==
  ASSUME WorkInv, LineageInv, OriginInv, OrderInv, NEW j \in Job, Step(j), NEW c \in Job, Dead(c)
  PROVE  Dead(c)'
<1>0. /\ Shape /\ StoreStep(j) /\ Frame(j) /\ Sourced(j)
      /\ rows[c].consumer \in Job \cup {NoJob}
  BY StepEffects DEF WorkInv, OrderInv, Shape, RowShape
<1>1. Detail(j)
  BY <1>0, StepEffect, EffectDetail DEF WorkInv
<1>2. \A i \in Job : Ended(i) => Ended(i)' /\ jobs'[i] = jobs[i] /\ pc[i] \notin AtWork
  <2>1. \A i \in Job : Ended(i) => pc[i] \notin AtWork
    BY DEF Ended, AtWork, Begun, Handing, Closing
  <2> QED
    BY <1>0, <2>1, StepFrom DEF Ended, Frame, StoreStep
<1>3. ASSUME NEW i \in Job, pc'[i] \in AtWork PROVE held'[i] # c
  <2>1. CASE i # j
    BY <1>0, <1>3, <2>1 DEF Frame, Dead
  <2>2. CASE i = j /\ held'[j] # held[j]
    BY <2>2, AdmittedOnce, StaleNotFound DEF Dead
  <2>3. CASE i = j /\ held'[j] = held[j]
    BY <1>3, <2>3, AtWorkBefore, NoJobIsNone DEF Dead
  <2> QED
    BY <2>1, <2>2, <2>3
<1>4. /\ rows[c].status # "open" => rows'[c].status # "open"
      /\ rows'[c].root = rows[c].root /\ rows'[c].consumer = rows[c].consumer
  <2>1. pc[j] \in {"save", "take", "activate"} => ~Ended(j)
    BY DEF Ended
  <2>2. ~RowSaved(j, c)
    BY <2>1 DEF RowSaved, Dead
  <2>3. ~RowTaken(j, c)
    BY DEF RowTaken, Dead, AtWork, Handing
  <2>4. RowKept(c)
    BY <1>0, <2>2, <2>3 DEF StoreStep
  <2>5. rows[c].status # "open" => rows'[c].status # "open"
    BY <1>1, <2>1, <1>0 DEF Detail, Dead, Sourced
  <2> QED
    BY <2>4, <2>5 DEF RowKept
<1>5. ASSUME NEW d \in Job, d = rows[c].consumer, d # NoJob
      PROVE  /\ jobs'[d] = jobs[d]
             /\ rows[d].status \in {"open", "closed"} /\ Acknowledged(d) =>
                  rows'[d].status \in {"open", "closed"} /\ Acknowledged(d)'
  <2>1. held[d] = c /\ pc[d] \in After
    BY <1>5, ConsumersChain
  <2>2. Ended(d)
    <3>1. pc[d] \notin AtWork
      BY <2>1 DEF Dead
    <3> QED
      BY <2>1, <3>1 DEF Ended, After, AtWork, Begun, Handing, Closing
  <2>3. jobs'[d] = jobs[d]
    BY <1>2, <2>2
  <2>4. ~(d = j /\ pc[j] = "save")
    BY <2>2 DEF Ended
  <2>5. rows'[d].stage = rows[d].stage /\ rows'[d].target = rows[d].target /\ ~RowSaved(j, d)
    BY <1>1, <2>4 DEF Detail, RowSaved
  <2>6. rows[d].status \in {"open", "closed"} => rows'[d].status \in {"open", "closed"}
    <3>1. rows'[d].status \in RowStatus /\ (RowKept(d) \/ RowTaken(j, d))
      BY <1>0, <2>5 DEF StoreStep, RowShape
    <3> QED
      BY <3>1 DEF RowKept, RowTaken, RowStatus
  <2> QED
    BY <2>3, <2>5, <2>6 DEF Acknowledged
<1>6. Stale(c)'
  <2>1. ~Live(c) => ~Live(c)'
    BY <1>4, AgeStep DEF Live
  <2> QED
    BY <1>0, <1>4, <1>5, <2>1 DEF Dead, Stale
<1> QED
  BY <1>2, <1>3, <1>6 DEF Dead

(* A job that was admitted, or goes on, or has just ended in success.      *)
LEMMA ClearMover ==
  ASSUME Alone, WorkInv, LineageInv, OriginInv, OrderInv, NEW j \in Job, Clear(j), Step(j), OrderInv', WorkInv',
         held'[j] # NoJob, pc'[j] \in AtWork \/ Succeeded(j)', NEW c \in Job, c < j,
         c # held'[j] \/ pc'[j] \notin AtWork
  PROVE  Dead(c)'
<1>0. Shape /\ StoreStep(j) /\ Frame(j) /\ Settled(j)'
  BY StepEffects DEF WorkInv
<1>1. pc'[j] # "idle" /\ Ended(c)'
  <2>1. pc'[j] # "idle"
    BY DEF OriginInv, Working, WorkInv, Way, Settled, Succeeded, AtWork, Begun, Handing, Closing
  <2> QED
    BY <2>1 DEF OrderInv, Sequence
<1>2. ASSUME NEW i \in Job, i # j PROVE pc'[i] \notin AtWork \/ pc'[j] \notin AtWork
  <2>1. i < j \/ j < i
    BY <1>2 DEF Job
  <2>2. Ended(i)' \/ Ended(j)' \/ pc'[i] = "idle"
    BY <1>1, <2>1 DEF OrderInv, Sequence
  <2> QED
    BY <2>2 DEF Ended, AtWork, Begun, Handing, Closing
<1>3. CASE held'[j] # held[j]
  <2>1. /\ held[j] = NoJob /\ held'[j] \in FoundBySource
        /\ UNCHANGED <<jobs, rows, mode, expired>> /\ pc[j] = "load"
    BY <1>3, AdmittedOnce
  <2>2. pc'[j] \in AtWork
    BY <2>1 DEF WorkInv, Way, Succeeded, Continues, Begun
  <2>3. c # held'[j] /\ Stale(c)
    BY <2>1, <2>2, PassedOver
  <2>4. Stale(c)'
    BY <2>1, <2>3 DEF Stale, Live, Acknowledged
  <2> QED
    BY <1>1, <1>2, <2>2, <2>3, <2>4 DEF Dead
<1>4. CASE held'[j] = held[j]
  <2>1. pc[j] \in AtWork \/ Succeeded(j)
    <3>1. CASE pc'[j] \in AtWork
      BY <1>4, <3>1, AtWorkBefore
    <3>2. CASE Succeeded(j)' /\ pc[j] \notin AtWork
      <4>1. pc[j] # "idle" /\ pc[j] \in Stop
        BY <1>0, <1>4 DEF OriginInv, Shape
      <4>2. Ended(j)
        BY <3>2, <4>1 DEF Stop, Ended
      <4>3. UNCHANGED <<jobs, mode>>
        BY <4>2, StepFrom
      <4> QED
        BY <3>2, <4>3 DEF Succeeded, Continues
    <3> QED
      BY <3>1, <3>2
  <2>2. CASE c # held[j] \/ pc[j] \notin AtWork
    <3>1. Dead(c)
      BY <1>4, <2>1, <2>2 DEF Clear
    <3> QED
      BY <3>1, DeadStep
  <2>3. CASE c = held[j] /\ pc[j] \in AtWork
    <3>1. pc'[j] \notin AtWork /\ Succeeded(j)'
      BY <1>4, <2>3
    <3>2. rows'[c].consumer = j /\ jobs'[j].status = "succeeded" /\ j # NoJob
      BY <1>0, <1>4, <2>3, <3>1, NoJobIsNone DEF Settled, Succeeded
    <3>3. Stale(c)'
      BY <3>2 DEF Stale
    <3>4. ASSUME NEW i \in Job, pc'[i] \in AtWork PROVE FALSE
      <4>1. i # j /\ (i < j \/ j < i)
        BY <3>1, <3>4 DEF Job
      <4>2. ~Ended(i)
        BY <3>4, <4>1, <1>0 DEF Ended, Frame, AtWork, Begun, Handing, Closing
      <4>3. ~Ended(j) /\ pc[i] # "idle" /\ pc[j] # "idle"
        BY <2>3, <3>4, <4>1, <1>0 DEF Ended, Frame, AtWork, Begun, Handing, Closing
      <4> QED
        BY <4>1, <4>2, <4>3 DEF OrderInv, Sequence
    <3> QED
      BY <1>1, <3>3, <3>4 DEF Dead
  <2> QED
    BY <2>2, <2>3
<1> QED
  BY <1>3, <1>4

LEMMA ClearStep ==
  ASSUME Alone, WorkInv, LineageInv, OriginInv, OrderInv, NEW j \in Job, Step(j), OrderInv', WorkInv',
         NEW i \in Job, Clear(i), Clear(j)
  PROVE  Clear(i)'
<1>0. Frame(j) /\ StoreStep(j)
  BY StepEffects
<1>1. CASE i = j
  <2> SUFFICES ASSUME held'[j] # NoJob, pc'[j] \in AtWork \/ Succeeded(j)', NEW c \in Job, c < j,
                      c # held'[j] \/ pc'[j] \notin AtWork
               PROVE  Dead(c)'
    BY <1>1 DEF Clear
  <2> QED
    BY ClearMover
<1>2. CASE i # j
  <2>1. /\ held'[i] = held[i] /\ pc'[i] = pc[i] /\ jobs'[i] = jobs[i] /\ mode'[i] = mode[i]
    BY <1>0, <1>2 DEF Frame, StoreStep
  <2>2. Succeeded(i)' <=> Succeeded(i)
    BY <2>1 DEF Succeeded, Continues
  <2> QED
    BY <2>1, <2>2, DeadStep DEF Clear
<1> QED
  BY <1>1, <1>2

SealInv == OrderInv /\ \A j \in Job : Clear(j)

LEMMA SealQuiet ==
  ASSUME SealInv, OutsidePush \/ UNCHANGED vars
  PROVE  SealInv'
<1>1. UNCHANGED <<jobs, rows, expired, pc, mode, held>>
  BY DEF OutsidePush, vars
<1>2. OrderInv'
  BY <1>1 DEF SealInv, OrderInv, Sequence, Sourced, Later, Stands, Continues, Acknowledged, Ended
<1>3. \A c \in Job : Dead(c) => Dead(c)'
  BY <1>1 DEF Dead, Stale, Live, Acknowledged, Ended
<1>4. \A j \in Job : Clear(j)'
  BY <1>1, <1>3 DEF SealInv, Clear, Succeeded, Continues
<1> QED
  BY <1>2, <1>4 DEF SealInv

LEMMA SealHolds ==
  ASSUME WorkInv, LineageInv, OriginInv, SealInv
  PROVE  SuccessSeals
<1> SUFFICES ASSUME Quiet, NEW k \in Job, Succeeded(k), NEW c \in FoundBySource PROVE c > k
  BY DEF SuccessSeals
<1>1. c \in Job /\ ~Stale(c) /\ rows[c].status = "open"
  BY StaleNotFound DEF SealInv, FoundBySource, Lookup
<1>2. Settled(k) /\ Passed(k) /\ Clear(k)
  BY DEF WorkInv, LineageInv, SealInv
<1>3. held[k] # NoJob /\ pc[k] \notin AtWork
  BY <1>2, NoJobIsNone DEF Settled, Quiet, Running
<1>4. ~(c < k)
  BY <1>1, <1>2, <1>3 DEF Clear, Dead
<1>5. c # k
  BY <1>1, <1>2 DEF Passed, Settled, Succeeded
<1> QED
  BY <1>1, <1>4, <1>5 DEF Job

(* Once a continuation has succeeded and nobody is at work, no checkpoint  *)
(* from before it can be resumed from the source pull request, for any     *)
(* number of jobs, commits, faults and pushes from outside, when the jobs  *)
(* ran one after the other and none was asked for on the translation PR:   *)
(* the two cases in which a job at work holds what a lookup passed over.   *)
THEOREM SuccessSealed ==
  ASSUME MaxRunning = 1, "continue_translation" \notin Modes
  PROVE  Spec => []SuccessSeals
<1>1. ASSUME Init PROVE LineageInv /\ OriginInv /\ SealInv
  <2>1. \A j \in Job : Clear(j)
    BY <1>1 DEF Init, Clear
  <2> QED
    BY <1>1, <2>1, LineageInit, OriginInit, OrderInit DEF SealInv
<1>2. ASSUME WorkInv, WorkInv', LineageInv, OriginInv, SealInv, [Next]_vars
      PROVE  LineageInv' /\ OriginInv' /\ SealInv'
  <2>1. ASSUME NEW j \in Job, Step(j) PROVE LineageInv' /\ OriginInv' /\ SealInv'
    <3>1. LineageInv' /\ OriginInv'
      BY <1>2, <2>1, LineageStep, OriginStep
    <3>2. OrderInv'
      BY <1>2, <2>1, OrderStep DEF SealInv, Alone
    <3>3. \A i \in Job : Clear(i)'
      BY <1>2, <2>1, <3>2, ClearStep DEF SealInv, Alone
    <3> QED
      BY <3>1, <3>2, <3>3 DEF SealInv
  <2>2. ASSUME OutsidePush \/ UNCHANGED vars PROVE LineageInv' /\ OriginInv' /\ SealInv'
    <3>1. LineageInv' /\ SealInv'
      BY <1>2, <2>2, LineageQuiet, SealQuiet
    <3>2. UNCHANGED <<rows, pc, mode, held>>
      BY <2>2 DEF OutsidePush, vars
    <3>3. OriginInv'
      BY <1>2, <3>2 DEF OriginInv, Traced, Continues
    <3> QED
      BY <3>1, <3>3
  <2> QED
    BY <1>2, <2>1, <2>2, NextStep
<1>3. WorkInv /\ LineageInv /\ OriginInv /\ SealInv => SuccessSeals
  BY SealHolds
<1> QED
  BY <1>1, <1>2, <1>3, WorkInvariant, PTL DEF Spec

-----------------------------------------------------------------------------
(***************************************************************************)
(* A stop stays resumable.  The lookup finds one row if the open rows are  *)
(* on chains of consumers that all end at it, or where a success or a      *)
(* closed row ends them: such a row is Straight.  A stop that was handed   *)
(* over has an heir that is Straight, or that somebody is at work on.      *)
(***************************************************************************)

(* A row that is added at the nth turn is later than n, so the last turn   *)
(* adds none.                                                              *)
Rising(S) == S \subseteq Job /\ \A c \in S : rows[c].consumer \in Job => rows[c].consumer > c

LEMMA WithinRises ==
  ASSUME NEW S, Rising(S), NEW f, WithinOf(S, f), NEW n \in 0..MaxJobs
  PROVE  f[n] \subseteq S /\ \A c \in f[n] : c > n \/ (n # 0 /\ c \in f[n - 1])
<1> DEFINE I == 0..MaxJobs
           m == [k \in I |-> k]
           Good(k) == f[k] \subseteq S /\ \A c \in f[k] : c > k \/ (k # 0 /\ c \in f[k - 1])
           Bad == {k \in I : ~Good(k)}
<1>1. ASSUME NEW k \in Bad PROVE \E l \in Bad : m[l] < m[k]
  <2>1. f[0] = Opened(S)
    BY WithinStep, BoundAssumption
  <2>2. k # 0
    <3> SUFFICES ASSUME k = 0 PROVE FALSE
      OBVIOUS
    <3>1. Opened(S) \subseteq S /\ \A c \in Opened(S) : c > 0
      BY DEF Opened, Rising, Job
    <3>2. Good(0)
      BY <2>1, <3>1
    <3> QED
      BY <3>2
  <2>3. k - 1 \in I /\ k - 1 < k /\ f[k] = f[k - 1] \cup (S \cap {rows[c].consumer : c \in f[k - 1]})
    BY <2>2, WithinStep
  <2>4. ASSUME Good(k - 1) PROVE FALSE
    <3>1. f[k] \subseteq S
      BY <2>3, <2>4
    <3>2. ASSUME NEW c \in f[k], c \notin f[k - 1] PROVE c > k
      <4>1. PICK b \in f[k - 1] : c = rows[b].consumer /\ c \in S
        BY <2>3, <3>2
      <4>2. b \in S /\ c > b /\ b \in Nat /\ c \in Nat
        <5>1. b \in S /\ b \in Job /\ c \in Job
          BY <2>4, <4>1 DEF Rising
        <5> QED
          BY <4>1, <5>1 DEF Rising, Job
      <4>3. b > k - 1
        <5>1. b > k - 1 \/ (k - 1 # 0 /\ b \in f[(k - 1) - 1])
          BY <2>4, <4>1
        <5>2. ASSUME k - 1 # 0, b \in f[(k - 1) - 1] PROVE FALSE
          <6>1. f[k - 1] = f[(k - 1) - 1] \cup (S \cap {rows[d].consumer : d \in f[(k - 1) - 1]})
            BY <2>3, <5>2, WithinStep
          <6> QED
            BY <3>2, <4>1, <5>2, <6>1
        <5> QED
          BY <5>1, <5>2
      <4> QED
        BY <4>2, <4>3
    <3>3. Good(k)
      BY <2>2, <3>1, <3>2
    <3> QED
      BY <3>3
  <2>5. m[k - 1] < m[k]
    BY <2>3
  <2> QED
    BY <2>3, <2>4, <2>5
<1>2. Bad = {}
  <2>1. Falls(I, MaxJobs, m, Bad)
    BY <1>1, BoundAssumption DEF Falls
  <2> HIDE DEF Bad, m, I
  <2> QED
    BY <2>1, Descent
<1> QED
  BY <1>2

LEMMA WithinGrows ==
  ASSUME NEW S, NEW f, WithinOf(S, f), NEW n \in 0..MaxJobs
  PROVE  f[n] \subseteq f[MaxJobs]
<1> DEFINE I == 0..MaxJobs
           m == [k \in I |-> MaxJobs - k]
           Bad == {k \in I : ~(f[k] \subseteq f[MaxJobs])}
<1>0. MaxJobs \in Nat
  BY BoundAssumption
<1>1. ASSUME NEW k \in Bad PROVE \E l \in Bad : m[l] < m[k]
  <2>1. k # MaxJobs
    OBVIOUS
  <2>2. k + 1 \in I /\ (k + 1) - 1 = k /\ k + 1 # 0
    BY <1>0, <2>1
  <2>3. f[k] \subseteq f[k + 1]
    BY <2>2, WithinStep
  <2>4. k + 1 \in Bad
    BY <2>2, <2>3
  <2>5. m[k + 1] < m[k]
    BY <1>0, <2>2
  <2> QED
    BY <2>4, <2>5
<1>2. m \in [I -> 0..MaxJobs]
  BY <1>0
<1>3. Bad = {}
  <2>1. Falls(I, MaxJobs, m, Bad)
    BY <1>0, <1>1, <1>2 DEF Falls
  <2> HIDE DEF Bad, m, I
  <2> QED
    BY <2>1, Descent
<1> QED
  BY <1>3

LEMMA IncludedCloses == ASSUME NEW S, Rising(S) PROVE Closes(S, Included(S))
<1>0. MaxJobs \in Nat /\ MaxJobs \in 0..MaxJobs /\ 0 \in 0..MaxJobs
  BY BoundAssumption
<1>1. PICK f : WithinOf(S, f) /\ Included(S) = f[MaxJobs]
  BY IncludedWithin
<1>2. Opened(S) \subseteq Included(S)
  BY <1>0, <1>1, WithinStep, WithinGrows
<1>3. ASSUME NEW c \in Included(S), rows[c].consumer \in S PROVE rows[c].consumer \in Included(S)
  <2>1. c \in f[MaxJobs] /\ c \in Job
    BY <1>1, IncludedSelected DEF Rising
  <2>2. ~(c > MaxJobs)
    BY <1>0, <2>1 DEF Job
  <2>3. MaxJobs # 0 /\ c \in f[MaxJobs - 1]
    BY <1>0, <1>1, <2>1, <2>2, WithinRises
  <2>4. f[MaxJobs] = f[MaxJobs - 1] \cup (S \cap {rows[b].consumer : b \in f[MaxJobs - 1]})
    BY <1>0, <1>1, <2>3, WithinStep
  <2> QED
    BY <1>1, <1>3, <2>3, <2>4
<1> QED
  BY <1>2, <1>3 DEF Closes

LEMMA IncludedFrom ==
  ASSUME NEW S, Rising(S), NEW c \in Included(S), c \notin Opened(S)
  PROVE  \E p \in Included(S) : rows[p].consumer = c
<1> DEFINE Z == Opened(S) \cup {d \in Included(S) : \E p \in Included(S) : rows[p].consumer = d}
<1>1. Closes(S, Z)
  BY IncludedCloses DEF Closes
<1>2. c \in Z
  <2> HIDE DEF Z
  <2> QED
    BY <1>1, IncludedLeast
<1> QED
  BY <1>2

-----------------------------------------------------------------------------
(* A row that a continuation has taken over is the recorded end of its job.*)
Consumed(c) == Continues(c) /\ rows[c].consumer # NoJob => rows[c].status \in {"open", "closed"} /\ Acknowledged(c)

Ground == WorkInv /\ LineageInv /\ OriginInv /\ OrderInv /\ \A c \in Job : Consumed(c)

LEMMA GroundFacts ==
  ASSUME Ground
  PROVE  /\ Chained(Stored) /\ Rising(Stored) /\ Stored \subseteq Job
         /\ \A c \in Job : rows[c] \in RowShape /\ rows[c].consumer \in Job \cup {NoJob}
         /\ \A c \in Job : rows[c].consumer # NoJob =>
              /\ rows[c].consumer \in Job /\ rows[c].consumer > c /\ rows[c].status # "absent"
              /\ Continues(rows[c].consumer) /\ held[rows[c].consumer] = c /\ pc[rows[c].consumer] \in After
<1>1. Chained(Stored) /\ Stored \subseteq Job
  BY ConsumersChain DEF Ground, Stored
<1>2. \A c \in Job : rows[c] \in RowShape /\ rows[c].consumer \in Job \cup {NoJob}
  BY DEF Ground, WorkInv, Shape, RowShape
<1>3. ASSUME NEW c \in Job, rows[c].consumer # NoJob
      PROVE  /\ rows[c].consumer \in Job /\ rows[c].consumer > c /\ rows[c].status # "absent"
             /\ Continues(rows[c].consumer) /\ held[rows[c].consumer] = c /\ pc[rows[c].consumer] \in After
  <2>1. rows[c].consumer \in Job /\ Taken(c) /\ c # NoJob
    BY <1>2, <1>3, NoJobIsNone DEF Ground, LineageInv
  <2>2. held[rows[c].consumer] = c /\ Later(rows[c].consumer)
    BY <1>3, <2>1 DEF Taken, Ground, OrderInv
  <2> QED
    BY <1>3, <2>1, <2>2, ConsumersChain DEF Later, Taken, Job, Ground
<1>4. Rising(Stored)
  BY <1>1, <1>3, NoJobIsNone DEF Rising
<1> QED
  BY <1>1, <1>2, <1>3, <1>4

LEMMA IncludedLive ==
  ASSUME Ground, NEW c \in Included(Stored)
  PROVE  c \in Job /\ c \in Stored /\ rows[c].status # "absent" /\ Live(c)
<1> DEFINE Z == {d \in Stored : Live(d)}
<1>1. ASSUME NEW d \in Z, rows[d].consumer \in Stored PROVE rows[d].consumer \in Z
  <2>1. rows[rows[d].consumer].root = rows[d].root
    BY <1>1, RootsShared DEF Stored, Ground
  <2> QED
    BY <1>1, <2>1 DEF Live
<1>2. Closes(Stored, Z)
  BY <1>1 DEF Closes, Opened
<1>3. c \in Z
  <2> HIDE DEF Z
  <2> QED
    BY <1>2, IncludedLeast
<1> QED
  BY <1>3 DEF Stored

LEMMA EndUnfolds ==
  ASSUME NEW S, Chained(S), NEW c \in Job
  PROVE  /\ End(S, c) = IF Follows(S, c) THEN End(S, rows[c].consumer) ELSE c
         /\ Visited(S, c) = {c} \cup (IF Follows(S, c) THEN Visited(S, rows[c].consumer) ELSE {rows[c].consumer})
<1> DEFINE Last == CHOOSE f : f = [d \in Job |-> IF Follows(S, d) THEN f[rows[d].consumer] ELSE d]
           Path == CHOOSE f : f = [d \in Job |-> {d} \cup (IF Follows(S, d) THEN f[rows[d].consumer]
                                                           ELSE {rows[d].consumer})]
<1>1. LastOf(S, Last) /\ PathOf(S, Path)
  BY LastExists, PathExists DEF LastOf, PathOf
<1>2. \A d : End(S, d) = Last[d] /\ Visited(S, d) = Path[d]
  BY DEF End, Visited
<1> HIDE DEF Last, Path
<1>3. /\ Last[c] = IF Follows(S, c) THEN Last[rows[c].consumer] ELSE c
      /\ Path[c] = {c} \cup (IF Follows(S, c) THEN Path[rows[c].consumer] ELSE {rows[c].consumer})
  BY <1>1 DEF LastOf, PathOf
<1> QED
  BY <1>2, <1>3

LEMMA EndInside ==
  ASSUME NEW S, Chained(S), S \subseteq Job, NEW Z \in SUBSET S, Closes(S, Z), NEW r \in Z
  PROVE  End(S, r) \in Z
<1> DEFINE Bad == {c \in Z : End(S, c) \notin Z}
<1>1. ASSUME NEW c \in Bad PROVE \E d \in Bad : Left[d] < Left[c]
  <2>1. c \in Job /\ Follows(S, c) /\ End(S, c) = End(S, rows[c].consumer)
    BY EndUnfolds
  <2>2. rows[c].consumer \in Z
    BY <2>1 DEF Follows, Closes
  <2> QED
    BY <2>1, <2>2, Nearer
<1>2. Bad = {}
  <2>1. Falls(Job, MaxJobs, Left, Bad)
    BY <1>1, LeftTypes DEF Falls
  <2> HIDE DEF Bad
  <2> QED
    BY <2>1, Descent
<1> QED
  BY <1>2

(* A row that hands on, or is open, and is the recorded end of its job is  *)
(* reached from a root: whoever it was taken from hands on to it.          *)
Anchored(c) ==
  /\ Acknowledged(c)
  /\ rows[c].status = "open" \/ (rows[c].status = "closed" /\ rows[c].consumer # NoJob)
Recorded == \A c \in Opened(Stored) : Acknowledged(c)

LEMMA ConsumedAnchored ==
  ASSUME Ground, Recorded, NEW c \in Included(Stored), rows[c].consumer # NoJob \/ c \in Opened(Stored)
  PROVE  Anchored(c)
<1>1. c \in Job /\ rows[c].status # "absent"
  BY IncludedLive
<1>2. CASE c \in Opened(Stored)
  BY <1>2 DEF Recorded, Anchored, Opened
<1>3. CASE c \notin Opened(Stored)
  <2>1. PICK p \in Included(Stored) : rows[p].consumer = c
    BY <1>3, GroundFacts, IncludedFrom
  <2>2. Continues(c)
    BY <1>1, <2>1, IncludedLive, GroundFacts, NoJobIsNone
  <2> QED
    BY <1>1, <1>3, <2>2 DEF Ground, Consumed, Anchored
<1> QED
  BY <1>2, <1>3

LEMMA AnchoredFollowed ==
  ASSUME Ground, NEW c \in Included(Stored), Anchored(c), NEW p \in Included(Stored), rows[p].consumer = c
  PROVE  Follows(Stored, p)
BY IncludedLive DEF Follows, Anchored, Acknowledged

Reaches(r, c) == End(Stored, r) = End(Stored, c) /\ Visited(Stored, c) \subseteq Visited(Stored, r)

LEMMA Rooted ==
  ASSUME Ground, Recorded, NEW y \in Included(Stored), Anchored(y)
  PROVE  \E r \in Roots(Stored) : Reaches(r, y)
<1> DEFINE Bad == {c \in Job : c \in Included(Stored) /\ Anchored(c) /\ ~\E r \in Roots(Stored) : Reaches(r, c)}
           m == [c \in Job |-> c]
<1>1. ASSUME NEW c \in Bad PROVE \E d \in Bad : m[d] < m[c]
  <2>1. c \notin Roots(Stored)
    BY DEF Reaches
  <2>2. PICK p \in Included(Stored) : rows[p].consumer = c
    BY <2>1 DEF Roots, Anchored
  <2>3. p \in Job /\ p < c /\ rows[p].consumer # NoJob
    BY <2>2, IncludedLive, GroundFacts, NoJobIsNone DEF Job
  <2>4. Anchored(p) /\ Follows(Stored, p)
    BY <2>2, <2>3, ConsumedAnchored, AnchoredFollowed
  <2>5. End(Stored, p) = End(Stored, c) /\ Visited(Stored, c) \subseteq Visited(Stored, p)
    BY <2>2, <2>3, <2>4, GroundFacts, EndUnfolds
  <2>6. p \in Bad
    BY <2>3, <2>4, <2>5 DEF Reaches
  <2> QED
    BY <2>3, <2>6
<1>2. Bad = {}
  <2>1. Falls(Job, MaxJobs, m, Bad)
    BY <1>1, BoundAssumption DEF Falls, Job
  <2> HIDE DEF Bad, m
  <2> QED
    BY <2>1, Descent
<1> QED
  BY <1>2, IncludedLive

-----------------------------------------------------------------------------
(* A lookup finds h and no other, but for what k is about to make of it:   *)
(* every open row is the recorded end of its job, and on a set that is     *)
(* closed under consumers each row but h hands on, or was taken by a       *)
(* continuation that succeeded, or is not open and its consumer failed.    *)
Fits(c, h, k) ==
  \/ c = h /\ (rows[h].consumer = k \/ (~Follows(Stored, h) /\ ConsumerStatus(h) = "failed"))
  \/ c # h /\ \/ c = k /\ rows[h].consumer = k
              \/ Follows(Stored, c) \/ ConsumerStatus(c) = "succeeded"
              \/ ConsumerStatus(c) = "failed" /\ rows[c].status # "open"
Covers(Y, h, k) == Y \in SUBSET Stored /\ Closes(Stored, Y) /\ \A c \in Y : Fits(c, h, k)
Straight(h, k) == h \in Opened(Stored) /\ Recorded /\ \E Y : Covers(Y, h, k)

LEMMA UnfollowedFits ==
  ASSUME NEW c, NEW h, c # NoJob, Fits(c, h, NoJob), ~Follows(Stored, c)
  PROVE  /\ ConsumerStatus(c) \in {"failed", "succeeded"}
         /\ c = h => ConsumerStatus(c) = "failed"
         /\ rows[c].status = "open" /\ ConsumerStatus(c) = "failed" => c = h
BY DEF Fits, ConsumerStatus

LEMMA StraightFound ==
  ASSUME Ground, NEW h, Straight(h, NoJob)
  PROVE  FoundBySource = {h}
<1>1. PICK Y : Covers(Y, h, NoJob)
  BY DEF Straight
<1>2. Chained(Stored) /\ Rising(Stored) /\ Stored \subseteq Job
  BY GroundFacts
<1>3. Included(Stored) \subseteq Y
  BY <1>1, IncludedLeast DEF Covers
<1>4. ASSUME NEW r \in Roots(Stored) PROVE Live(r) /\ Acknowledged(r)
  <2>1. r \in Included(Stored) /\ ~\E p \in Included(Stored) : rows[p].consumer = r
    BY DEF Roots
  <2>2. r \in Opened(Stored)
    BY <1>2, <2>1, IncludedFrom
  <2> QED
    BY <2>2 DEF Straight, Recorded, Opened
<1>5. ASSUME NEW r \in Roots(Stored)
      PROVE  End(Stored, r) \in Job /\ End(Stored, r) \in Stored /\ ~Follows(Stored, End(Stored, r))
             /\ Fits(End(Stored, r), h, NoJob)
  <2>1. r \in Y /\ r \in Job /\ Y \in SUBSET Stored /\ Closes(Stored, Y)
    BY <1>1, <1>2, <1>3 DEF Covers, Roots
  <2>2. End(Stored, r) \in Y
    BY <1>2, <2>1, EndInside
  <2> QED
    BY <1>1, <1>2, <2>1, <2>2, EndStops DEF Covers
<1>6. /\ h \in Opened(Stored) /\ h \in Included(Stored) /\ h \in Job /\ Anchored(h) /\ Fits(h, h, NoJob)
      /\ rows[h].status = "open" /\ Live(h) /\ Acknowledged(h) /\ h \in Stored
  <2>1. h \in Opened(Stored) /\ Recorded
    BY DEF Straight
  <2>2. h \in Included(Stored)
    BY <1>2, <2>1, IncludedCloses DEF Closes
  <2> QED
    BY <1>1, <1>2, <1>3, <2>1, <2>2 DEF Covers, Opened, Recorded, Anchored
<1>7. ~Follows(Stored, h) /\ ConsumerStatus(h) = "failed"
  BY <1>6, NoJobIsNone DEF Fits, Follows, ConsumerStatus, Stored
<1> DEFINE resolved == {End(Stored, c) : c \in Roots(Stored)}
           found == {c \in Stored \cap resolved : rows[c].status = "open" /\ ConsumerStatus(c) = "failed"}
<1>8. h \in resolved
  <2>1. PICK r \in Roots(Stored) : Reaches(r, h)
    BY <1>6, Rooted DEF Straight
  <2>2. End(Stored, h) = h
    BY <1>2, <1>6, <1>7, EndUnfolds
  <2> QED
    BY <2>1, <2>2 DEF Reaches
<1>9. \A c \in resolved : ConsumerStatus(c) \in {"failed", "succeeded"}
  BY <1>5, UnfollowedFits, NoJobIsNone
<1>10. found = {h}
  <2>1. ASSUME NEW c \in found PROVE c = h
    BY <1>5, UnfollowedFits, NoJobIsNone
  <2> QED
    BY <1>6, <1>7, <1>8, <2>1
<1>11. Opened(Stored) \subseteq UNION {Visited(Stored, c) : c \in Roots(Stored)}
  <2> SUFFICES ASSUME NEW c \in Opened(Stored) PROVE \E r \in Roots(Stored) : c \in Visited(Stored, r)
    OBVIOUS
  <2>1. c \in Included(Stored) /\ c \in Job
    BY <1>2, IncludedCloses DEF Closes, Opened
  <2>2. PICK r \in Roots(Stored) : Reaches(r, c)
    BY <2>1, ConsumedAnchored, Rooted DEF Straight
  <2>3. c \in Visited(Stored, c)
    BY <1>2, <2>1, EndUnfolds
  <2> QED
    BY <2>2, <2>3 DEF Reaches
<1>12. Cardinality(found) = 1
  BY <1>10, FS_Singleton
<1>13. \A c \in found : Live(c) /\ Acknowledged(c)
  BY <1>6, <1>10
<1> QED
  BY <1>4, <1>9, <1>10, <1>11, <1>12, <1>13 DEF FoundBySource, Lookup

LEMMA FoundStraight ==
  ASSUME Ground, NEW h \in FoundBySource
  PROVE  Straight(h, NoJob)
<1>1. Chained(Stored) /\ Rising(Stored) /\ Stored \subseteq Job
  BY GroundFacts
<1>2. /\ \A c \in Roots(Stored) : Live(c) /\ Acknowledged(c)
      /\ \A c \in Roots(Stored) : ConsumerStatus(End(Stored, c)) \in {"failed", "succeeded"}
      /\ h \in Stored /\ rows[h].status = "open" /\ ConsumerStatus(h) = "failed"
      /\ Live(h) /\ Acknowledged(h)
      /\ \E r \in Roots(Stored) : h = End(Stored, r)
  BY DEF FoundBySource, Lookup
<1>3. ~Follows(Stored, h)
  <2>1. PICK r \in Roots(Stored) : h = End(Stored, r)
    BY <1>2
  <2> QED
    BY <1>1, <2>1, IncludedSelected, EndStops DEF Roots
<1>4. Closes(Stored, Included(Stored))
  BY <1>1, IncludedCloses
<1>5. Recorded
  <2> SUFFICES ASSUME NEW c \in Opened(Stored) PROVE Acknowledged(c)
    BY DEF Recorded
  <2>1. c \in Included(Stored) /\ c \in Job /\ rows[c].status = "open"
    BY <1>1, <1>4 DEF Closes, Opened
  <2>2. CASE Continues(c)
    BY <2>1, <2>2 DEF Ground, OrderInv, Stands
  <2>3. CASE ~Continues(c)
    <3>1. ~\E p \in Included(Stored) : rows[p].consumer = c
      BY <2>1, <2>3, IncludedLive, GroundFacts, NoJobIsNone
    <3>2. c \in Roots(Stored)
      BY <2>1, <3>1 DEF Roots
    <3> QED
      BY <1>2, <3>2
  <2> QED
    BY <2>2, <2>3
<1>6. ASSUME NEW c \in Included(Stored) PROVE Fits(c, h, NoJob)
  <2>0. c \in Job /\ c \in Stored /\ Live(c)
    BY IncludedLive
  <2>1. CASE c = h \/ Follows(Stored, c)
    BY <1>2, <1>3, <2>1 DEF Fits
  <2>2. CASE c # h /\ ~Follows(Stored, c)
    <3>1. CASE rows[c].consumer = NoJob /\ rows[c].status # "open"
      BY <2>2, <3>1 DEF Fits, ConsumerStatus
    <3>2. CASE rows[c].consumer # NoJob \/ rows[c].status = "open"
      <4>1. Anchored(c)
        BY <1>5, <2>0, <3>2, ConsumedAnchored DEF Opened
      <4>2. PICK r \in Roots(Stored) : Reaches(r, c)
        BY <1>5, <4>1, Rooted
      <4>3. End(Stored, r) = c
        BY <1>1, <2>0, <2>2, <4>2, EndUnfolds DEF Reaches
      <4>4. ConsumerStatus(c) \in {"failed", "succeeded"}
        BY <1>2, <4>3
      <4>5. ~(rows[c].status = "open" /\ ConsumerStatus(c) = "failed")
        BY <2>0, <2>2, <4>3, OneFound
      <4> QED
        BY <2>2, <4>4, <4>5 DEF Fits
    <3> QED
      BY <3>1, <3>2
  <2> QED
    BY <2>1, <2>2
<1>7. Covers(Included(Stored), h, NoJob)
  BY <1>4, <1>6, IncludedSelected DEF Covers
<1> QED
  BY <1>2, <1>5, <1>7 DEF Straight, Opened

-----------------------------------------------------------------------------
(* How such a row fares.  Who is consumer of a row tells its fate: as long *)
(* as nothing is changed of that job and its row, it is handed on or not   *)
(* as before.                                                              *)
SameFate(c) ==
  /\ rows'[c].consumer = rows[c].consumer
  /\ \/ rows[c].consumer = NoJob
     \/ LET d == rows[c].consumer
        IN  /\ jobs'[d] = jobs[d] /\ Live(d)' = Live(d)
            /\ rows'[d].stage = rows[d].stage /\ rows'[d].target = rows[d].target
            /\ rows'[d].status = "absent" <=> rows[d].status = "absent"
            /\ rows'[d].status = "pending" <=> rows[d].status = "pending"

LEMMA FateKept ==
  ASSUME NEW c \in Job, SameFate(c)
  PROVE  (Follows(Stored, c)' <=> Follows(Stored, c)) /\ ConsumerStatus(c)' = ConsumerStatus(c)
<1>1. CASE rows[c].consumer = NoJob
  BY <1>1, NoJobIsNone DEF SameFate, Follows, ConsumerStatus, Stored
<1>2. CASE rows[c].consumer # NoJob
  BY <1>2 DEF SameFate, Follows, ConsumerStatus, Stored, Acknowledged
<1> QED
  BY <1>1, <1>2

(* Time passes.                                                            *)
LEMMA StraightAges ==
  ASSUME Ground, NEW h, NEW k, Straight(h, k), UNCHANGED <<jobs, rows>>, expired \subseteq expired', Live(h)'
  PROVE  Straight(h, k)'
<1>1. PICK Y : Covers(Y, h, k)
  BY DEF Straight
<1>0. PICK Z : Z = {c \in Y : rows'[c].root \notin expired'}
  OBVIOUS
<1>2. (\A c : Live(c)' => Live(c)) /\ Stored' = Stored /\ \A c : Acknowledged(c)' <=> Acknowledged(c)
  BY DEF Live, Stored, Acknowledged
<1>3. Opened(Stored)' = {c \in Opened(Stored) : rows'[c].root \notin expired'}
  BY <1>2 DEF Opened, Live
<1>4. h \in Opened(Stored)' /\ Recorded'
  BY <1>2, <1>3 DEF Straight, Recorded, Live
<1>5. ASSUME NEW c \in Z, rows[c].consumer \in Stored PROVE rows'[rows[c].consumer].root \notin expired'
  <2>1. rows[rows[c].consumer].root = rows[c].root
    BY <1>0, <1>1, <1>5, RootsShared DEF Covers, Stored, Ground
  <2> QED
    BY <1>0, <1>5, <2>1
<1>6. Closes(Stored, Z)'
  <2>1. Opened(Stored)' \subseteq Z
    BY <1>0, <1>1, <1>3 DEF Covers, Closes
  <2>2. \A c \in Z : rows[c].consumer \in Stored => rows[c].consumer \in Z
    BY <1>0, <1>1, <1>5 DEF Covers, Closes
  <2>3. \A c \in Z : rows'[c].consumer \in Stored' => rows'[c].consumer \in Z
    BY <1>2, <2>2
  <2> QED
    BY <2>1, <2>3 DEF Closes
<1>7. ASSUME NEW c \in Z PROVE Fits(c, h, k)'
  <2>1. Follows(Stored, c)' <=> Follows(Stored, c)
    BY <1>0, <1>2, <1>5 DEF Follows, Live
  <2>2. ConsumerStatus(c)' = ConsumerStatus(c)
    BY DEF ConsumerStatus
  <2>3. Fits(c, h, k)
    BY <1>0, <1>1 DEF Covers
  <2> QED
    BY <2>1, <2>2, <2>3 DEF Fits
<1>8. Covers(Z, h, k)'
  <2>1. Z \in SUBSET Stored'
    BY <1>0, <1>1, <1>2 DEF Covers
  <2> QED
    BY <1>6, <1>7, <2>1 DEF Covers
<1> QED
  BY <1>4, <1>8 DEF Straight

(* A job that has taken no row, and has none open, writes its audit.       *)
LEMMA StraightBeside ==
  ASSUME Ground, NEW h, NEW m, Straight(h, NoJob), UNCHANGED <<rows, expired>>,
         \A i \in Job : i # m => jobs'[i] = jobs[i],
         \A c \in Job : rows[c].consumer # m, m \in Job => rows[m].status # "open"
  PROVE  Straight(h, NoJob)'
<1>1. PICK Y : Covers(Y, h, NoJob)
  BY DEF Straight
<1>2. Stored' = Stored /\ Opened(Stored)' = Opened(Stored)
  BY DEF Stored, Opened, Live
<1>3. Recorded'
  <2> SUFFICES ASSUME NEW c \in Opened(Stored) PROVE Acknowledged(c)'
    BY <1>2 DEF Recorded
  <2>1. c \in Job /\ c # m /\ Acknowledged(c)
    BY DEF Opened, Stored, Straight, Recorded
  <2> QED
    BY <2>1 DEF Acknowledged
<1>4. ASSUME NEW c \in Y PROVE Fits(c, h, NoJob)'
  <2>1. c \in Job /\ Fits(c, h, NoJob) /\ rows[c].consumer \in Job \cup {NoJob}
    BY <1>1, GroundFacts DEF Covers
  <2>2. SameFate(c)
    BY <2>1 DEF SameFate, Live
  <2>3. (Follows(Stored, c)' <=> Follows(Stored, c)) /\ ConsumerStatus(c)' = ConsumerStatus(c)
    BY <2>1, <2>2, FateKept
  <2> QED
    BY <2>1, <2>3 DEF Fits
<1>5. Covers(Y, h, NoJob)'
  BY <1>1, <1>2, <1>4 DEF Covers, Closes
<1> QED
  BY <1>2, <1>3, <1>5 DEF Straight

(* The continuation that was admitted to h has failed, and has left no     *)
(* checkpoint in its place, or one that goes on.                           *)
LEMMA StraightReturns ==
  ASSUME NEW h, NEW k \in Job, h # k, Straight(h, k), jobs[k].status = "failed",
         rows[k].status \in {"absent", "pending"}, rows[k].consumer = NoJob
  PROVE  Straight(h, NoJob)
<1>1. PICK Y : Covers(Y, h, k)
  BY DEF Straight
<1>2. ASSUME rows[h].consumer = k PROVE ~Follows(Stored, h) /\ ConsumerStatus(h) = "failed"
  BY <1>2, NoJobIsNone DEF Follows, Stored, ConsumerStatus
<1>3. ConsumerStatus(k) = "failed" /\ rows[k].status # "open"
  BY DEF ConsumerStatus
<1>4. \A c \in Y : Fits(c, h, NoJob)
  BY <1>1, <1>2, <1>3 DEF Covers, Fits
<1>5. Covers(Y, h, NoJob)
  BY <1>1, <1>4 DEF Covers
<1> QED
  BY <1>5 DEF Straight

LEMMA StraightAdvances ==
  ASSUME Ground, NEW h \in Job, NEW k \in Job, h # k, Straight(h, k), rows[h].consumer = k,
         rows[k].status = "open", Acknowledged(k), rows[k].consumer = NoJob
  PROVE  Straight(k, NoJob)
<1>1. PICK Y : Covers(Y, h, k)
  BY DEF Straight
<1>2. k \in Opened(Stored) /\ Follows(Stored, h)
  <2>1. rows[k].root = rows[h].root
    BY GroundFacts, NoJobIsNone, RootsShared DEF Ground
  <2>2. Live(k)
    BY <2>1 DEF Straight, Opened, Live
  <2> QED
    BY <2>2 DEF Opened, Stored, Follows, Acknowledged
<1>3. \A c \in Y : Fits(c, k, NoJob)
  BY <1>1, <1>2 DEF Covers, Fits
<1>4. Covers(Y, k, NoJob)
  BY <1>1, <1>3 DEF Covers
<1> QED
  BY <1>2, <1>4 DEF Straight

(* The row that was handed on is closed.                                   *)
LEMMA StraightTidied ==
  ASSUME Ground, NEW h \in Job, NEW k, h # k, Straight(k, NoJob), rows[k].consumer = NoJob,
         UNCHANGED rows \/ Close(h), UNCHANGED <<jobs, expired>>
  PROVE  Straight(k, NoJob)'
<1>1. PICK Y : Covers(Y, k, NoJob)
  BY DEF Straight
<1>2. ASSUME NEW c \in Job
      PROVE  /\ rows'[c].consumer = rows[c].consumer /\ rows'[c].root = rows[c].root
             /\ rows'[c].stage = rows[c].stage /\ rows'[c].target = rows[c].target
             /\ rows'[c].status = "absent" <=> rows[c].status = "absent"
             /\ rows'[c].status = "pending" => rows[c].status = "pending"
             /\ rows'[c].status = "open" => rows[c].status = "open"
             /\ c # h => rows'[c] = rows[c]
  <2>1. rows \in [Job -> RowShape]
    BY DEF Ground, WorkInv, Shape
  <2> QED
    BY <2>1 DEF Close, RowShape
<1>3. Stored' = Stored /\ Opened(Stored)' \subseteq Opened(Stored) /\ k \in Opened(Stored)'
  BY <1>2 DEF Stored, Opened, Live, Straight
<1>4. Recorded'
  BY <1>2, <1>3 DEF Recorded, Acknowledged, Straight, Opened, Stored
<1>5. ASSUME NEW c \in Y PROVE Fits(c, k, NoJob)'
  <2>1. c \in Job /\ Fits(c, k, NoJob) /\ rows[c].consumer \in Job \cup {NoJob}
    BY <1>1, GroundFacts DEF Covers
  <2>2. k \in Job /\ rows'[c].consumer = rows[c].consumer
    BY <1>2, <2>1 DEF Straight, Opened, Stored
  <2>3. ConsumerStatus(c)' = ConsumerStatus(c)
    BY <2>2 DEF ConsumerStatus
  <2>4. Follows(Stored, c) => Follows(Stored, c)'
    BY <1>2, <1>3, <2>1, <2>2 DEF Follows, Stored, Live, Acknowledged
  <2> QED
    BY <1>2, <2>1, <2>2, <2>3, <2>4 DEF Fits
<1>6. Covers(Y, k, NoJob)'
  BY <1>1, <1>2, <1>3, <1>5 DEF Covers, Closes, Stored
<1> QED
  BY <1>3, <1>4, <1>6 DEF Straight

(* What the rest of a continuation at work on h makes of the rows.         *)
Stored1(k) == [status |-> "pending", stage |-> capture[k].stage, target |-> capture[k].target,
               consumer |-> NoJob, root |-> RootOf(k)]
Makes(k) ==
  \/ UNCHANGED rows
  \/ pc[k] = "save" /\ rows' = [rows EXCEPT ![k] = Stored1(k)]
  \/ pc[k] = "take" /\ rows[held[k]].status = "open" /\ rows' = [rows EXCEPT ![held[k]].consumer = k]
  \/ pc[k] = "activate" /\ rows[k].status = "pending" /\ rows' = [rows EXCEPT ![k].status = "open"]

LEMMA StraightAtWork ==
  ASSUME Ground, NEW k \in Job, NEW h \in Job, h < k, held[k] = h, Straight(h, k), Makes(k), UNCHANGED expired,
         Shape', \A i \in Job : i # k => jobs'[i] = jobs[i], rows[k].consumer = NoJob,
         rows'[k].status = "open" => Acknowledged(k)' /\ rows'[h].consumer = k
  PROVE  Straight(h, k)'
<1>1. PICK Y : Covers(Y, h, k)
  BY DEF Straight
<1>2. /\ \A c \in Job : c # k /\ c # h => rows'[c] = rows[c]
      /\ rows'[h].status = rows[h].status /\ rows'[h].root = rows[h].root
      /\ rows'[h].stage = rows[h].stage /\ rows'[h].target = rows[h].target
      /\ rows'[h].consumer \in {rows[h].consumer, k}
      /\ rows'[k].consumer = NoJob /\ h # k
  <2>1. rows \in [Job -> RowShape] /\ h # k
    BY DEF Ground, WorkInv, Shape, Job
  <2> QED
    BY <2>1 DEF Makes, Stored1, RowShape
<1>3. /\ \A c \in Job : c # k => (c \in Stored' <=> c \in Stored) /\ (Live(c)' <=> Live(c))
      /\ \A c \in Job : c # k => (Acknowledged(c)' <=> Acknowledged(c))
      /\ \A c \in Job : c # k => (c \in Opened(Stored)' <=> c \in Opened(Stored))
  BY <1>2 DEF Stored, Live, Acknowledged, Opened
<1>4. k \in Opened(Stored)' => Acknowledged(k)' /\ rows'[h].consumer = k
  BY DEF Opened
<1>5. h \in Opened(Stored)' /\ Recorded'
  <2>1. Opened(Stored)' \subseteq Job
    BY DEF Opened, Stored
  <2> QED
    BY <1>2, <1>3, <1>4, <2>1 DEF Straight, Recorded
<1>0. PICK Z : Z = {c \in Stored' : (c # k /\ c \in Y) \/ (c = k /\ rows'[h].consumer = k)}
  OBVIOUS
<1>6. Closes(Stored, Z)'
  <2>1. Opened(Stored)' \subseteq Z
    <3> SUFFICES ASSUME NEW c \in Opened(Stored)' PROVE c \in Z
      OBVIOUS
    <3>1. c \in Stored' /\ c \in Job
      BY DEF Opened, Stored
    <3>2. c # k => c \in Y
      BY <1>1, <1>3, <3>1 DEF Covers, Closes
    <3> QED
      BY <1>0, <1>4, <3>1, <3>2
  <2>2. ASSUME NEW c \in Z, rows'[c].consumer \in Stored' PROVE rows'[c].consumer \in Z
    <3>1. c \in Job /\ rows'[c].consumer \in Job /\ rows'[c].consumer # NoJob /\ c # k
      BY <1>0, <1>2, <2>2, NoJobIsNone DEF Stored
    <3>2. c \in Y
      BY <1>0, <3>1
    <3>3. CASE rows'[c].consumer = k
      <4>1. c = h
        BY <1>2, <3>1, <3>3, GroundFacts
      <4> QED
        BY <1>0, <2>2, <3>3, <4>1
    <3>4. CASE rows'[c].consumer # k
      <4>1. rows'[c].consumer = rows[c].consumer
        BY <1>2, <3>1, <3>4
      <4>2. rows[c].consumer \in Stored
        BY <1>3, <2>2, <3>1, <3>4, <4>1
      <4>3. rows[c].consumer \in Y
        BY <1>1, <3>2, <4>2 DEF Covers, Closes
      <4> QED
        BY <1>0, <2>2, <3>4, <4>1, <4>3
    <3> QED
      BY <3>3, <3>4
  <2> QED
    BY <2>1, <2>2 DEF Closes
<1>7. ASSUME NEW c \in Job, c # k, rows'[c].consumer # k
      PROVE  SameFate(c)
  <2>1. rows'[c].consumer = rows[c].consumer /\ rows[c].consumer # k
    BY <1>2, <1>7
  <2>2. ASSUME rows[c].consumer # NoJob
        PROVE  LET d == rows[c].consumer
               IN  /\ jobs'[d] = jobs[d] /\ Live(d)' = Live(d)
                   /\ rows'[d].stage = rows[d].stage /\ rows'[d].target = rows[d].target
                   /\ rows'[d].status = rows[d].status
    <3>1. rows[c].consumer \in Job
      BY <2>2, GroundFacts
    <3> QED
      BY <1>2, <2>1, <3>1 DEF Live
  <2> QED
    BY <2>1, <2>2 DEF SameFate
<1>8. ASSUME NEW c \in Z PROVE Fits(c, h, k)'
  <2>0. c \in Job
    BY <1>0 DEF Stored
  <2>1. CASE c = k
    BY <1>0, <1>2, <2>1 DEF Fits
  <2>2. CASE c # k /\ rows'[c].consumer = k
    <3>1. c = h
      BY <1>2, <2>0, <2>2, GroundFacts, NoJobIsNone
    <3> QED
      BY <2>2, <3>1 DEF Fits
  <2>3. CASE c # k /\ rows'[c].consumer # k
    <3>1. Fits(c, h, k)
      BY <1>0, <1>1, <2>3 DEF Covers
    <3>2. SameFate(c)
      BY <1>7, <2>0, <2>3
    <3>3. /\ Follows(Stored, c)' <=> Follows(Stored, c)
          /\ ConsumerStatus(c)' = ConsumerStatus(c)
          /\ rows'[c].status = rows[c].status /\ rows'[c].consumer = rows[c].consumer
      BY <1>2, <2>0, <2>3, <3>2, FateKept DEF SameFate
    <3> QED
      BY <2>3, <3>1, <3>3 DEF Fits
  <2> QED
    BY <2>1, <2>2, <2>3
<1>9. Covers(Z, h, k)'
  <2>1. Z \in SUBSET Stored'
    BY <1>0
  <2> QED
    BY <1>6, <1>8, <2>1 DEF Covers
<1> QED
  BY <1>5, <1>9 DEF Straight

-----------------------------------------------------------------------------
(* What the calls before and after a handoff say of the branch and of the  *)
(* rows.                                                                   *)
Done == {"save", "stop", "match", "activate", "opened"}
Past(m, p) ==
  \/ m = "translate" /\ p \in (Begun \ {"list", "sweep"}) \cup Done
  \/ m = "verify" /\ p \in Done \cup {"capture"}
Admitted == {"replay", "bind", "prepare", "work", "push", "ensure", "report", "capture"}
Opening  == {"match", "activate", "opened"}

Sweeps(j) ==
  /\ pc'[j] = "sweep" =>
       \/ todo'[j] = Recoverable /\ UNCHANGED rows
       \/ pc[j] = "sweep" /\ \E c \in todo[j] : Close(c) /\ todo'[j] = todo[j] \ {c}
  /\ Past(mode'[j], pc'[j]) =>
       \/ Past(mode[j], pc[j])
       \/ pc[j] = "sweep" /\ todo[j] = {} /\ UNCHANGED rows
Gains(j) ==
  /\ Continues(j) /\ pc'[j] \in Admitted =>
       pc[j] \in Admitted \/ (pc[j] = "admit" /\ head = rows[held[j]].target /\ UNCHANGED rows)
  /\ pc'[j] = "save" =>
       /\ pc[j] \in Admitted /\ UNCHANGED <<rows, head>>
       /\ capture'[j].target = head \/ (capture'[j].target = NoSha /\ ~Continues(j))
  /\ pc[j] = "save" => UNCHANGED <<rows, head>> \/ (Save(j) /\ UNCHANGED head)
Hands(j) ==
  /\ pc'[j] = "handed" /\ pc[j] # "handed" =>
       \/ pc[j] = "tidy" /\ verdict[j] # "good"
       \/ pc[j] = "opened" /\ ~Continues(j) /\ IsOpen(j) /\ UNCHANGED storeVars
  /\ pc'[j] = "tidy" =>
       pc[j] \in Finishing \/ (pc[j] = "opened" /\ IsOpen(j) /\ UNCHANGED <<storeVars, verdict>>)
  /\ pc[j] = "tidy" =>
       /\ pc'[j] \in {"handed", "ended", "lost"} /\ UNCHANGED <<jobs, expired, head>>
       /\ pc'[j] = "ended" => verdict[j] = "good"
       /\ UNCHANGED rows \/ Close(held[j])
  /\ Continues(j) /\ pc'[j] \in Opening =>
       pc[j] \in Opening \/ (pc[j] = "confirm" /\ rows[held[j]].consumer = j /\ UNCHANGED rows)
Tracks(j) == Sweeps(j) /\ Gains(j) /\ Hands(j)

LEMMA TracksStep ==
  ASSUME Shape, MixedPairs = FALSE, NEW j \in Job, Way(j), Step(j)
  PROVE  Tracks(j)
<1> USE DEF Tracks, Sweeps, Gains, Hands, Goto, Past, Done, Admitted, Opening, Begun
<1>0. /\ pc \in [Job -> Stop] /\ verdict[j] \in {"none", "red", "good"} /\ todo \in [Job -> SUBSET Job]
      /\ capture \in [Job -> [stage : Stage, target : Nat]] /\ mode[j] \in {"translate", "verify", "continue_source", "continue_translation"}
  BY DEF Shape, Verdict, Mode
<1>1. CASE List(j) \/ Swept(j) \/ DeleteBranch(j) \/ PinHead(j)
  BY <1>0, <1>1 DEF List, Swept, DeleteBranch, PinHead, Way, Unknown
<1>2. CASE Sweep(j)
  BY <1>0, <1>2 DEF Sweep
<1>3. CASE Resuming(j)
  BY <1>0, <1>3 DEF Resuming, Load, ReviveCheck, Revive, ReviveConfirm, Admit, Replay, Bind, Way, Resumed,
                    Continues, Mode
<1>4. CASE StopEarly(j) \/ Prepare(j) \/ WantPush(j) \/ Reviewed(j)
  BY <1>0, <1>4 DEF StopEarly, MayStopEarly, Prepare, WantPush, Reviewed, Continues
<1>5. CASE Push(j) \/ EnsurePr(j) \/ Report(j)
  BY <1>0, <1>5 DEF Push, EnsurePr, Report
<1>6. CASE Capture(j)
  BY <1>0, <1>6 DEF Capture
<1>7. CASE \/ Save(j) \/ RecordStop(j) \/ StopCheck(j) \/ StopFail(j) \/ SaveFail(j)
           \/ ConsumeCheck(j) \/ Take(j)
  BY <1>0, <1>7, ErrorLeaves DEF Save, RecordStop, StopCheck, StopFail, SaveFail, ConsumeCheck, Take,
                Record, Raise, SaveCheckpoint
<1>8. CASE Confirm(j) \/ Match(j) \/ ActivateOwn(j) \/ OwnOpened(j)
  BY <1>0, <1>8, ErrorLeaves DEF Confirm, Match, ActivateOwn, OwnOpened, Raise, Way, Resumed, Continues
<1>9. CASE Tidy(j) \/ Abandon(j) \/ AbandonFail(j)
  BY <1>0, <1>9 DEF Tidy, Abandon, AbandonFail, Record, CloseQuietly, Close
<1>10. CASE Ending(j)
  BY <1>0, <1>10 DEF Ending, Finish, FinishCheck, FinishFail, Succeed, Unsucceed, Settle, Unsettle, FailJob,
                Record, Finishing
<1>11. CASE ReadFails(j) \/ Refused(j)
  BY <1>0, <1>11, ErrorLeaves DEF ReadFails, Refused, Raise, Reads
<1>12. CASE RunnerLost(j) \/ Expire(j)
  BY <1>0, <1>12 DEF RunnerLost, Expire, Ended
<1>13. ASSUME NEW m \in Modes, Start(j, m) PROVE Tracks(j)
  <2>1. pc[j] = "idle" /\ mode'[j] = m /\ pc'[j] \in {First(m), "ended"}
    BY <1>13 DEF Start, Shape
  <2>2. pc'[j] \in {"list", "pin", "load", "ended"} /\ (pc'[j] = "pin" => m = "verify") /\ ~Past(m, pc'[j])
    BY <2>1 DEF First
  <2> QED
    BY <2>1, <2>2
<1> QED
  BY <1>1, <1>2, <1>3, <1>4, <1>5, <1>6, <1>7, <1>8, <1>9, <1>10, <1>11, <1>12, <1>13
     DEF Step, JobStep, Translating, Publishing, HandingOver

(* The rows a continuation changes, and the branch anybody does.           *)
LEMMA MakesStep ==
  ASSUME Shape, NEW j \in Job, Way(j), Sourced(j), Continues(j), Step(j), pc[j] # "tidy"
  PROVE  Makes(j)
<1> USE DEF Goto, Unknown
<1>0. rows \in [Job -> RowShape] /\ mode[j] # "translate" /\ pc[j] \notin Unknown /\ pc[j] # "idle"
  BY DEF Shape, Way, Continues
<1>1. CASE Translating(j)
  BY <1>0, <1>1 DEF Translating, List, Sweep, Swept, DeleteBranch, PinHead
<1>2. CASE Resuming(j)
  BY <1>0, <1>2 DEF Resuming, Load, ReviveCheck, Revive, ReviveConfirm, Admit, Replay, Bind, BindSnapshot, Makes, Sourced
<1>3. CASE Publishing(j)
  BY <1>3 DEF Publishing, StopEarly, Prepare, WantPush, Reviewed, Push, EnsurePr, Report, Capture, Makes
<1>4. CASE Save(j)
  BY <1>4 DEF Save, SaveCheckpoint, Makes, Stored1
<1>5. CASE Take(j)
  BY <1>0, <1>5 DEF Take, Consume, Consumable, Makes, RowShape
<1>6. CASE ActivateOwn(j)
  BY <1>0, <1>6 DEF ActivateOwn, ActivateCall, Activate, Activatable, Makes, RowShape
<1>7. CASE \/ RecordStop(j) \/ StopCheck(j) \/ StopFail(j) \/ SaveFail(j)
           \/ ConsumeCheck(j) \/ Confirm(j) \/ Match(j) \/ OwnOpened(j)
  BY <1>7 DEF RecordStop, StopCheck, StopFail, SaveFail, ConsumeCheck, Confirm, Match, OwnOpened, Record, FinishJob, Makes
<1>8. CASE Tidy(j) \/ Abandon(j) \/ AbandonFail(j)
  BY <1>0, <1>8 DEF Tidy, Abandon, AbandonFail, Record, CloseQuietly
<1>9. CASE Ending(j)
  BY <1>9 DEF Ending, Finish, FinishCheck, FinishFail, Succeed, Unsucceed, Settle, Unsettle, FailJob,
              Record, FinishJob, Makes
<1>10. CASE ReadFails(j) \/ Refused(j) \/ RunnerLost(j) \/ Expire(j)
  BY <1>10 DEF ReadFails, Refused, RunnerLost, Expire, Makes
<1>11. ASSUME NEW m \in Modes, Start(j, m) PROVE FALSE
  BY <1>0, <1>11 DEF Start
<1> QED
  BY <1>1, <1>2, <1>3, <1>4, <1>5, <1>6, <1>7, <1>8, <1>9, <1>10, <1>11 DEF Step, JobStep, HandingOver

LEMMA HeadStep ==
  ASSUME Shape, NEW j \in Job, Step(j)
  PROVE  /\ head' = head \/ head' = commits + 1 \/ pc[j] = "delete"
         /\ pc[j] \in AtWork \cup {"idle"} => UNCHANGED expired
<1> USE DEF Goto
<1>1. CASE Moving(j)
  <2>1. UNCHANGED head
    BY <1>1, MovingKeeps
  <2>2. CASE HandingOver(j)
    BY <2>1, <2>2 DEF HandingOver, Save, RecordStop, StopCheck, StopFail, SaveFail, ConsumeCheck, Take, Confirm, Match,
              ActivateOwn, OwnOpened, Tidy, Abandon, AbandonFail, Record, CloseQuietly, ActivateCall,
              SaveCheckpoint, FinishJob, Consume, Activate, Close
  <2>3. CASE Ending(j)
    BY <2>1, <2>3 DEF Ending, Finish, FinishCheck, FinishFail, Succeed, Unsucceed, Settle, Unsettle, FailJob,
                      Record, FinishJob
  <2>4. CASE Expire(j)
    BY <2>1, <2>4 DEF Expire, Ended, AtWork, Begun, Handing, Closing
  <2>5. CASE \/ Swept(j) \/ ReviveCheck(j) \/ Revive(j) \/ ReviveConfirm(j) \/ Admit(j) \/ Bind(j)
             \/ Prepare(j) \/ WantPush(j) \/ ReadFails(j) \/ Refused(j) \/ RunnerLost(j)
    BY <2>1, <2>5 DEF Swept, ReviveCheck, Revive, ReviveConfirm, Admit, Bind, Prepare, WantPush, ReadFails, Refused,
                      RunnerLost, ActivateCall, Activate, BindSnapshot
  <2> QED
    BY <1>1, <2>2, <2>3, <2>4, <2>5 DEF Moving
<1>2. CASE Working(j)
  BY <1>2 DEF Working, List, Sweep, DeleteBranch, PinHead, Load, Replay, StopEarly, Reviewed, Push, EnsurePr,
              Report, Capture, Close
<1>3. ASSUME NEW m \in Modes, Start(j, m) PROVE UNCHANGED <<head, expired>>
  BY <1>3 DEF Start, InsertJob
<1> QED
  BY <1>1, <1>2, <1>3 DEF Step, JobStep, Translating, Resuming, Publishing, Moving, Working

-----------------------------------------------------------------------------
(* A translation or verification that stores a stop has first closed what  *)
(* was there; a continuation at work holds the row it was admitted to, and *)
(* its own is no older than that; what it holds is Straight but for itself.*)
Empty(c) == rows[c].status \in {"absent", "closed"}
Cleared(j) ==
  /\ pc[j] = "sweep" => \A c \in Job : c < j /\ c \notin todo[j] => Empty(c)
  /\ Past(mode[j], pc[j]) => \A c \in Job : c < j => Empty(c)
Holds(k) == Continues(k) /\ pc[k] \in Opening \cup {"tidy"} => rows[held[k]].consumer = k
Kept(k) == Continues(k) /\ pc[k] \in AtWork => rows[k].status # "closed"
Heads(k) ==
  /\ Continues(k) /\ pc[k] \in Admitted => rows[held[k]].target <= head
  /\ pc[k] = "save" => /\ capture[k].target <= head
                       /\ Continues(k) => rows[held[k]].target <= capture[k].target
  /\ rows[k].status # "absent" /\ pc[k] \in AtWork => rows[k].target <= head
  /\ rows[k].status # "absent" /\ Continues(k) /\ held[k] # NoJob => rows[held[k]].target <= rows[k].target
Follow(k) ==
  Continues(k) =>
    /\ pc[k] \in AtWork \ {"tidy"} /\ held[k] # NoJob /\ Live(held[k]) => Straight(held[k], k)
    /\ pc[k] = "tidy" /\ verdict[k] # "good" /\ Live(k) => Straight(k, NoJob)

(* A stop that was handed over, and after it none but continuations that   *)
(* are at work or have recorded a failure, has an heir: a checkpoint of    *)
(* its lineage, as new as it or newer, that the lookup leads to unless     *)
(* somebody is at work on it.                                              *)
Retried(k) == Continues(k) /\ (pc[k] \in AtWork \ {"tidy"} \/ (pc[k] = "ended" /\ jobs[k].status = "failed"))
Undisturbed(j) == pc[j] = "handed" /\ Live(j) /\ \A k \in Job : k > j /\ pc[k] # "idle" => Retried(k)
Heir(j, h) ==
  /\ h >= j /\ rows[h].root = rows[j].root
  /\ rows[j].target <= rows[h].target /\ rows[h].target <= head
  /\ \A k \in Job : pc[k] \in AtWork => held[k] \in {NoJob, h}
  /\ (\A k \in Job : pc[k] \in AtWork => held[k] # h) => Straight(h, NoJob)
Tip(j) == Undisturbed(j) => \E h \in Job : Heir(j, h)

HandInv == \A j \in Job : Cleared(j) /\ Holds(j) /\ Kept(j) /\ Heads(j) /\ Follow(j) /\ Tip(j)

LEMMA AtWorkIs == /\ "idle" \notin AtWork /\ "handed" \notin AtWork /\ "ended" \notin AtWork /\ "lost" \notin AtWork
                  /\ Admitted \cup Opening \cup Done \cup {"sweep", "tidy", "save", "load", "fail", "delete"} \subseteq AtWork
                  /\ Stop = AtWork \cup {"idle", "handed", "ended", "lost"}
BY DEF AtWork, Begun, Handing, Closing, Stop, Admitted, Opening, Done

(* Nothing happens but that time passes and others push.                   *)
Calm ==
  /\ UNCHANGED <<jobs, rows, pc, mode, held, capture, verdict, todo>>
  /\ expired \subseteq expired' /\ head <= head' /\ head' \in Nat

LEMMA CalmKeeps ==
  ASSUME Ground, HandInv, Calm
  PROVE  HandInv' /\ \A c \in Job : Consumed(c)'
<1>0. /\ head \in Nat /\ head' \in Nat /\ head <= head' /\ \A c \in Job : rows[c].target \in Nat
      /\ capture \in [Job -> [stage : Stage, target : Nat]]
  BY DEF Ground, WorkInv, Shape, RowShape, Calm
<1>1. ASSUME NEW j \in Job PROVE Cleared(j)' /\ Holds(j)' /\ Kept(j)' /\ Consumed(j)'
  BY DEF HandInv, Ground, Calm, Cleared, Empty, Holds, Kept, Consumed, Continues, Acknowledged
<1>2. ASSUME NEW j \in Job PROVE Heads(j)'
  <2>1. Continues(j) /\ pc[j] \in Admitted => held[j] \in Job
    BY DEF Ground, WorkInv, Way, Admitted
  <2>2. capture[j].target \in Nat
    BY <1>0
  <2> QED
    BY <1>0, <2>1, <2>2 DEF HandInv, Heads, Calm, Continues
<1>3. ASSUME NEW j \in Job, Live(j)' PROVE Live(j)
  BY <1>3 DEF Calm, Live
<1>4. ASSUME NEW j \in Job PROVE Follow(j)'
  <2>1. /\ Continues(j)' <=> Continues(j)
        /\ held'[j] = held[j] /\ pc'[j] = pc[j] /\ verdict'[j] = verdict[j]
    BY DEF Calm, Continues
  <2>2. held[j] # NoJob => held[j] \in Job
    BY DEF Ground, WorkInv, Shape
  <2>3. UNCHANGED <<jobs, rows>> /\ expired \subseteq expired'
    BY DEF Calm
  <2>4. ASSUME Continues(j), pc[j] \in AtWork \ {"tidy"}, held[j] # NoJob, Live(held[j])' PROVE Straight(held[j], j)'
    <3>1. Straight(held[j], j)
      BY <2>1, <2>2, <2>4 DEF HandInv, Follow, Live, Calm
    <3> DEFINE h == held[j]
    <3>2. PICK g : g = h
      OBVIOUS
    <3>3. held'[j] = g /\ g \in Job /\ Straight(g, j) /\ Live(g)'
      BY <2>1, <2>2, <2>4, <3>1, <3>2 DEF Live
    <3>4. Straight(g, j)'
      BY <2>3, <3>3, StraightAges
    <3> QED
      BY <2>1, <3>2, <3>4
  <2>5. ASSUME Continues(j), pc[j] = "tidy", verdict[j] # "good", Live(j)' PROVE Straight(j, NoJob)'
    BY <1>3, <2>3, <2>5, StraightAges DEF HandInv, Follow
  <2> QED
    BY <2>1, <2>4, <2>5 DEF Follow, Live
<1>5. ASSUME NEW j \in Job, Undisturbed(j)' PROVE \E h \in Job : Heir(j, h)'
  <2>1. Undisturbed(j)
    BY <1>3, <1>5 DEF Undisturbed, Retried, Calm, Continues
  <2>2. PICK h \in Job : Heir(j, h)
    BY <2>1 DEF HandInv, Tip
  <2>3. Live(h)'
    BY <1>5, <2>2 DEF Undisturbed, Heir, Live, Calm
  <2>4. Straight(h, NoJob) => Straight(h, NoJob)'
    BY <2>3, StraightAges DEF Calm
  <2>5. rows[h].target <= head'
    BY <1>0, <2>2 DEF Heir
  <2> QED
    BY <2>2, <2>4, <2>5 DEF Heir, Calm
<1> QED
  BY <1>1, <1>2, <1>4, <1>5 DEF HandInv, Tip

-----------------------------------------------------------------------------
(* A step of the job that is at work, or starts: there is no other.        *)
Moves(j) == Step(j) /\ ~Ended(j)

LEMMA EndedAges ==
  ASSUME WorkInv, NEW j \in Job, Step(j), Ended(j)
  PROVE  Calm
<1>1. Moving(j) \/ Working(j) \/ \E m \in Modes : Start(j, m)
  BY DEF Step, JobStep, Translating, Resuming, Publishing, Moving, Working
<1>2. Working(j) => pc[j] \in AtWork
  BY WorkingFrom DEF AtWork
<1>3. (\E m \in Modes : Start(j, m)) => pc[j] = "idle"
  BY DEF Start
<1>4. pc[j] \notin AtWork /\ pc[j] # "idle"
  BY AtWorkIs DEF Ended
<1>5. Expire(j)
  BY <1>1, <1>2, <1>3, <1>4, MovingFrom
<1> QED
  BY <1>5 DEF Expire, Calm, WorkInv, Shape

LEMMA Solo ==
  ASSUME Alone, Ground, NEW j \in Job, Moves(j)
  PROVE  /\ Frame(j) /\ StoreStep(j) /\ Detail(j) /\ UNCHANGED expired
         /\ \A k \in Job : k # j => pc[k] \notin AtWork /\ pc'[k] = pc[k]
         /\ pc[j] \in AtWork \/ (pc[j] = "idle" /\ \E m \in Modes : Start(j, m))
<1>1. Frame(j) /\ StoreStep(j)
  BY StepEffects DEF Ground, Moves
<1>2. Detail(j)
  BY StepEffect, EffectDetail DEF Ground, WorkInv, Moves
<1>3. pc[j] \in AtWork \/ (pc[j] = "idle" /\ \E m \in Modes : Start(j, m))
  <2>1. pc[j] \in Stop
    BY DEF Ground, WorkInv, Shape
  <2> QED
    BY <2>1, AtWorkIs, StepFrom DEF Moves, Ended
<1>4. ASSUME NEW k \in Job, k # j, pc[k] \in AtWork PROVE FALSE
  <2>1. CASE pc[j] \in AtWork
    <3>1. k < j \/ j < k
      BY <1>4 DEF Job
    <3> QED
      BY <1>4, <2>1, <3>1, AtWorkIs DEF Ground, OrderInv, Sequence, Ended
  <2>2. ASSUME NEW m \in Modes, Start(j, m) PROVE FALSE
    BY <1>4, <2>2, NobodyRuns DEF Alone, Running
  <2> QED
    BY <1>3, <2>1, <2>2
<1>5. UNCHANGED expired
  BY <1>3, HeadStep DEF Moves, Ground, WorkInv
<1> QED
  BY <1>1, <1>2, <1>3, <1>4, <1>5 DEF Frame

(* What holds of the mover: its own row has no consumer yet, and the row   *)
(* it was admitted to, which is another, is the same but when it loads it. *)
LEMMA Mover ==
  ASSUME Alone, Ground, NEW j \in Job, Moves(j)
  PROVE  /\ rows[j].consumer = NoJob
         /\ held[j] # NoJob => held[j] \in Job /\ held[j] < j /\ rows[held[j]].status # "absent"
         /\ pc[j] # "load" => held'[j] = held[j]
         /\ pc[j] # "idle" => (Continues(j)' <=> Continues(j))
         /\ Continues(j) => pc[j] # "delete" /\ pc[j] # "idle"
         /\ pc[j] \in Begun \cup {"idle", "save"} => rows[j].status = "absent"
         /\ Continues(j) /\ pc[j] \notin {"load", "fail"} => held[j] \in Job
<1>1. WorkInv /\ Way(j) /\ Written(j) /\ Shape
  BY DEF Ground, WorkInv
<1>2. rows[j].consumer = NoJob
  <2> SUFFICES ASSUME rows[j].consumer # NoJob PROVE FALSE
    OBVIOUS
  <2>1. rows[j].consumer \in Job /\ rows[j].consumer > j /\ pc[rows[j].consumer] \in After
    BY GroundFacts
  <2>2. pc[rows[j].consumer] # "idle"
    BY <2>1 DEF After
  <2> QED
    BY <2>1, <2>2 DEF Ground, OrderInv, Sequence, Moves, Job
<1>3. held[j] # NoJob => held[j] \in Job /\ held[j] < j /\ rows[held[j]].status # "absent"
  BY <1>1 DEF Shape, Written, Ground, OrderInv, Later
<1>4. pc[j] # "load" => held'[j] = held[j]
  BY AdmittedOnce DEF Ground, Moves
<1>5. pc[j] # "idle" => (Continues(j)' <=> Continues(j))
  BY Solo DEF Frame, Continues
<1>6. Continues(j) => pc[j] # "delete" /\ pc[j] # "idle"
  BY <1>1 DEF Way, Unknown, Continues
<1>7. Continues(j) /\ pc[j] \notin {"load", "fail"} => held[j] \in Job
  BY <1>1 DEF Way, Moves, Ended
<1> QED
  BY <1>1, <1>2, <1>3, <1>4, <1>5, <1>6, <1>7 DEF Written

LEMMA ClearedMoves ==
  ASSUME Alone, MixedPairs = FALSE, Ground, NEW j \in Job, Moves(j), Cleared(j)
  PROVE  Cleared(j)'
<1>0. rows \in [Job -> RowShape] /\ rows' \in [Job -> RowShape] /\ Sourced(j) /\ Shape /\ Way(j)
  BY StepEffects DEF Ground, WorkInv, Shape, OrderInv, Moves
<1>1. Sweeps(j)
  BY <1>0, TracksStep DEF Tracks, Moves
<1>2. ASSUME NEW c \in Job, c < j, Empty(c) PROVE Empty(c)'
  <2>1. rows'[c].status \in RowStatus /\ c # j
    BY <1>0, <1>2 DEF RowShape, Job
  <2>2. rows'[c].status # "open"
    BY <1>0, <1>2, <2>1, Solo DEF Detail, Empty, Sourced
  <2>3. rows'[c].status # "pending"
    BY <1>2, <2>1, Solo DEF StoreStep, RowKept, RowSaved, RowTaken, Empty
  <2> QED
    BY <2>1, <2>2, <2>3 DEF RowStatus, Empty
<1>3. ASSUME pc'[j] = "sweep", NEW c \in Job, c < j, c \notin todo'[j] PROVE Empty(c)'
  <2>1. CASE todo'[j] = Recoverable /\ UNCHANGED rows
    BY <1>0, <1>3, <2>1 DEF Recoverable, Empty, RowShape, RowStatus
  <2>2. ASSUME pc[j] = "sweep", NEW d \in todo[j], Close(d), todo'[j] = todo[j] \ {d} PROVE Empty(c)'
    <3>1. CASE c # d
      BY <1>2, <1>3, <2>2, <3>1 DEF Cleared
    <3>2. CASE c = d
      BY <1>0, <2>2, <3>2 DEF Close, Empty
    <3> QED
      BY <3>1, <3>2
  <2> QED
    BY <1>1, <1>3, <2>1, <2>2 DEF Sweeps
<1>4. ASSUME Past(mode'[j], pc'[j]), NEW c \in Job, c < j PROVE Empty(c)'
  <2>1. Empty(c)
    BY <1>1, <1>4 DEF Sweeps, Cleared
  <2> QED
    BY <1>2, <1>4, <2>1
<1> QED
  BY <1>3, <1>4 DEF Cleared

LEMMA HoldsMoves ==
  ASSUME Alone, MixedPairs = FALSE, Ground, NEW j \in Job, Moves(j), Holds(j)
  PROVE  Holds(j)'
<1> SUFFICES ASSUME Continues(j)', pc'[j] \in Opening \cup {"tidy"} PROVE rows'[held'[j]].consumer = j
  BY DEF Holds
<1>1. Shape /\ Way(j) /\ Settled(j) /\ Hands(j)
  BY TracksStep DEF Ground, WorkInv, Tracks, Moves
<1>2. pc[j] # "idle" /\ Continues(j)
  <2>1. pc[j] # "idle"
    <3> SUFFICES ASSUME pc[j] = "idle" PROVE FALSE
      OBVIOUS
    <3>1. PICK m \in Modes : Start(j, m)
      BY Solo, AtWorkIs
    <3> QED
      BY <1>1, <3>1 DEF Start, Goto, First, Opening, Shape
  <2> QED
    BY <2>1, Mover
<1>3. pc[j] \in Opening \cup {"tidy", "opened", "confirm"} \cup Finishing /\ rows[held[j]].consumer = j
  BY <1>1, <1>2 DEF Hands, Holds, Settled, Opening
<1>4. held[j] \in Job /\ held'[j] = held[j]
  BY <1>2, <1>3, Mover DEF Opening, Finishing
<1>5. RowKept(held[j]) \/ RowTaken(j, held[j])
  BY <1>3, <1>4, Solo DEF StoreStep, RowSaved, Opening, Finishing
<1> QED
  BY <1>3, <1>4, <1>5 DEF RowKept, RowTaken

LEMMA KeptMoves ==
  ASSUME Alone, MixedPairs = FALSE, Ground, NEW j \in Job, Moves(j), Kept(j)
  PROVE  Kept(j)'
<1> SUFFICES ASSUME Continues(j)', pc'[j] \in AtWork PROVE rows'[j].status # "closed"
  BY DEF Kept
<1>1. Shape /\ Way(j) /\ Written(j) /\ Sourced(j) /\ RowsMove(j) /\ Hands(j)
  BY TracksStep, StepEffects, RowsStep DEF Ground, WorkInv, OrderInv, Tracks, Moves
<1>2. CASE pc[j] = "idle"
  BY <1>1, <1>2 DEF RowsMove, Written
<1>3. CASE pc[j] # "idle"
  <2>1. Continues(j) /\ pc[j] \in AtWork
    BY <1>3, Mover, Solo
  <2>2. pc[j] # "tidy"
    BY <1>1, AtWorkIs DEF Hands
  <2>3. Makes(j)
    BY <1>1, <2>1, <2>2, MakesStep DEF Moves
  <2>4. rows \in [Job -> RowShape] /\ held[j] # j
    BY <1>1, Mover, NoJobIsNone DEF Shape, Job
  <2>5. rows[j].status # "closed"
    BY <2>1 DEF Kept
  <2> QED
    BY <2>3, <2>4, <2>5 DEF Makes, RowShape, Stored1
<1> QED
  BY <1>2, <1>3

LEMMA ConsumedMoves ==
  ASSUME Alone, Ground, OrderInv', NEW j \in Job, Moves(j), NEW c \in Job
  PROVE  Consumed(c)'
<1> SUFFICES ASSUME Continues(c)', rows'[c].consumer # NoJob
             PROVE  rows'[c].status \in {"open", "closed"} /\ Acknowledged(c)'
  BY DEF Consumed
<1>1. Frame(j) /\ StoreStep(j) /\ Detail(j)
  BY Solo
<1>2. CASE rows[c].consumer = NoJob
  <2>1. rows'[c].status = "open"
    BY <1>1, <1>2 DEF StoreStep, RowKept, RowSaved, RowTaken
  <2>2. Stands(c)'
    BY DEF OrderInv
  <2> QED
    BY <2>1, <2>2 DEF Stands
<1>3. CASE rows[c].consumer # NoJob
  <2>1. c # j
    BY <1>3, Mover
  <2>2. Continues(c) /\ jobs'[c] = jobs[c] /\ rows'[c].stage = rows[c].stage /\ rows'[c].target = rows[c].target
    BY <1>1, <2>1 DEF Frame, Continues, StoreStep, Detail
  <2>3. rows[c].status \in {"open", "closed"} /\ Acknowledged(c)
    BY <1>3, <2>2 DEF Ground, Consumed
  <2>4. rows'[c].status \in RowStatus
    BY <1>1 DEF StoreStep, RowShape
  <2>5. rows'[c].status \in {"open", "closed"}
    BY <1>1, <2>1, <2>3, <2>4 DEF StoreStep, RowKept, RowSaved, RowTaken, RowStatus
  <2> QED
    BY <2>2, <2>3, <2>5 DEF Acknowledged
<1> QED
  BY <1>2, <1>3

LEMMA HeadsBeside ==
  ASSUME Alone, Ground, NEW j \in Job, Moves(j), NEW k \in Job, k # j, Heads(k)
  PROVE  Heads(k)'
<1>1. Frame(j) /\ StoreStep(j) /\ Detail(j) /\ pc'[k] \notin AtWork
  BY Solo
<1>2. "save" \in AtWork /\ Admitted \subseteq AtWork
  BY AtWorkIs
<1> SUFFICES ASSUME rows'[k].status # "absent", Continues(k)', held'[k] # NoJob
             PROVE  rows'[held'[k]].target <= rows'[k].target
  BY <1>1, <1>2 DEF Heads
<1>3. held'[k] = held[k] /\ Continues(k)
  BY <1>1 DEF Frame, Continues
<1>4. Written(k) /\ Written(j) /\ held[k] \in Job
  BY <1>3 DEF Ground, WorkInv, Shape
<1>5. rows[k].status # "absent" /\ rows'[k].target = rows[k].target
  BY <1>1 DEF StoreStep, RowKept, RowSaved, RowTaken, Detail
<1>6. rows'[held[k]].target = rows[held[k]].target
  BY <1>1, <1>3, <1>4 DEF Written, Detail
<1> QED
  BY <1>3, <1>5, <1>6 DEF Heads

LEMMA HeadsMover ==
  ASSUME Alone, MixedPairs = FALSE, Ground, BoundInv, NEW j \in Job, Moves(j), Heads(j)
  PROVE  Heads(j)'
<1>1. Shape /\ Way(j) /\ Written(j) /\ RowsMove(j) /\ Gains(j) /\ Shape'
  BY TracksStep, StepEffects, RowsStep DEF Ground, WorkInv, OrderInv, Tracks, Moves
<1>2. /\ head \in Nat /\ commits \in Nat /\ head <= commits /\ head' \in Nat
      /\ \A c \in Job : rows[c] \in RowShape /\ rows[c].target \in Nat
      /\ capture[j].target \in Nat
  BY <1>1 DEF BoundInv, Places, Shape, RowShape
<1>3. pc[j] # "delete" => head <= head'
  BY <1>1, <1>2, HeadStep DEF Moves
<1>4. ASSUME pc[j] # "idle"
      PROVE  /\ Continues(j)' <=> Continues(j)
             /\ Continues(j) => head <= head'
             /\ pc[j] \in AtWork
  BY <1>3, <1>4, Mover, Solo
<1>5. ASSUME held[j] # NoJob, pc[j] # "load"
      PROVE  held'[j] = held[j] /\ held[j] \in Job /\ held[j] # j /\ rows'[held[j]].target = rows[held[j]].target
  <2>1. held'[j] = held[j] /\ held[j] \in Job /\ held[j] # j
    BY <1>5, Mover DEF Job
  <2> QED
    BY <2>1, Solo DEF Detail
<1>6. ASSUME rows'[j].status # "absent", rows[j].status = "absent"
      PROVE  pc[j] = "save" /\ head' = head /\ rows'[j].target = capture[j].target
  <2>1. pc[j] = "save"
    BY <1>1, <1>6 DEF RowsMove
  <2>2. Save(j) /\ UNCHANGED head
    BY <1>1, <1>6, <2>1 DEF Gains
  <2> QED
    BY <1>1, <1>6, <2>1, <2>2 DEF Save, SaveCheckpoint, Shape
<1>7. ASSUME rows[j].status # "absent"
      PROVE  /\ pc[j] \notin {"save", "idle", "load", "delete"} /\ pc[j] \in AtWork
             /\ rows'[j].target = rows[j].target /\ head <= head'
  <2>1. pc[j] \notin {"save", "idle", "load", "delete"}
    BY <1>1, <1>7 DEF Written, Begun
  <2> QED
    BY <1>3, <2>1, Solo DEF Detail
<1>8. ASSUME Continues(j)', pc'[j] \in Admitted PROVE rows'[held'[j]].target <= head'
  <2>1. pc[j] # "idle"
    <3> SUFFICES ASSUME pc[j] = "idle" PROVE FALSE
      OBVIOUS
    <3>1. PICK m \in Modes : Start(j, m)
      BY Solo, AtWorkIs
    <3> QED
      BY <1>1, <1>8, <3>1 DEF Start, Goto, First, Admitted, Shape
  <2>2. Continues(j) /\ head <= head'
    BY <1>4, <1>8, <2>1
  <2>3. pc[j] \in Admitted \cup {"admit"} /\ rows[held[j]].target <= head
    BY <1>1, <1>2, <1>8, <2>2 DEF Gains, Heads
  <2>4. held[j] \in Job /\ held[j] # NoJob /\ pc[j] # "load"
    BY <2>2, <2>3, Mover, NoJobIsNone DEF Admitted
  <2> QED
    BY <1>2, <1>5, <2>2, <2>3, <2>4
<1>9. ASSUME pc'[j] = "save"
      PROVE  /\ capture'[j].target <= head'
             /\ Continues(j)' => rows'[held'[j]].target <= capture'[j].target
  <2>1. /\ pc[j] \in Admitted /\ UNCHANGED <<rows, head>>
        /\ capture'[j].target = head \/ (capture'[j].target = NoSha /\ ~Continues(j))
    BY <1>1, <1>9 DEF Gains
  <2>2. Continues(j)' <=> Continues(j)
    BY <2>1, <1>4 DEF Admitted
  <2>3. Continues(j) => held'[j] = held[j] /\ rows[held[j]].target <= head
    BY <2>1, Mover DEF Heads, Admitted
  <2> QED
    BY <1>2, <2>1, <2>2, <2>3 DEF NoSha
<1>10. ASSUME rows'[j].status # "absent", pc'[j] \in AtWork PROVE rows'[j].target <= head'
  BY <1>2, <1>6, <1>7, <1>10 DEF Heads
<1>11. ASSUME rows'[j].status # "absent", Continues(j)', held'[j] # NoJob PROVE rows'[held'[j]].target <= rows'[j].target
  <2>1. pc[j] \notin {"load", "idle"}
    BY <1>6, <1>7, <1>11
  <2>2. held'[j] = held[j] /\ Continues(j) /\ held[j] # NoJob
    BY <1>4, <1>11, <2>1, Mover
  <2> QED
    BY <1>5, <1>6, <1>7, <1>11, <2>1, <2>2 DEF Heads
<1> QED
  BY <1>8, <1>9, <1>10, <1>11 DEF Heads

(* What a job that was admitted to g has made of it since.                 *)
LEMMA StraightAdmitted ==
  ASSUME Ground, NEW h, NEW k, Straight(h, NoJob)
  PROVE  Straight(h, k)
<1>1. PICK Y : Covers(Y, h, NoJob)
  BY DEF Straight
<1>2. ASSUME NEW c \in Y PROVE Fits(c, h, k)
  <2>1. c \in Job /\ Fits(c, h, NoJob)
    BY <1>1, GroundFacts DEF Covers
  <2>2. rows[c].consumer = NoJob => ~Follows(Stored, c) /\ ConsumerStatus(c) = "failed"
    BY GroundFacts, NoJobIsNone DEF Follows, ConsumerStatus
  <2> QED
    BY <2>1, <2>2, NoJobIsNone DEF Fits
<1>3. Covers(Y, h, k)
  BY <1>1, <1>2 DEF Covers
<1> QED
  BY <1>3 DEF Straight

Rowed(j, g) == held[j] = g /\ g \in Job /\ Continues(j) /\ pc[j] \in AtWork \ {"tidy"}

LEMMA FollowAtWork ==
  ASSUME Alone, MixedPairs = FALSE, Ground, WorkInv', OrderInv', NEW j \in Job, Moves(j), Follow(j), Holds(j),
         NEW g, Rowed(j, g), Live(g)'
  PROVE  Straight(g, j)' /\ (rows'[j].status = "open" => rows'[g].consumer = j) /\ Makes(j)
<1>1. /\ Frame(j) /\ StoreStep(j) /\ Detail(j) /\ UNCHANGED expired /\ Shape' /\ Shape /\ Way(j) /\ Sourced(j) /\ Stands(j)
      /\ Stands(j)'
  BY Solo DEF Ground, WorkInv, OrderInv
<1>2. /\ held[j] = g /\ g \in Job /\ g < j /\ g # j /\ g # NoJob /\ rows[j].consumer = NoJob /\ Continues(j)
      /\ (Continues(j)' <=> Continues(j)) /\ pc[j] # "tidy" /\ pc[j] \in AtWork
  BY Mover, NoJobIsNone DEF Rowed, Job, OrderInv, Ground, Later, OriginInv
<1>3. rows'[g].root = rows[g].root
  BY <1>1, <1>2 DEF StoreStep, RowKept, RowSaved, RowTaken
<1>4. Live(g)
  BY <1>1, <1>3 DEF Live
<1>5. Straight(g, j)
  BY <1>2, <1>4 DEF Follow
<1>6. Makes(j)
  BY <1>1, <1>2, MakesStep DEF Moves
<1>7. rows'[j].status = "open" => rows'[g].consumer = j
  <2> SUFFICES ASSUME rows'[j].status = "open" PROVE rows'[g].consumer = j
    OBVIOUS
  <2>1. pc[j] \in {"activate", "opened"}
    BY <1>1, <1>2, AtWorkIs DEF Detail, Sourced, Stands
  <2>2. rows[g].consumer = j
    BY <1>2, <2>1 DEF Holds, Opening
  <2>3. RowKept(g)
    BY <1>1, <1>2, <2>1 DEF StoreStep, RowSaved, RowTaken
  <2> QED
    BY <2>2, <2>3 DEF RowKept
<1>8. rows'[j].status = "open" => Acknowledged(j)'
  BY <1>1, <1>2 DEF Stands
<1>9. \A i \in Job : i # j => jobs'[i] = jobs[i]
  BY <1>1 DEF StoreStep
<1>10. Straight(g, j)'
  BY <1>1, <1>2, <1>5, <1>6, <1>7, <1>8, <1>9, StraightAtWork
<1> QED
  BY <1>6, <1>7, <1>10

LEMMA FollowMoves ==
  ASSUME Alone, MixedPairs = FALSE, Ground, WorkInv', OrderInv', NEW j \in Job, Moves(j), Follow(j), Holds(j)
  PROVE  Follow(j)'
<1> SUFFICES ASSUME Continues(j)' PROVE Follow(j)'
  BY DEF Follow
<1>1. /\ UNCHANGED expired /\ Shape' /\ Shape /\ Way(j) /\ Hands(j)
  BY Solo, TracksStep DEF Ground, WorkInv, OrderInv, Tracks, Moves
<1>2. PICK g : g = held'[j]
  OBVIOUS
<1>3. ASSUME pc'[j] \in AtWork \ {"tidy"}, g # NoJob, Live(g)' PROVE Straight(g, j)'
  <2>1. CASE g # held[j]
    <3>1. g \in FoundBySource /\ UNCHANGED <<jobs, rows, expired>>
      BY <1>2, <2>1, AdmittedOnce DEF Ground, Moves
    <3>2. Straight(g, j)
      BY <3>1, FoundStraight, StraightAdmitted
    <3> QED
      BY <1>3, <3>1, <3>2, StraightAges
  <2>2. CASE g = held[j]
    <3>1. pc[j] # "idle" /\ g \in Job
      BY <1>1, <1>3, <2>2 DEF Ground, OriginInv, Shape
    <3>2. Continues(j) /\ pc[j] \in AtWork
      BY <3>1, Mover, Solo
    <3>3. pc[j] # "tidy"
      BY <1>1, <1>3, AtWorkIs DEF Hands
    <3>4. Rowed(j, g)
      BY <2>2, <3>1, <3>2, <3>3 DEF Rowed
    <3> QED
      BY <1>3, <3>4, FollowAtWork
  <2> QED
    BY <2>1, <2>2
<1>4. ASSUME pc'[j] = "tidy", verdict'[j] # "good", Live(j)' PROVE Straight(j, NoJob)'
  <2>1. ASSUME pc[j] \in Finishing PROVE FALSE
    <3>1. Moving(j)
      BY <2>1, WorkingFrom DEF Moves, Step, JobStep, Translating, Resuming, Publishing, Moving, Working, Finishing,
            Start, Goto, Begun
    <3> QED
      BY <1>1, <1>4, <2>1, <3>1, MovingKeeps DEF Way
  <2>2. pc[j] = "opened" /\ IsOpen(j) /\ UNCHANGED storeVars
    BY <1>1, <1>4, <2>1 DEF Hands
  <2>3. Continues(j) /\ "opened" \in AtWork
    BY <2>2, Mover, AtWorkIs DEF Opening
  <2>4. PICK f : f = held[j]
    OBVIOUS
  <2>5. f \in Job /\ f # NoJob /\ f # j /\ rows[f].consumer = j /\ rows[f].status # "absent"
    BY <2>2, <2>3, <2>4, Mover, NoJobIsNone DEF Holds, Opening, Job
  <2>6. rows[j].root = rows[f].root
    BY <2>2, <2>5, RootsShared DEF Ground, IsOpen
  <2>7. Live(f)
    BY <2>2, <2>6 DEF Live, IsOpen
  <2>8. Straight(f, j)
    BY <2>2, <2>3, <2>4, <2>5, <2>7 DEF Follow, Opening
  <2>9. Straight(j, NoJob)
    BY <2>2, <2>5, <2>8, Mover, StraightAdvances DEF IsOpen
  <2> QED
    BY <1>4, <2>2, <2>9, StraightAges
<1> QED
  BY <1>2, <1>3, <1>4 DEF Follow, Live

-----------------------------------------------------------------------------
(* The same of the state after a step.                                     *)
Returned(h, k) ==
  /\ h # k /\ Straight(h, k) /\ jobs[k].status = "failed"
  /\ rows[k].status \in {"absent", "pending"} /\ rows[k].consumer = NoJob
Advanced(h, k) ==
  /\ Ground /\ h # k /\ Straight(h, k) /\ rows[h].consumer = k
  /\ rows[k].status = "open" /\ Acknowledged(k) /\ rows[k].consumer = NoJob

LEMMA NextReturns ==
  ASSUME NEW h, NEW k \in Job
  PROVE  Returned(h, k)' => Straight(h, NoJob)'
<1>1. Returned(h, k) => Straight(h, NoJob)
  BY StraightReturns DEF Returned
<1> QED
  BY <1>1, PTL

LEMMA NextAdvances ==
  ASSUME NEW h \in Job, NEW k \in Job
  PROVE  Advanced(h, k)' => Straight(k, NoJob)' /\ (rows[k].root = rows[h].root)'
<1>1. Advanced(h, k) => Straight(k, NoJob) /\ rows[k].root = rows[h].root
  <2> SUFFICES ASSUME Advanced(h, k) PROVE Straight(k, NoJob) /\ rows[k].root = rows[h].root
    OBVIOUS
  <2>1. Straight(k, NoJob)
    BY StraightAdvances DEF Advanced
  <2>2. rows[h].status # "absent"
    BY DEF Advanced, Straight, Opened, Stored
  <2> QED
    BY <2>1, <2>2, RootsShared DEF Advanced, Ground
<1> QED
  BY <1>1, PTL

(* The heir of a stop that a job hands over is its own checkpoint.         *)
LEMMA OwnHeir ==
  ASSUME Alone, MixedPairs = FALSE, Ground, NEW m \in Job, Moves(m), HandInv, pc'[m] = "handed", Live(m)'
  PROVE  Straight(m, NoJob)' /\ rows[m].status # "absent" /\ pc[m] \in {"tidy", "opened"}
<1>1. /\ Shape /\ Way(m) /\ Written(m) /\ Hands(m) /\ Frame(m) /\ StoreStep(m) /\ UNCHANGED expired
      /\ rows[m].consumer = NoJob /\ pc[m] # "handed" /\ Stored \subseteq Job
  BY Solo, Mover, TracksStep, GroundFacts DEF Ground, WorkInv, OrderInv, Tracks, Moves, Ended
<1>2. CASE pc[m] = "tidy" /\ verdict[m] # "good"
  <2>1. UNCHANGED <<jobs, expired, head>> /\ (UNCHANGED rows \/ Close(held[m]))
    BY <1>1, <1>2 DEF Hands
  <2>2. Continues(m) /\ held[m] \in Job /\ held[m] # m
    BY <1>1, <1>2, Mover, NoJobIsNone DEF Way, Resumed, Job
  <2>3. rows'[m].root = rows[m].root
    BY <1>1, <1>2 DEF StoreStep, RowKept, RowSaved, RowTaken
  <2>4. Live(m)
    BY <1>1, <2>3 DEF Live
  <2>5. Straight(m, NoJob)
    BY <1>2, <2>2, <2>4 DEF HandInv, Follow
  <2>6. Straight(m, NoJob)'
    BY <1>1, <2>1, <2>2, <2>5, StraightTidied
  <2> QED
    BY <1>2, <2>5, <2>6 DEF Straight, Opened, Stored
<1>3. CASE pc[m] = "opened" /\ ~Continues(m) /\ IsOpen(m) /\ UNCHANGED storeVars
  <2>1. ASSUME NEW c \in Stored, c # m PROVE rows[c].status # "open"
    <3>1. CASE c < m
      <4>1. Past(mode[m], pc[m])
        BY <1>1, <1>3 DEF Past, Done, Shape, Mode, Continues
      <4> QED
        BY <1>1, <3>1, <4>1 DEF HandInv, Cleared, Empty
    <3>2. CASE m < c
      <4>1. pc[c] = "idle"
        BY <1>1, <1>3, <3>2 DEF Ground, OrderInv, Sequence, Ended
      <4> QED
        BY <1>1, <4>1 DEF Ground, WorkInv, Written
    <3> QED
      BY <1>1, <2>1, <3>1, <3>2 DEF Job
  <2>2. m \in Opened(Stored) /\ Recorded /\ Opened(Stored) \subseteq {m}
    BY <1>3, <2>1 DEF IsOpen, Opened, Stored, Recorded
  <2>3. Covers({m}, m, NoJob)
    BY <1>1, <2>2, NoJobIsNone DEF Covers, Closes, Fits, Opened
  <2>4. Straight(m, NoJob)
    BY <2>2, <2>3 DEF Straight
  <2>5. Straight(m, NoJob)'
    BY <1>3, <2>4, StraightAges
  <2> QED
    BY <1>3, <2>5 DEF IsOpen
<1> QED
  BY <1>1, <1>2, <1>3 DEF Hands

(* A stop that was handed over before, and the job that moves after it.    *)
LEMMA StillUndisturbed ==
  ASSUME Alone, MixedPairs = FALSE, Ground, NEW m \in Job, Moves(m), NEW i \in Job, pc[i] = "handed", Undisturbed(i)'
  PROVE  /\ Undisturbed(i) /\ i < m /\ rows'[i].root = rows[i].root /\ rows'[i].target = rows[i].target
         /\ pc[m] # "idle" => Retried(m) /\ pc[m] \in AtWork \ {"tidy"}
         /\ pc'[m] # "idle" => Retried(m)'
<1>1. /\ Shape /\ Way(m) /\ Settled(m) /\ Hands(m) /\ Frame(m) /\ StoreStep(m) /\ Detail(m) /\ UNCHANGED expired
      /\ i # m /\ pc[m] \notin {"handed", "ended", "lost"} /\ pc'[m] \in Stop
  BY Solo, TracksStep, StepEffects DEF Ground, WorkInv, OrderInv, Tracks, Moves, Ended, Shape
<1>2. i < m
  <2> SUFFICES ASSUME m < i PROVE FALSE
    BY <1>1 DEF Job
  <2> QED
    BY <1>1 DEF Ground, OrderInv, Sequence, Ended
<1>3. rows'[i].root = rows[i].root /\ rows'[i].target = rows[i].target
  <2>1. RowKept(i) \/ RowTaken(m, i)
    BY <1>1 DEF StoreStep, RowSaved
  <2> QED
    BY <1>1, <2>1 DEF RowKept, RowTaken, Detail
<1>4. Live(i)
  BY <1>1, <1>3 DEF Undisturbed, Live
<1>5. pc'[m] # "idle" => Retried(m)'
  BY <1>2 DEF Undisturbed
<1>6. pc[m] # "idle" => Retried(m) /\ pc[m] \in AtWork \ {"tidy"}
  <2> SUFFICES ASSUME pc[m] # "idle" PROVE Retried(m) /\ pc[m] \in AtWork \ {"tidy"}
    OBVIOUS
  <2>1. pc'[m] # "idle"
    BY <1>1, LoadsOnce DEF Moves
  <2>2. Continues(m)
    BY <1>5, <2>1, Mover DEF Retried
  <2>3. pc[m] \in AtWork
    BY Solo
  <2>4. ASSUME pc[m] = "tidy" PROVE FALSE
    <3>1. pc'[m] = "ended" /\ jobs'[m].status = "failed"
      BY <1>1, <1>5, <2>1, <2>4, AtWorkIs DEF Hands, Retried
    <3>2. jobs[m].status = "failed" /\ verdict[m] = "good"
      BY <1>1, <2>4, <3>1 DEF Hands
    <3> QED
      BY <1>1, <2>2, <2>4, <3>2 DEF Settled
  <2> QED
    BY <2>2, <2>3, <2>4 DEF Retried
<1>7. ASSUME NEW k \in Job, k > i, k # m, pc[k] # "idle" PROVE Retried(k)
  <2>1. pc'[k] = pc[k] /\ jobs'[k] = jobs[k] /\ (Continues(k)' <=> Continues(k))
    BY <1>1, <1>7 DEF Frame, StoreStep, Continues
  <2>2. Retried(k)'
    BY <1>7, <2>1 DEF Undisturbed
  <2> QED
    BY <2>1, <2>2 DEF Retried
<1>8. Undisturbed(i)
  BY <1>4, <1>6, <1>7 DEF Undisturbed
<1> QED
  BY <1>2, <1>3, <1>5, <1>6, <1>8

(* The heir is the same or the job that moves, by what that job holds.     *)
Goes(m, h) ==
  /\ h # m
  /\ rows'[h].root = rows[h].root /\ rows'[h].target = rows[h].target
  /\ held'[m] \in {NoJob, h}
  /\ held'[m] = NoJob \/ pc'[m] \notin AtWork => Straight(h, NoJob)'
Inherits(m, h) ==
  /\ rows'[m].root = rows'[h].root /\ rows[h].target <= rows'[m].target /\ rows'[m].target <= head'
  /\ rows'[h].root = rows[h].root /\ pc'[m] \notin AtWork /\ Straight(m, NoJob)' /\ m > h

LEMMA Apart ==
  ASSUME Alone, Ground, NEW m \in Job, Moves(m), NEW h \in Job, h # m
  PROVE  rows'[h].root = rows[h].root /\ rows'[h].target = rows[h].target
<1>1. StoreStep(m) /\ Detail(m)
  BY Solo
<1>2. RowKept(h) \/ RowTaken(m, h)
  BY <1>1 DEF StoreStep, RowSaved
<1> QED
  BY <1>1, <1>2 DEF RowKept, RowTaken, Detail

(* The job was admitted to nothing yet: it starts, looks up, or gives up.  *)
LEMMA HeirFound ==
  ASSUME Alone, MixedPairs = FALSE, Ground, NEW m \in Job, Moves(m), NEW h \in Job,
         pc[m] = "idle" \/ (Continues(m) /\ pc[m] \in AtWork \ {"tidy"}), held[m] = NoJob, Straight(h, NoJob)
  PROVE  Goes(m, h)
<1>1. /\ Shape /\ Way(m) /\ Sourced(m) /\ Stands(m) /\ StoreStep(m) /\ UNCHANGED expired /\ rows[h].status = "open" /\ Live(h)
  BY Solo DEF Ground, WorkInv, OrderInv, Straight, Opened
<1>2. pc[m] \in {"idle", "load", "fail"}
  BY <1>1, AtWorkIs, Mover, NoJobIsNone
<1>3. rows[m].status # "open"
  <2>1. CASE pc[m] = "idle"
    BY <2>1, Mover
  <2>2. CASE pc[m] # "idle"
    BY <1>1, <1>2, <2>2 DEF Stands
  <2> QED
    BY <2>1, <2>2
<1>4. UNCHANGED rows
  <2>1. CASE pc[m] = "idle"
    <3>1. PICK n \in Modes : Start(m, n)
      BY <2>1, Solo, AtWorkIs
    <3> QED
      BY <3>1 DEF Start, InsertJob
  <2>2. CASE pc[m] # "idle"
    BY <1>1, <1>2, <2>2, MakesStep DEF Makes, Moves
  <2> QED
    BY <2>1, <2>2
<1>5. CASE held'[m] # NoJob
  <2>1. held'[m] \in FoundBySource /\ UNCHANGED <<jobs, rows, expired>>
    BY <1>5, AdmittedOnce DEF Ground, Moves
  <2>2. held'[m] = h
    BY <2>1, StraightFound
  <2>3. Straight(h, NoJob)'
    BY <1>1, <2>1, StraightAges DEF Live
  <2> QED
    BY <1>1, <1>3, <2>1, <2>2, <2>3 DEF Goes
<1>6. CASE held'[m] = NoJob
  <2>1. \A c \in Job : rows[c].consumer # m
    BY GroundFacts, NoJobIsNone
  <2>2. \A i \in Job : i # m => jobs'[i] = jobs[i]
    BY <1>1 DEF StoreStep
  <2>3. Straight(h, NoJob)'
    BY <1>1, <1>3, <1>4, <2>1, <2>2, StraightBeside
  <2> QED
    BY <1>1, <1>3, <1>4, <1>6, <2>3 DEF Goes
<1> QED
  BY <1>5, <1>6

(* The job was admitted to the heir.  It is at work on it still; or it has *)
(* recorded its failure, and its own checkpoint, if it has opened one, is  *)
(* the next heir.                                                          *)
LEMMA HeirWorked ==
  ASSUME Alone, MixedPairs = FALSE, Ground, Ground', BoundInv, NEW m \in Job, Moves(m), HandInv, Heads(m)',
         NEW h \in Job, Rowed(m, h), Live(h)', Retried(m)'
  PROVE  Goes(m, h) \/ Inherits(m, h)
<1>1. /\ Shape /\ Shape' /\ StoreStep(m) /\ Detail(m) /\ Written(m) /\ Stands(m)' /\ WorkInv' /\ OrderInv'
      /\ pc[m] \notin {"idle", "tidy"} /\ Continues(m) /\ pc[m] \in AtWork /\ held[m] = h
      /\ Follow(m) /\ Holds(m) /\ Kept(m) /\ Heads(m)
  BY Solo, AtWorkIs DEF Ground, WorkInv, OrderInv, Rowed, HandInv
<1>2. /\ Straight(h, m)' /\ (rows'[m].status = "open" => rows'[h].consumer = m) /\ Makes(m)
  BY <1>1, FollowAtWork
<1>3. /\ h # NoJob /\ h < m /\ h # m /\ rows[m].consumer = NoJob /\ (Continues(m)' <=> Continues(m))
      /\ pc[m] # "delete" /\ pc[m] # "load" /\ held'[m] = h
  <2>1. h # NoJob /\ pc[m] # "load"
    BY <1>1, NoJobIsNone DEF Ground, OriginInv
  <2> QED
    BY <1>1, <2>1, Mover DEF Job
<1>4. rows'[h].root = rows[h].root /\ rows'[h].target = rows[h].target
  BY <1>3, Apart
<1>5. CASE pc'[m] \in AtWork
  BY <1>3, <1>4, <1>5 DEF Goes
<1>6. CASE pc'[m] \notin AtWork
  <2>1. jobs'[m].status = "failed"
    BY <1>6 DEF Retried
  <2>2. rows'[m].consumer = NoJob /\ rows'[m].status \in RowStatus
    <3>1. rows'[m].consumer = NoJob
      BY <1>1, <1>3 DEF StoreStep, RowKept, RowSaved, RowTaken
    <3> QED
      BY <1>1, <3>1 DEF StoreStep, RowShape
  <2>3. rows'[m].status # "closed"
    <3>1. rows \in [Job -> RowShape] /\ rows[m].status # "closed"
      BY <1>1 DEF Shape, Kept
    <3> QED
      BY <1>1, <1>2, <1>3, <3>1 DEF Makes, RowShape, Stored1
  <2>4. CASE rows'[m].status \in {"absent", "pending"}
    <3>1. Returned(h, m)'
      BY <1>2, <1>3, <2>1, <2>2, <2>4 DEF Returned
    <3>2. Straight(h, NoJob)'
      BY <3>1, NextReturns
    <3> QED
      BY <1>3, <1>4, <3>2 DEF Goes
  <2>5. CASE rows'[m].status = "open"
    <3>1. Advanced(h, m)'
      BY <1>1, <1>2, <1>3, <2>2, <2>5 DEF Advanced, Stands
    <3>2. Straight(m, NoJob)' /\ rows'[m].root = rows'[h].root
      BY <3>1, NextAdvances
    <3>3. rows[m].status # "absent" /\ pc[m] # "save"
      <4>1. RowKept(m)
        BY <1>1, <1>3, <2>5 DEF StoreStep, RowSaved, RowTaken
      <4> QED
        BY <1>1, <2>5, <4>1 DEF RowKept, Written
    <3>4. rows'[m].target = rows[m].target /\ rows[m].target <= head
      BY <1>1, <3>3 DEF Detail, Heads
    <3>5. head <= head' /\ head \in Nat /\ head' \in Nat /\ rows[m].target \in Nat
      <4>1. head \in Nat /\ commits \in Nat /\ head' \in Nat /\ head <= commits /\ rows[m] \in RowShape
        BY <1>1 DEF BoundInv, Places, Shape
      <4>2. head <= head'
        BY <1>1, <1>3, <4>1, HeadStep DEF Moves
      <4> QED
        BY <4>1, <4>2 DEF RowShape
    <3>6. rows'[h].target <= rows'[m].target
      BY <1>1, <1>3, <2>5 DEF Heads
    <3> QED
      BY <1>3, <1>4, <1>6, <3>2, <3>4, <3>5, <3>6 DEF Inherits
  <2> QED
    BY <2>2, <2>3, <2>4, <2>5 DEF RowStatus
<1> QED
  BY <1>5, <1>6

LEMMA TipMoves ==
  ASSUME Alone, MixedPairs = FALSE, Ground, Ground', BoundInv, NEW m \in Job, Moves(m), HandInv, Heads(m)',
         NEW i \in Job
  PROVE  Tip(i)'
<1> SUFFICES ASSUME Undisturbed(i)' PROVE \E h \in Job : Heir(i, h)'
  BY DEF Tip
<1>1. /\ Shape /\ Shape' /\ Frame(m) /\ \A k \in Job : k # m => pc'[k] \notin AtWork /\ held'[k] = held[k]
      /\ \A c \in Job : rows[c].target \in Nat /\ rows'[c].target \in Nat
      /\ head \in Nat /\ head' \in Nat /\ (pc[m] # "delete" => head <= head')
  <2>1. /\ Shape /\ Shape' /\ Frame(m) /\ \A k \in Job : k # m => pc'[k] \notin AtWork
    BY Solo DEF Ground, WorkInv
  <2>2. /\ head \in Nat /\ commits \in Nat /\ head' \in Nat /\ head <= commits
        /\ \A c \in Job : rows[c] \in RowShape /\ rows'[c] \in RowShape
    BY <2>1 DEF BoundInv, Places, Shape
  <2>3. pc[m] # "delete" => head <= head'
    BY <2>1, <2>2, HeadStep DEF Moves
  <2> QED
    BY <2>1, <2>2, <2>3 DEF Frame, RowShape
<1>2. CASE pc[i] # "handed"
  <2>1. i = m /\ pc'[m] = "handed" /\ Live(m)'
    BY <1>1, <1>2 DEF Undisturbed, Frame
  <2>2. Straight(m, NoJob)' /\ rows[m].status # "absent" /\ pc[m] \in {"tidy", "opened"}
    BY <2>1, OwnHeir
  <2>3. rows'[m].target = rows[m].target /\ rows[m].target <= head
    BY <2>2, Solo, AtWorkIs DEF HandInv, Heads, Detail, Opening
  <2>4. rows'[m].target <= head' /\ \A k \in Job : pc'[k] \notin AtWork
    BY <1>1, <2>1, <2>2, <2>3, AtWorkIs
  <2> QED
    BY <1>1, <2>1, <2>2, <2>4 DEF Heir, Job
<1>3. CASE pc[i] = "handed"
  <2>1. /\ Undisturbed(i) /\ i < m /\ rows'[i].root = rows[i].root /\ rows'[i].target = rows[i].target
        /\ pc[m] # "idle" => Retried(m) /\ pc[m] \in AtWork \ {"tidy"}
        /\ pc'[m] # "idle" => Retried(m)'
    BY <1>3, StillUndisturbed
  <2>2. PICK h \in Job : Heir(i, h)
    BY <2>1 DEF HandInv, Tip
  <2>3. pc[m] # "idle" => Continues(m) /\ pc[m] \in AtWork \ {"tidy"}
    BY <2>1 DEF Retried
  <2>4. pc[m] # "delete" /\ head <= head'
    BY <1>1, <2>3, Mover
  <2>5. Goes(m, h) \/ Inherits(m, h)
    <3>1. CASE held[m] = NoJob
      <4>1. \A k \in Job : pc[k] \in AtWork => held[k] # h
        BY <3>1, Solo, NoJobIsNone
      <4>2. Straight(h, NoJob)
        BY <2>2, <4>1 DEF Heir
      <4> QED
        BY <2>3, <3>1, <4>2, HeirFound
    <3>2. CASE held[m] # NoJob
      <4>1. pc[m] # "idle"
        BY <3>2 DEF Ground, OriginInv
      <4>2. held[m] = h
        BY <2>2, <2>3, <3>2, <4>1 DEF Heir
      <4>3. Rowed(m, h)
        BY <2>3, <4>1, <4>2 DEF Rowed
      <4>4. h # m
        BY <3>2, <4>2, Mover DEF Job
      <4>5. Live(h)'
        BY <2>1, <2>2, <4>4, Apart DEF Heir, Undisturbed, Live
      <4>6. Retried(m)'
        BY <1>1, <2>1, <4>1, LoadsOnce DEF Moves
      <4> QED
        BY <4>3, <4>5, <4>6, HeirWorked
    <3> QED
      BY <3>1, <3>2
  <2>6. CASE Goes(m, h)
    <3>1. \A k \in Job : pc'[k] \in AtWork => held'[k] \in {NoJob, h}
      BY <1>1, <2>6 DEF Goes
    <3>2. (\A k \in Job : pc'[k] \in AtWork => held'[k] # h) => Straight(h, NoJob)'
      BY <2>6 DEF Goes
    <3>3. rows'[h].root = rows'[i].root /\ rows'[i].target <= rows'[h].target /\ rows'[h].target <= head' /\ h >= i
      BY <1>1, <2>1, <2>2, <2>4, <2>6 DEF Heir, Goes
    <3> QED
      BY <3>1, <3>2, <3>3 DEF Heir
  <2>7. CASE Inherits(m, h)
    <3>1. \A k \in Job : pc'[k] \notin AtWork
      BY <1>1, <2>7 DEF Inherits
    <3>2. rows'[m].root = rows'[i].root /\ rows'[i].target <= rows'[m].target /\ rows'[m].target <= head' /\ m >= i
      BY <1>1, <2>1, <2>2, <2>7 DEF Heir, Inherits, Job
    <3> QED
      BY <2>7, <3>1, <3>2 DEF Heir, Inherits
  <2> QED
    BY <2>5, <2>6, <2>7
<1> QED
  BY <1>2, <1>3

-----------------------------------------------------------------------------
StopInv == Ground /\ BoundInv /\ HandInv

LEMMA PastAtWork == ASSUME NEW m, NEW p, Past(m, p) PROVE p \in AtWork
BY DEF Past, Done, AtWork, Begun, Handing

LEMMA HandMoves ==
  ASSUME Alone, MixedPairs = FALSE, Ground, Ground', BoundInv, HandInv, NEW m \in Job, Moves(m)
  PROVE  HandInv'
<1>1. \A k \in Job : Cleared(k) /\ Holds(k) /\ Kept(k) /\ Heads(k) /\ Follow(k)
  BY DEF HandInv
<1>2. WorkInv' /\ OrderInv'
  BY DEF Ground
<1>3. Cleared(m)' /\ Holds(m)' /\ Kept(m)' /\ Heads(m)' /\ Follow(m)'
  BY <1>1, <1>2, ClearedMoves, HoldsMoves, KeptMoves, HeadsMover, FollowMoves
<1>4. ASSUME NEW k \in Job, k # m PROVE Cleared(k)' /\ Holds(k)' /\ Kept(k)' /\ Heads(k)' /\ Follow(k)'
  <2>1. pc'[k] \notin AtWork
    BY <1>4, Solo
  <2>2. ~Past(mode'[k], pc'[k]) /\ pc'[k] \notin Opening \cup {"tidy", "sweep"}
    BY <2>1, PastAtWork, AtWorkIs
  <2>3. Heads(k)'
    BY <1>1, <1>4, HeadsBeside
  <2> QED
    BY <2>1, <2>2, <2>3 DEF Cleared, Holds, Kept, Follow
<1>5. \A i \in Job : Tip(i)'
  BY <1>3, TipMoves
<1> QED
  BY <1>3, <1>4, <1>5 DEF HandInv

LEMMA StopStep ==
  ASSUME Alone, MixedPairs = FALSE, StopInv, NEW j \in Job, Step(j)
  PROVE  StopInv'
<1>1. Ground /\ BoundInv /\ HandInv /\ WorkInv /\ LineageInv /\ OriginInv /\ OrderInv
  BY DEF StopInv, Ground
<1>2. WorkInv' /\ LineageInv' /\ OriginInv' /\ OrderInv' /\ BoundInv'
  BY <1>1, WorkStep, LineageStep, OriginStep, OrderStep, BoundStep
<1>3. CASE Ended(j)
  <2>1. Calm
    BY <1>1, <1>3, EndedAges
  <2> QED
    BY <1>1, <1>2, <2>1, CalmKeeps DEF StopInv, Ground
<1>4. CASE ~Ended(j)
  <2>1. Moves(j)
    BY <1>4 DEF Moves
  <2>2. \A c \in Job : Consumed(c)'
    BY <1>1, <1>2, <2>1, ConsumedMoves
  <2>3. Ground'
    BY <1>2, <2>2 DEF Ground
  <2> QED
    BY <1>1, <1>2, <2>1, <2>3, HandMoves DEF StopInv
<1> QED
  BY <1>3, <1>4

LEMMA StopQuiet ==
  ASSUME StopInv, OutsidePush \/ UNCHANGED vars
  PROVE  StopInv'
<1>1. Ground /\ BoundInv /\ HandInv /\ WorkInv /\ LineageInv /\ OriginInv /\ OrderInv
  BY DEF StopInv, Ground
<1>2. UNCHANGED <<storeVars, mode, pc, pinned, contextVars, resumeVars, endVars>>
  BY DEF OutsidePush, vars
<1>3. WorkInv' /\ LineageInv' /\ BoundInv'
  BY <1>1, QuietStep, LineageQuiet, BoundQuiet
<1>4. OriginInv'
  BY <1>1, <1>2 DEF OriginInv, Traced, Continues
<1>5. OrderInv'
  BY <1>1, <1>2 DEF OrderInv, Sequence, Sourced, Later, Stands, Continues, Acknowledged, Ended
<1>6. Calm
  <2>1. head \in Nat /\ commits \in Nat /\ head <= commits /\ head' \in Nat
    BY <1>1, <1>3 DEF BoundInv, Places, WorkInv, Shape
  <2>2. head <= head'
    BY <2>1 DEF OutsidePush, vars
  <2> QED
    BY <1>2, <2>1, <2>2 DEF Calm
<1>7. HandInv' /\ \A c \in Job : Consumed(c)'
  BY <1>1, <1>6, CalmKeeps
<1> QED
  BY <1>3, <1>4, <1>5, <1>7 DEF StopInv, Ground

LEMMA StopInit == Init => StopInv
<1> SUFFICES ASSUME Init PROVE StopInv
  OBVIOUS
<1>1. WorkInv /\ LineageInv /\ OriginInv /\ OrderInv /\ BoundInv
  BY WorkInit, LineageInit, OriginInit, OrderInit, BoundInit
<1>2. \A j \in Job : pc[j] = "idle" /\ mode[j] = "translate" /\ rows[j].consumer = NoJob
  BY DEF Init, StoreInit, NoRow
<1>3. \A j \in Job : Consumed(j)
  BY <1>2 DEF Consumed
<1>4. ASSUME NEW j \in Job PROVE Cleared(j) /\ Holds(j) /\ Kept(j) /\ Heads(j) /\ Follow(j) /\ Tip(j)
  <2>1. pc[j] = "idle" /\ ~Continues(j)
    BY <1>2 DEF Continues
  <2>2. ~Past(mode[j], pc[j])
    BY <2>1, PastAtWork, AtWorkIs
  <2> QED
    BY <2>1, <2>2, AtWorkIs DEF Cleared, Holds, Kept, Heads, Follow, Tip, Undisturbed
<1> QED
  BY <1>1, <1>3, <1>4 DEF StopInv, Ground, HandInv

LEMMA StopHolds == StopInv => StopStaysResumable
<1> SUFFICES ASSUME StopInv, Quiet, NEW j \in Job,
                    pc[j] = "handed", head = rows[j].target, rows[j].root \notin expired,
                    \A k \in Job : k > j /\ pc[k] # "idle" =>
                      Continues(k) /\ pc[k] = "ended" /\ jobs[k].status = "failed"
             PROVE  \E c \in FoundBySource : rows[c].target = head
  BY DEF StopStaysResumable
<1>1. Undisturbed(j)
  BY DEF Undisturbed, Retried, Live
<1>2. PICK h \in Job : Heir(j, h)
  BY <1>1 DEF StopInv, HandInv, Tip
<1>3. Straight(h, NoJob)
  BY <1>2 DEF Heir, Quiet, Running
<1>4. FoundBySource = {h}
  BY <1>3, StraightFound DEF StopInv
<1>5. rows[h] \in RowShape /\ head \in Nat /\ rows[j].target <= rows[h].target /\ rows[h].target <= head
  BY <1>2 DEF Heir, StopInv, Ground, WorkInv, Shape
<1>6. rows[h].target = head
  BY <1>5 DEF RowShape
<1> QED
  BY <1>4, <1>6

(* A stop that was handed over stays resumable from the source for any     *)
(* number of continuations that recorded a failure after it, of commits,   *)
(* faults and pushes from outside, when the jobs ran one after the other,  *)
(* none was asked for on the translation PR, and no verification stopped   *)
(* for a mixed pair: the cases in which a job leaves open rows behind that *)
(* the lookup cannot tell apart.                                           *)
THEOREM StopResumable ==
  ASSUME MaxRunning = 1, "continue_translation" \notin Modes, MixedPairs = FALSE
  PROVE  Spec => []StopStaysResumable
<1>1. Init => StopInv
  BY StopInit
<1>2. StopInv /\ [Next]_vars => StopInv'
  BY NextStep, StopStep, StopQuiet DEF Alone
<1>3. StopInv => StopStaysResumable
  BY StopHolds
<1> QED
  BY <1>1, <1>2, <1>3, PTL DEF Spec

=============================================================================
