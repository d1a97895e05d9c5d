---------------------------- MODULE PolicyReview ----------------------------
(***************************************************************************)
(* The paid documentation review of a pull request, end to end: the gate   *)
(* job, the review job (prepare, container, publish), the worker in the    *)
(* container and the finalizer, all meeting in the ledger of ReviewStore   *)
(* and in the pull request on GitHub.                                      *)
(*                                                                         *)
(* One owner is one attempt of one Actions run.  Its gate job and its      *)
(* review job run one after the other and are one process, host[o]; the    *)
(* container is another, worker[o].  A signal stops the host anywhere, a   *)
(* runner may vanish, the container may outlive the host, and every store  *)
(* call may fail before or after it took effect.  As in ReviewStore, an    *)
(* operator marked "faulty" is the one below it with a plausible bug.      *)
(***************************************************************************)
EXTENDS ReviewStore, Naturals

CONSTANTS
  EventOf,        \* [Owner -> Event]: what happened on GitHub
  FirstHead,      \* [PR -> Head]: the head a pull request is opened with
  Collaborators,  \* pull requests whose author is a repository collaborator
  Closable,       \* pull requests that are closed, reopened, made drafts
  MaxFaults,      \* bound on store and API faults in one behaviour
  Orphans         \* owners whose run may complete while its container still lives

Event == {"opened", "synchronize", "doc_review", "ok-to-test", "closed"}

ASSUME ReviewAssumption ==
  /\ EventOf \in [Owner -> Event]
  /\ FirstHead \in [PR -> Head]
  /\ Collaborators \subseteq PR
  /\ Closable \subseteq PR
  /\ MaxFaults \in Nat
  /\ Orphans \subseteq Owner
  /\ Attempt = 1..2       \* review_snapshot: for _ in range(2)

VARIABLES
  head,       \* [PR -> Head]: head_sha of the pull request
  past,       \* [PR -> SUBSET Head]: heads it already had
  live,       \* [PR -> BOOLEAN]: open and not a draft
  host,       \* [Owner -> HostStage]
  cancelled,  \* [Owner -> BOOLEAN]: the concurrency group has signalled it
  worker,     \* [Owner -> WorkerStage]
  tries,      \* [Owner -> 0..2]: reservations the worker has made
  unknown,    \* [Owner -> BOOLEAN]: RunBudget.unknown
  saved,      \* [Owner -> BOOLEAN]: report.json exists
  recovery,   \* [Owner -> RecoveryStage]: YdbReviewStore.recover, then finish
  base,       \* [Owner -> Run]: the report recover has read
  finalized,  \* [Owner -> BOOLEAN]: the completed run was finalized
  calls,      \* [Owner -> [Attempt -> Call]]: what the provider has seen
  late,       \* [Owner -> Nat]: calls sent after the head had moved
  faults      \* faults so far

githubVars == <<head, past, live>>
workerVars == <<worker, tries, unknown, calls, late>>
closeVars  == <<recovery, base, finalized>>
vars == <<storeVars, githubVars, host, cancelled, workerVars, saved, closeVars, faults>>

Preparing == {"admit", "queue", "debounce", "readmit", "snapshot", "claim", "conclude"}
InGroup   == Preparing \cup {"pending", "refinish", "ready", "running", "remove", "publish", "recover"}
HostStage == {"idle", "gate", "gate_queue", "gate_finish", "done"} \cup InGroup
Alive     == {"begin", "configure", "guard", "reserve", "send", "call", "settle", "finish"}
WorkerStage == {"none", "exited", "dead"} \cup Alive
RecoveryStage == {"none", "runs", "ledger"} \cup Report
Call == {"none", "open", "known", "unknown"}

SystemTypeOK ==
  /\ StoreTypeOK
  /\ head \in [PR -> Head] /\ past \in [PR -> SUBSET Head] /\ live \in [PR -> BOOLEAN]
  /\ host \in [Owner -> HostStage] /\ cancelled \in [Owner -> BOOLEAN]
  /\ worker \in [Owner -> WorkerStage] /\ tries \in [Owner -> 0..2]
  /\ unknown \in [Owner -> BOOLEAN] /\ saved \in [Owner -> BOOLEAN]
  /\ recovery \in [Owner -> RecoveryStage] /\ base \in [Owner -> Run]
  /\ finalized \in [Owner -> BOOLEAN]
  /\ calls \in [Owner -> [Attempt -> Call]] /\ late \in [Owner -> 0..2]
  /\ faults \in 0..MaxFaults

Init ==
  /\ StoreInit
  /\ head = FirstHead
  /\ past = [p \in PR |-> {head[p]}]
  /\ live = [p \in PR |-> TRUE]
  /\ host = [o \in Owner |-> "idle"]
  /\ cancelled = [o \in Owner |-> FALSE]
  /\ worker = [o \in Owner |-> "none"]
  /\ tries = [o \in Owner |-> 0]
  /\ unknown = [o \in Owner |-> FALSE]
  /\ saved = [o \in Owner |-> FALSE]
  /\ recovery = [o \in Owner |-> "none"]
  /\ base = [o \in Owner |-> "absent"]
  /\ finalized = [o \in Owner |-> FALSE]
  /\ calls = [o \in Owner |-> [n \in Attempt |-> "none"]]
  /\ late = [o \in Owner |-> 0]
  /\ faults = 0

-----------------------------------------------------------------------------
(***************************************************************************)
(* One store call.  It is answered; or the driver retries a transaction    *)
(* that had already committed and answers for the second one; or it        *)
(* commits and the answer is lost; or it fails.                            *)
(***************************************************************************)
Outcome == {"answered", "retried", "lost", "failed"}

Counted(out) ==
  /\ out # "answered" => faults < MaxFaults
  /\ faults' = IF out = "answered" THEN faults ELSE faults + 1

Raises(out) == out \in {"lost", "failed"}

(* A signal may also break a call of the job it stops off at either end.   *)
HostCounted(o, out) ==
  IF cancelled[o] /\ Raises(out) THEN UNCHANGED faults ELSE Counted(out)

(* A fault of something other than the store.                              *)
Fault == faults < MaxFaults /\ faults' = faults + 1

QueueCall(o, out)     == IF out = "failed" THEN UNCHANGED storeVars ELSE Queue(o)
ClaimCall(o, out)     == IF out = "failed" THEN UNCHANGED storeVars ELSE ClaimLease(o)
ConfigureCall(o, out) == IF out = "failed" THEN UNCHANGED storeVars ELSE Configure(o)
ReserveCall(o, n, out) == IF out = "failed" THEN UNCHANGED storeVars ELSE Reserve(o, n)
SettleCall(o, n, kind, out) ==
  IF out = "failed" THEN UNCHANGED storeVars ELSE Settle(o, n, kind)
FinishCall(o, report, out) ==
  IF out = "failed" THEN UNCHANGED storeVars ELSE Finish(o, report)

(* What a retried transaction answers is decided by the state its first    *)
(* run left behind: the lease and the reservation are already taken, a     *)
(* settled attempt is no longer pending, an unknown one still is.          *)
ClaimGranted(o, out)      == out = "answered" /\ ClaimAccepted(o)
ReserveUnread(o, n, out)  == TRUE        \* faulty: the call is made whatever came of it
ReserveGranted(o, n, out) == out = "answered" /\ ReserveAccepted(o, n)
SettleRecorded(o, n, kind, out) ==
  /\ out \in (IF kind = "unknown" THEN {"answered", "retried"} ELSE {"answered"})
  /\ SettleAccepted(o, n)

-----------------------------------------------------------------------------
(***************************************************************************)
(* admit(): one look at the pull request, the operator of a label event,   *)
(* and the approval of this very head.  "refused" stands for every answer  *)
(* that neither admits nor stops: waiting_for_approval, no reviewable      *)
(* change, paid review disabled.                                           *)
(***************************************************************************)
Current(o) == live[PrOf[o]] /\ head[PrOf[o]] = HeadOf[o]

TrustedOnce(o) == PrOf[o] \in Collaborators \/ approvals' # {}   \* faulty: any head
Trusted(o) == PrOf[o] \in Collaborators \/ <<PrOf[o], HeadOf[o]>> \in approvals'

Admit(o, verdict) ==
  \/ /\ verdict = "cancelled"
     /\ EventOf[o] = "closed" \/ ~live[PrOf[o]]
     /\ UNCHANGED <<storeVars, faults>>
  \/ /\ verdict = "superseded"
     /\ EventOf[o] # "closed" /\ live[PrOf[o]] /\ head[PrOf[o]] # HeadOf[o]
     /\ UNCHANGED <<storeVars, faults>>
  \/ /\ verdict = "unauthorized"
     /\ EventOf[o] \in {"doc_review", "ok-to-test"} /\ Current(o)
     /\ UNCHANGED <<storeVars, faults>>
  \/ /\ verdict \in {"admitted", "refused"}
     /\ EventOf[o] # "closed" /\ Current(o)
     /\ IF EventOf[o] = "ok-to-test" THEN Approve(PrOf[o], HeadOf[o]) ELSE UNCHANGED storeVars
     /\ verdict = "admitted" => Trusted(o)
     /\ UNCHANGED faults
  \/ /\ verdict = "error"
     /\ Fault
     /\ IF EventOf[o] = "ok-to-test" /\ Current(o)
        THEN Approve(PrOf[o], HeadOf[o]) \/ UNCHANGED storeVars
        ELSE UNCHANGED storeVars

Verdict == {"cancelled", "superseded", "unauthorized", "admitted", "refused", "error"}

-----------------------------------------------------------------------------
(***************************************************************************)
(* GitHub: commits, closing and reopening, delivery of the event of o.     *)
(***************************************************************************)
Push(p) ==
  /\ \E h \in Head \ past[p] :
       /\ head' = [head EXCEPT ![p] = h]
       /\ past' = [past EXCEPT ![p] = @ \cup {h}]
  /\ UNCHANGED <<storeVars, live, host, cancelled, workerVars, saved, closeVars, faults>>

Toggle(p) ==
  /\ p \in Closable
  /\ live' = [live EXCEPT ![p] = ~@]
  /\ UNCHANGED <<storeVars, head, past, host, cancelled, workerVars, saved, closeVars, faults>>

Goto(o, from, to) == host[o] = from /\ host' = [host EXCEPT ![o] = to]

Deliver(o) ==
  /\ Goto(o, "idle", "gate")
  /\ HeadOf[o] \in past[PrOf[o]]
  /\ UNCHANGED <<storeVars, githubVars, cancelled, workerVars, saved, closeVars, faults>>

hostFrame == <<githubVars, cancelled, workerVars, saved, closeVars>>

(***************************************************************************)
(* The gate job: queue_review before the cancelling concurrency group.     *)
(* A closed event, and a push whose new head is refused, enter the group   *)
(* only to stop what runs there.                                           *)
(***************************************************************************)
Stops(o, verdict) ==
  \/ EventOf[o] = "closed"
  \/ EventOf[o] = "synchronize" /\ verdict = "refused"

GateAdmit(o) ==
  /\ host[o] = "gate"
  /\ \E v \in Verdict :
       /\ Admit(o, v)
       /\ Goto(o, "gate", CASE v = "error" -> "gate_finish"
                            [] v = "admitted" -> "gate_queue"
                            [] v \notin {"error", "admitted"} ->
                                 IF Stops(o, v) THEN "pending" ELSE "done")
  /\ UNCHANGED hostFrame

GateQueue(o) ==
  /\ host[o] = "gate_queue"
  /\ \E out \in Outcome :
       /\ Counted(out) /\ QueueCall(o, out)
       /\ Goto(o, "gate_queue", IF Raises(out) THEN "gate_finish"
                                ELSE IF QueueAccepted(o) THEN "pending" ELSE "done")
  /\ UNCHANGED hostFrame

(* The gate failed: a free report, its own failure suppressed.             *)
GateFinish(o) ==
  /\ host[o] = "gate_finish"
  /\ \E out \in Outcome : Counted(out) /\ FinishCall(o, "known_cost", out)
  /\ Goto(o, "gate_finish", "done")
  /\ UNCHANGED hostFrame

(***************************************************************************)
(* The concurrency group of the pull request: entering it signals every    *)
(* other member.  A signalled job that has not started never starts; one   *)
(* that has may go on for a while.                                         *)
(***************************************************************************)
Rivals(o) == {q \in Owner \ {o} : PrOf[q] = PrOf[o] /\ host[q] \in InGroup}

EnterGroup(o) ==
  /\ ~cancelled[o]
  /\ Goto(o, "pending", "admit")
  /\ cancelled' = [q \in Owner |-> cancelled[q] \/ q \in Rivals(o)]
  /\ UNCHANGED <<storeVars, githubVars, workerVars, saved, closeVars, faults>>

DropPending(o) ==
  /\ cancelled[o]
  /\ Goto(o, "pending", "done")
  /\ UNCHANGED <<storeVars, faults, hostFrame>>

(***************************************************************************)
(* prepare: prepare_review and the finish that follows a refusal.          *)
(***************************************************************************)
PrepareAdmit(o) ==
  /\ host[o] \in {"admit", "readmit"}
  /\ \E v \in Verdict :
       /\ Admit(o, v)
       /\ \/ Goto(o, "admit", CASE v = "error" -> "refinish"
                                [] v = "admitted" -> "queue"
                                [] v \notin {"error", "admitted"} -> "conclude")
          \/ Goto(o, "readmit", CASE v = "error" -> "refinish"
                                  [] v = "admitted" -> "snapshot"
                                  [] v \notin {"error", "admitted"} -> "conclude")
  /\ UNCHANGED hostFrame

PrepareQueue(o) ==
  /\ host[o] = "queue"
  /\ \E out \in Outcome :
       /\ HostCounted(o, out) /\ QueueCall(o, out)
       /\ Goto(o, "queue", IF Raises(out) THEN "refinish"
                           ELSE IF QueueAccepted(o) THEN "debounce" ELSE "done")
  /\ UNCHANGED hostFrame

(* wait_for_quiet_head: the last look at the pull request, made once the   *)
(* quiet period is over, decides; an earlier look may already end it.      *)
Debounce(o) ==
  /\ \/ Goto(o, "debounce", IF Current(o) THEN "readmit" ELSE "conclude") /\ UNCHANGED faults
     \/ Goto(o, "debounce", "refinish") /\ Fault
  /\ UNCHANGED <<storeVars, hostFrame>>

(* The head is compared again and the snapshot of it is taken.             *)
Snapshot(o) ==
  /\ \/ /\ Goto(o, "snapshot", IF head[PrOf[o]] = HeadOf[o] THEN "claim" ELSE "conclude")
        /\ UNCHANGED faults
     \/ Goto(o, "snapshot", "conclude") /\ UNCHANGED faults    \* nothing reviewable in it
     \/ Goto(o, "snapshot", "refinish") /\ Fault
  /\ UNCHANGED <<storeVars, hostFrame>>

PrepareClaim(o) ==
  /\ host[o] = "claim"
  /\ \E out \in Outcome :
       /\ HostCounted(o, out) /\ ClaimCall(o, out)
       /\ Goto(o, "claim", IF Raises(out) THEN "refinish"
                           ELSE IF ClaimGranted(o, out) THEN "ready" ELSE "conclude")
  /\ UNCHANGED hostFrame

(* store.finish of a refused preparation; its failure is finished again    *)
(* by the error handler of main, whose own failure is suppressed.          *)
Conclude(o) ==
  /\ host[o] \in {"conclude", "refinish"}
  /\ \E out \in Outcome :
       /\ HostCounted(o, out) /\ FinishCall(o, "known_cost", out)
       /\ \/ Goto(o, "conclude", IF Raises(out) THEN "refinish" ELSE "done")
          \/ Goto(o, "refinish", "done")
  /\ UNCHANGED hostFrame

(***************************************************************************)
(* The launcher: start the container, wait, remove it, publish.            *)
(***************************************************************************)
Launch(o) ==
  /\ Goto(o, "ready", "running")
  /\ worker' = [worker EXCEPT ![o] = "begin"]
  /\ UNCHANGED <<storeVars, githubVars, cancelled, tries, unknown, calls, late, saved, closeVars, faults>>

LaunchFails(o) ==
  /\ Goto(o, "ready", "publish") /\ Fault
  /\ UNCHANGED <<storeVars, hostFrame>>

(* docker run has returned, or 1800 seconds have passed.                   *)
StopWaiting(o) ==
  /\ Goto(o, "running", "remove")
  /\ UNCHANGED <<storeVars, faults, hostFrame>>

(* docker rm --force; when it fails nothing is published.                  *)
RemoveContainer(o) ==
  /\ \/ /\ Goto(o, "remove", "publish")
        /\ worker' = [worker EXCEPT ![o] = IF @ \in Alive THEN "dead" ELSE @]
        /\ UNCHANGED faults
     \/ /\ Goto(o, "remove", "done") /\ Fault
        /\ UNCHANGED worker
  /\ UNCHANGED <<storeVars, githubVars, cancelled, tries, unknown, calls, late, saved, closeVars>>

(* The report the worker wrote is published; without one it is recovered.  *)
Publish(o) ==
  /\ IF saved[o]
     THEN Goto(o, "publish", "done") /\ UNCHANGED recovery
     ELSE Goto(o, "publish", "recover") /\ recovery' = [recovery EXCEPT ![o] = "runs"]
  /\ UNCHANGED <<storeVars, githubVars, cancelled, workerVars, saved, base, finalized, faults>>

(***************************************************************************)
(* recover reads the run row, then the ledger; finish stores the result.   *)
(* A missing row and any fault end it.                                     *)
(***************************************************************************)
EndRecovery(o) ==
  /\ recovery' = [recovery EXCEPT ![o] = "none"]
  /\ base' = [base EXCEPT ![o] = "absent"]
  /\ host' = [host EXCEPT ![o] = "done"]

RecoverRun(o) ==
  /\ recovery[o] = "runs"
  /\ \/ /\ runs[o] # "absent"
        /\ base' = [base EXCEPT ![o] = runs[o]]
        /\ recovery' = [recovery EXCEPT ![o] = "ledger"]
        /\ UNCHANGED <<host, faults>>
     \/ /\ IF runs[o] = "absent" THEN UNCHANGED faults ELSE Fault
        /\ EndRecovery(o)
  /\ UNCHANGED <<storeVars, githubVars, cancelled, workerVars, saved, finalized>>

RecoveredAsRead(o) == base[o]   \* faulty: an unfinished report is taken as it is
RecoveredFree(o) ==             \* faulty: the ledger is not looked at
  IF base[o] \in Report THEN base[o] ELSE "known_cost"
Recovered(o) ==
  IF Pending(o) # {} THEN "cost_unknown" ELSE IF base[o] \in Report THEN base[o] ELSE "known_cost"

RecoverLedger(o) ==
  /\ recovery[o] = "ledger"
  /\ \/ /\ recovery' = [recovery EXCEPT ![o] = Recovered(o)]
        /\ UNCHANGED <<host, base, faults>>
     \/ EndRecovery(o) /\ Fault
  /\ UNCHANGED <<storeVars, githubVars, cancelled, workerVars, saved, finalized>>

RecoverFinish(o) ==
  /\ recovery[o] \in Report
  /\ \E out \in Outcome : Counted(out) /\ FinishCall(o, recovery[o], out)
  /\ EndRecovery(o)
  /\ UNCHANGED <<githubVars, cancelled, workerVars, saved, finalized>>

(* The finalizer workflow: the completed run is recovered once more.       *)
Finalize(o) ==
  /\ host[o] = "done" /\ recovery[o] = "none" /\ ~finalized[o]
  /\ o \in Orphans \/ worker[o] \notin Alive
  /\ finalized' = [finalized EXCEPT ![o] = TRUE]
  /\ recovery' = [recovery EXCEPT ![o] = "runs"]
  /\ UNCHANGED <<storeVars, githubVars, host, cancelled, workerVars, saved, base, faults>>

(***************************************************************************)
(* Stopping: the handler of a signalled launcher unwinds it, and a runner  *)
(* may vanish at any time.                                                 *)
(***************************************************************************)
Interrupt(o) ==
  /\ cancelled[o]
  /\ \/ /\ host[o] \in Preparing
        /\ host' = [host EXCEPT ![o] = "refinish"]
        /\ UNCHANGED <<recovery, base>>
     \/ Goto(o, "ready", "publish") /\ UNCHANGED <<recovery, base>>
     \/ host[o] \in {"refinish", "remove", "publish", "recover"} /\ EndRecovery(o)
  /\ UNCHANGED <<storeVars, githubVars, cancelled, workerVars, saved, finalized, faults>>

Vanish(o) ==
  /\ host[o] \notin {"idle", "done"}
  /\ EndRecovery(o)
  /\ UNCHANGED <<storeVars, githubVars, cancelled, workerVars, saved, finalized, faults>>

-----------------------------------------------------------------------------
(***************************************************************************)
(* The worker: run_worker, review_snapshot and BudgetedPolicyModel.invoke. *)
(***************************************************************************)
At(o, from, to) == worker[o] = from /\ worker' = [worker EXCEPT ![o] = to]

GuardedByLease(o) == Owns(o)   \* faulty: the pull request is not looked at again
Guarded(o) == Current(o) /\ Owns(o)

workerFrame == <<githubVars, host, cancelled, closeVars>>

(* guard() once before anything and once before each attempt: it raises    *)
(* when the pull request moved on, when the lease is gone, or on any error.*)
WorkerGuard(o) ==
  /\ \/ At(o, "begin", IF Guarded(o) THEN "configure" ELSE "finish") /\ UNCHANGED faults
     \/ At(o, "guard", IF Guarded(o) THEN "reserve" ELSE "finish") /\ UNCHANGED faults
     \/ (At(o, "begin", "finish") \/ At(o, "guard", "finish")) /\ Fault
  /\ UNCHANGED <<storeVars, tries, unknown, calls, late, saved, workerFrame>>

WorkerConfigure(o) ==
  /\ worker[o] = "configure"
  /\ \E out \in Outcome :
       /\ Counted(out) /\ ConfigureCall(o, out)
       /\ At(o, "configure", IF Raises(out) THEN "finish" ELSE "guard")
  /\ UNCHANGED <<tries, unknown, calls, late, saved, workerFrame>>

(* RunBudget.reserve: refused for lack of money, or recorded.  Anything    *)
(* but an accepted record means no call.                                   *)
WorkerReserve(o) ==
  /\ worker[o] = "reserve"
  /\ \/ /\ At(o, "reserve", "finish")
        /\ UNCHANGED <<storeVars, tries, faults>>
     \/ \E out \in Outcome :
          LET n == tries[o] + 1 IN
          /\ Counted(out) /\ ReserveCall(o, n, out)
          /\ At(o, "reserve", IF ReserveGranted(o, n, out) THEN "send" ELSE "finish")
          /\ tries' = [tries EXCEPT ![o] = n]
  /\ UNCHANGED <<unknown, calls, late, saved, workerFrame>>

WorkerSend(o) ==
  /\ At(o, "send", "call")
  /\ calls' = [calls EXCEPT ![o][tries[o]] = "open"]
  /\ late' = [late EXCEPT ![o] = IF head[PrOf[o]] = HeadOf[o] THEN @ ELSE @ + 1]
  /\ UNCHANGED <<storeVars, tries, unknown, saved, faults, workerFrame>>

(* The provider answers with a usage that can be priced, or without one:   *)
(* a timeout, a broken connection, a body without usage.                   *)
WorkerAnswer(o) ==
  /\ At(o, "call", "settle")
  /\ \E priced \in BOOLEAN :
       /\ calls' = [calls EXCEPT ![o][tries[o]] = IF priced THEN "known" ELSE "unknown"]
       /\ unknown' = [unknown EXCEPT ![o] = ~priced]
  /\ UNCHANGED <<storeVars, tries, late, saved, faults, workerFrame>>

(* RunBudget.settle, then store.attempt for the usage; when either fails   *)
(* the review is interrupted.  A priced, retryable or invalid answer is    *)
(* tried a second time.                                                    *)
WorkerSettle(o) ==
  /\ worker[o] = "settle"
  /\ \E out \in Outcome :
       LET kind == IF unknown[o] THEN "unknown" ELSE "settled" IN
       /\ Counted(out) /\ SettleCall(o, tries[o], kind, out)
       /\ \/ At(o, "settle", "finish")
          \/ /\ SettleRecorded(o, tries[o], kind, out)
             /\ ~unknown[o] /\ tries[o] < 2
             /\ At(o, "settle", "guard")
  /\ UNCHANGED <<tries, unknown, calls, late, saved, workerFrame>>

(* store.finish, then report.json, which a kill in between prevents.       *)
WorkerFinish(o) ==
  /\ worker[o] = "finish"
  /\ \E out \in Outcome, written \in BOOLEAN :
       /\ Counted(out)
       /\ FinishCall(o, IF unknown[o] THEN "cost_unknown" ELSE "known_cost", out)
       /\ Raises(out) => ~written
       /\ saved' = [saved EXCEPT ![o] = written]
  /\ At(o, "finish", "exited")
  /\ UNCHANGED <<tries, unknown, calls, late, workerFrame>>

WorkerDies(o) ==
  /\ worker[o] \in Alive
  /\ worker' = [worker EXCEPT ![o] = "dead"]
  /\ UNCHANGED <<storeVars, tries, unknown, calls, late, saved, faults, workerFrame>>

-----------------------------------------------------------------------------
HostStep(o) ==
  \/ GateAdmit(o) \/ GateQueue(o) \/ GateFinish(o)
  \/ EnterGroup(o) \/ DropPending(o)
  \/ PrepareAdmit(o) \/ PrepareQueue(o) \/ Debounce(o) \/ Snapshot(o) \/ PrepareClaim(o)
  \/ Conclude(o)
  \/ Launch(o) \/ StopWaiting(o) \/ RemoveContainer(o) \/ Publish(o)

WorkerStep(o) ==
  \/ WorkerGuard(o) \/ WorkerConfigure(o) \/ WorkerReserve(o) \/ WorkerSend(o)
  \/ WorkerAnswer(o) \/ WorkerSettle(o) \/ WorkerFinish(o)

RecoveryStep(o) == RecoverRun(o) \/ RecoverLedger(o) \/ RecoverFinish(o)

Trouble(o) == LaunchFails(o) \/ Interrupt(o) \/ Vanish(o) \/ WorkerDies(o)

Next ==
  \/ \E p \in PR : Push(p) \/ Toggle(p)
  \/ \E o \in Owner :
       Deliver(o) \/ HostStep(o) \/ WorkerStep(o) \/ RecoveryStep(o) \/ Finalize(o) \/ Trouble(o)

Spec == Init /\ [][Next]_vars

(***************************************************************************)
(* Fairness: a job that can go on goes on, a call in flight ends (the      *)
(* client has a timeout), and the finalizer runs after every completed     *)
(* run.  GitHub need not deliver anything and nothing has to fail.         *)
(***************************************************************************)
FairSpec ==
  /\ Spec
  /\ \A o \in Owner :
       WF_vars(HostStep(o)) /\ WF_vars(WorkerStep(o)) /\ WF_vars(RecoveryStep(o)) /\ WF_vars(Finalize(o))

-----------------------------------------------------------------------------
(***************************************************************************)
(* Properties                                                              *)
(***************************************************************************)

(* A call the provider may bill without our knowing the price, sent and    *)
(* unanswered or answered without usage, is on the ledger as unpriced:     *)
(* nothing settles it as free and nothing forgets it.                      *)
NoCallForgotten ==
  \A o \in Owner, n \in Attempt : calls[o][n] \in {"open", "unknown"} => n \in Pending(o)

(* At most one call about a pull request is in flight, over all run        *)
(* attempts, cancelled ones and orphaned containers included.              *)
OneCallInFlight ==
  \A o1, o2 \in Owner :
    /\ PrOf[o1] = PrOf[o2]
    /\ \E n \in Attempt : calls[o1][n] = "open"
    /\ \E n \in Attempt : calls[o2][n] = "open"
    => o1 = o2

(* Nothing is paid for an author who is not a collaborator unless this     *)
(* very head was approved.                                                 *)
PaidHeadAdmitted ==
  \A o \in Owner, n \in Attempt :
    calls[o][n] # "none" => PrOf[o] \in Collaborators \/ <<PrOf[o], HeadOf[o]>> \in approvals

(* A review whose head has been replaced sends at most the one call whose  *)
(* guard had already passed.                                               *)
AtMostOneLateCall == \A o \in Owner : late[o] <= 1

(* A stored report that names the cost is true, of a review whose          *)
(* container ends with its run: no call of it is in flight or unpriced,    *)
(* whoever wrote the report last.                                          *)
StoredCostIsTrue ==
  \A o \in Owner \ Orphans :
    runs[o] = "known_cost" => \A n \in Attempt : calls[o][n] \notin {"open", "unknown"}

(* A run that comes to review, not to stop, never signals the run that     *)
(* holds the ticket of its own event: a redelivery, a rerun or a reopening *)
(* of the same head does not cancel the work under way.                    *)
Enters(o)    == host[o] = "pending" /\ host'[o] = "admit"
Signalled(q) == ~cancelled[q] /\ cancelled'[q]
Harmless ==
  \A o, q \in Owner :
    /\ Enters(o) /\ Signalled(q)
    /\ EventOf[o] \notin {"closed", "synchronize"}
    /\ Ticket(o) = Ticket(q)
    => claims[Ticket(q)].owner # q
DuplicateIsHarmless == [][Harmless]_vars

(* A head is refused as already handled only while the run that holds its   *)
(* ticket is at work, or when that run has asked the model about it        *)
(* (E-08: every new admitted head is reviewed automatically).              *)
AtWork(q) == host[q] \in InGroup \/ worker[q] \in Alive
RefusedOnlyAfterReview ==
  [][\A o, q \in Owner :
       /\ host[o] = "gate_queue" /\ host'[o] = "done"
       /\ claims[Ticket(o)] = Running(q) /\ q # o
       => AtWork(q) \/ \E n \in Attempt : calls[q][n] # "none"]_vars

(* Once its run is over an owner gives the pull request back, unless it    *)
(* leaves an unpriced attempt behind, which keeps it locked, or a call of  *)
(* the store or of GitHub has failed.                                      *)
LeaseReturned ==
  \A o \in Owner : Owns(o) ~> (~Owns(o) \/ Pending(o) # {} \/ faults > 0)

(* A ticket that was queued is used or given back, never left waiting, as  *)
(* long as no call fails.                                                  *)
TicketResolved ==
  \A o \in Owner : claims[Ticket(o)] = Waiting(o) ~> (claims[Ticket(o)] # Waiting(o) \/ faults > 0)

=============================================================================
