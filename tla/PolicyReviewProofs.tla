------------------------- MODULE PolicyReviewProofs -------------------------
(***************************************************************************)
(* Theorems of PolicyReview, for every set of pull requests, heads, events *)
(* and run attempts and every number of faults.                            *)
(***************************************************************************)
EXTENDS PolicyReview, ReviewStoreProofs

(***************************************************************************)
(* The types of what PolicyReview adds to the store, and how far a worker  *)
(* is by the number of its reservations.                                   *)
(***************************************************************************)
OwnTypeOK ==
  /\ head \in [PR -> Head] /\ past \in [PR -> SUBSET Head] /\ live \in [PR -> BOOLEAN]
  /\ host \in [Owner -> HostStage] /\ cancelled \in [Owner -> BOOLEAN]
  /\ worker \in [Owner -> WorkerStage] /\ tries \in [Owner -> 0..2]
  /\ unknown \in [Owner -> BOOLEAN] /\ saved \in [Owner -> BOOLEAN]
  /\ recovery \in [Owner -> RecoveryStage] /\ finalized \in [Owner -> BOOLEAN]
  /\ calls \in [Owner -> [Attempt -> Call]] /\ late \in [Owner -> 0..2]
  /\ faults \in 0..MaxFaults

BeforeLaunch == {"idle", "gate", "gate_queue", "gate_finish", "pending", "refinish", "ready"} \cup Preparing

TryInv(o) ==
  /\ host[o] \in BeforeLaunch => worker[o] = "none"
  /\ worker[o] \in {"none", "begin", "configure"} => tries[o] = 0
  /\ worker[o] \in {"guard", "reserve"} => tries[o] < 2
  /\ worker[o] \in {"send", "call", "settle"} => tries[o] \in Attempt
  /\ late[o] <= tries[o]
  /\ worker[o] = "send" => late[o] < tries[o]

WorkInv == OwnTypeOK /\ \A o \in Owner : TryInv(o)

LEMMA WorkInit == Init => WorkInv
<1> SUFFICES ASSUME Init PROVE WorkInv
  OBVIOUS
<1>1. OwnTypeOK
  BY OwnerAssumption, ReviewAssumption
     DEF Init, OwnTypeOK, HostStage, WorkerStage, RecoveryStage, Call
<1>2. \A o \in Owner : TryInv(o)
  BY DEF Init, TryInv
<1> QED
  BY <1>1, <1>2 DEF WorkInv

(* Going from one stage of the host to another, seen by every run.         *)
LEMMA HostMoves ==
  ASSUME WorkInv, NEW o \in Owner, NEW from, NEW to \in HostStage, Goto(o, from, to),
         to \in BeforeLaunch => from \in BeforeLaunch
  PROVE  /\ host[o] = from /\ host'[o] = to
         /\ host' \in [Owner -> HostStage]
         /\ \A q \in Owner : host'[q] \in BeforeLaunch => host[q] \in BeforeLaunch
  BY DEF Goto, WorkInv, OwnTypeOK

(* A step of the host that leaves the worker alone keeps WorkInv.          *)
LEMMA HostKeeps ==
  ASSUME WorkInv, UNCHANGED workerVars,
         \A q \in Owner : host'[q] \in BeforeLaunch => host[q] \in BeforeLaunch
  PROVE  \A q \in Owner : TryInv(q)'
  BY DEF WorkInv, TryInv, workerVars

(* Whatever a step does about faults, the bound on them holds.             *)
LEMMA FaultsBounded ==
  ASSUME WorkInv, NEW o \in Owner,
         \/ UNCHANGED faults
         \/ Fault
         \/ \E out \in Outcome : Counted(out) \/ HostCounted(o, out)
  PROVE  faults' \in 0..MaxFaults
  BY ReviewAssumption DEF WorkInv, OwnTypeOK, Fault, Counted, HostCounted

LEMMA AdmitBounded ==
  ASSUME WorkInv, NEW o \in Owner, NEW v, Admit(o, v)
  PROVE  faults' \in 0..MaxFaults
<1>1. UNCHANGED faults \/ Fault
  BY DEF Admit
<1> QED
  BY <1>1, FaultsBounded

(* The host's steps before the container, and their end, leave the worker  *)
(* alone and never come back before the launch.                            *)
LEMMA HostTyped ==
  ASSUME WorkInv, NEW o \in Owner,
         \/ GateAdmit(o) \/ GateQueue(o) \/ GateFinish(o) \/ DropPending(o)
         \/ PrepareAdmit(o) \/ PrepareQueue(o) \/ Debounce(o) \/ Snapshot(o) \/ PrepareClaim(o)
         \/ Conclude(o)
  PROVE  /\ UNCHANGED hostFrame
         /\ faults' \in 0..MaxFaults
         /\ host' \in [Owner -> HostStage]
         /\ \A q \in Owner : host'[q] \in BeforeLaunch => host[q] \in BeforeLaunch
<1> USE DEF HostStage, BeforeLaunch, InGroup, Preparing
<1>1. CASE GateAdmit(o)
  <2>1. PICK v \in Verdict :
          /\ Admit(o, v)
          /\ Goto(o, "gate", CASE v = "error" -> "gate_finish"
                              [] v = "admitted" -> "gate_queue"
                              [] v \notin {"error", "admitted"} ->
                                   IF Stops(o, v) THEN "pending" ELSE "done")
    BY <1>1 DEF GateAdmit
  <2>2. faults' \in 0..MaxFaults
    BY <2>1, AdmitBounded
  <2> QED
    BY <1>1, <2>1, <2>2, HostMoves DEF GateAdmit
<1>2. CASE GateQueue(o)
  <2>1. PICK out \in Outcome :
          /\ Counted(out)
          /\ Goto(o, "gate_queue", IF Raises(out) THEN "gate_finish"
                                   ELSE IF QueueAccepted(o) THEN "pending" ELSE "done")
    BY <1>2 DEF GateQueue
  <2> QED
    BY <1>2, <2>1, FaultsBounded, HostMoves DEF GateQueue
<1>3. CASE GateFinish(o)
  BY <1>3, FaultsBounded, HostMoves DEF GateFinish
<1>4. CASE DropPending(o)
  BY <1>4, FaultsBounded, HostMoves DEF DropPending
<1>5. CASE PrepareAdmit(o)
  <2>1. PICK v \in Verdict :
          /\ Admit(o, v)
          /\ \/ Goto(o, "admit", CASE v = "error" -> "refinish"
                                  [] v = "admitted" -> "queue"
                                  [] v \notin {"error", "admitted"} -> "conclude")
             \/ Goto(o, "readmit", CASE v = "error" -> "refinish"
                                    [] v = "admitted" -> "snapshot"
                                    [] v \notin {"error", "admitted"} -> "conclude")
    BY <1>5 DEF PrepareAdmit
  <2>2. faults' \in 0..MaxFaults
    BY <2>1, AdmitBounded
  <2> QED
    BY <1>5, <2>1, <2>2, HostMoves DEF PrepareAdmit
<1>6. CASE PrepareQueue(o)
  <2>1. PICK out \in Outcome :
          /\ HostCounted(o, out)
          /\ Goto(o, "queue", IF Raises(out) THEN "refinish"
                              ELSE IF QueueAccepted(o) THEN "debounce" ELSE "done")
    BY <1>6 DEF PrepareQueue
  <2> QED
    BY <1>6, <2>1, FaultsBounded, HostMoves DEF PrepareQueue
<1>7. CASE Debounce(o)
  BY <1>7, FaultsBounded, HostMoves DEF Debounce
<1>8. CASE Snapshot(o)
  BY <1>8, FaultsBounded, HostMoves DEF Snapshot
<1>9. CASE PrepareClaim(o)
  <2>1. PICK out \in Outcome :
          /\ HostCounted(o, out)
          /\ Goto(o, "claim", IF Raises(out) THEN "refinish"
                              ELSE IF ClaimGranted(o, out) THEN "ready" ELSE "conclude")
    BY <1>9 DEF PrepareClaim
  <2> QED
    BY <1>9, <2>1, FaultsBounded, HostMoves DEF PrepareClaim
<1>10. CASE Conclude(o)
  <2>1. PICK out \in Outcome :
          /\ HostCounted(o, out)
          /\ \/ Goto(o, "conclude", IF Raises(out) THEN "refinish" ELSE "done")
             \/ Goto(o, "refinish", "done")
    BY <1>10 DEF Conclude
  <2> QED
    BY <1>10, <2>1, FaultsBounded, HostMoves DEF Conclude
<1> QED
  BY <1>1, <1>2, <1>3, <1>4, <1>5, <1>6, <1>7, <1>8, <1>9, <1>10

LEMMA WorkHost ==
  ASSUME WorkInv, NEW o \in Owner, HostStep(o)
  PROVE  WorkInv'
<1>0. CASE \/ GateAdmit(o) \/ GateQueue(o) \/ GateFinish(o) \/ DropPending(o)
           \/ PrepareAdmit(o) \/ PrepareQueue(o) \/ Debounce(o) \/ Snapshot(o) \/ PrepareClaim(o)
           \/ Conclude(o)
  <2>1. /\ UNCHANGED hostFrame
        /\ faults' \in 0..MaxFaults
        /\ host' \in [Owner -> HostStage]
        /\ \A q \in Owner : host'[q] \in BeforeLaunch => host[q] \in BeforeLaunch
    BY <1>0, HostTyped
  <2>2. \A q \in Owner : TryInv(q)'
    BY <2>1, HostKeeps DEF hostFrame
  <2>3. OwnTypeOK'
    BY <2>1 DEF WorkInv, OwnTypeOK, hostFrame, githubVars, workerVars, closeVars
  <2> QED
    BY <2>2, <2>3 DEF WorkInv
<1>1. CASE EnterGroup(o)
  <2>1. /\ host' \in [Owner -> HostStage]
        /\ \A q \in Owner : host'[q] \in BeforeLaunch => host[q] \in BeforeLaunch
    BY <1>1, HostMoves DEF EnterGroup, HostStage, BeforeLaunch, InGroup, Preparing
  <2>2. \A q \in Owner : TryInv(q)'
    BY <1>1, <2>1, HostKeeps DEF EnterGroup
  <2>3. OwnTypeOK'
    BY <1>1, <2>1 DEF EnterGroup, WorkInv, OwnTypeOK, githubVars, workerVars, closeVars
  <2> QED
    BY <2>2, <2>3 DEF WorkInv
<1>2. CASE Launch(o)
  <2>1. /\ host' \in [Owner -> HostStage]
        /\ \A q \in Owner : host'[q] \in BeforeLaunch => host[q] \in BeforeLaunch
        /\ host[o] \in BeforeLaunch /\ host'[o] \notin BeforeLaunch
    BY <1>2, HostMoves DEF Launch, HostStage, BeforeLaunch, InGroup, Preparing
  <2>2. worker[o] = "none"
    BY <2>1 DEF WorkInv, TryInv
  <2>3. \A q \in Owner : TryInv(q)'
    BY <1>2, <2>1, <2>2 DEF Launch, WorkInv, OwnTypeOK, TryInv
  <2>4. OwnTypeOK'
    BY <1>2, <2>1 DEF Launch, WorkInv, OwnTypeOK, githubVars, closeVars, WorkerStage, Alive
  <2> QED
    BY <2>3, <2>4 DEF WorkInv
<1>3. CASE StopWaiting(o) \/ Publish(o)
  <2>1. /\ host' \in [Owner -> HostStage]
        /\ \A q \in Owner : host'[q] \in BeforeLaunch => host[q] \in BeforeLaunch
    BY <1>3, HostMoves DEF StopWaiting, Publish, HostStage, BeforeLaunch, InGroup, Preparing
  <2>2. \A q \in Owner : TryInv(q)'
    BY <1>3, <2>1, HostKeeps DEF StopWaiting, Publish, hostFrame
  <2>3. recovery' \in [Owner -> RecoveryStage]
    BY <1>3 DEF StopWaiting, Publish, WorkInv, OwnTypeOK, hostFrame, closeVars, RecoveryStage
  <2>4. OwnTypeOK'
    BY <1>3, <2>1, <2>3
       DEF StopWaiting, Publish, WorkInv, OwnTypeOK, hostFrame, githubVars, workerVars, closeVars
  <2> QED
    BY <2>2, <2>4 DEF WorkInv
<1>4. CASE RemoveContainer(o)
  <2>1. /\ host' \in [Owner -> HostStage]
        /\ \A q \in Owner : host'[q] \in BeforeLaunch => host[q] \in BeforeLaunch
        /\ host'[o] \notin BeforeLaunch
    BY <1>4, HostMoves DEF RemoveContainer, HostStage, BeforeLaunch, InGroup, Preparing
  <2>2. worker' \in [Owner -> WorkerStage]
    BY <1>4 DEF RemoveContainer, WorkInv, OwnTypeOK, WorkerStage
  <2>3. \A q \in Owner : worker'[q] = worker[q] \/ (q = o /\ worker'[q] = "dead")
    BY <1>4 DEF RemoveContainer, WorkInv, OwnTypeOK
  <2>4. \A q \in Owner : TryInv(q)'
    BY <1>4, <2>1, <2>3 DEF RemoveContainer, WorkInv, TryInv
  <2>5. faults' \in 0..MaxFaults
    BY <1>4, FaultsBounded DEF RemoveContainer
  <2>6. OwnTypeOK'
    BY <1>4, <2>1, <2>2, <2>5 DEF RemoveContainer, WorkInv, OwnTypeOK, githubVars, closeVars
  <2> QED
    BY <2>4, <2>6 DEF WorkInv
<1> QED
  BY <1>0, <1>1, <1>2, <1>3, <1>4 DEF HostStep

(* Whatever ends a recovery leaves the run over.                           *)
LEMMA RecoveryEnds ==
  ASSUME WorkInv, NEW o \in Owner, EndRecovery(o)
  PROVE  /\ host' \in [Owner -> HostStage]
         /\ recovery' \in [Owner -> RecoveryStage]
         /\ \A q \in Owner : host'[q] \in BeforeLaunch => host[q] \in BeforeLaunch
  BY DEF EndRecovery, WorkInv, OwnTypeOK, HostStage, BeforeLaunch, InGroup, Preparing, RecoveryStage

LEMMA WorkClose ==
  ASSUME WorkInv, NEW o \in Owner,
         RecoveryStep(o) \/ Finalize(o) \/ Interrupt(o) \/ Vanish(o) \/ LaunchFails(o)
  PROVE  WorkInv'
<1>1. /\ UNCHANGED <<githubVars, cancelled, workerVars, saved>>
      /\ finalized' \in [Owner -> BOOLEAN]
  BY DEF RecoveryStep, RecoverRun, RecoverLedger, RecoverFinish, Finalize, Interrupt, Vanish,
         LaunchFails, hostFrame, closeVars, WorkInv, OwnTypeOK
<1>2. faults' \in 0..MaxFaults
  BY FaultsBounded DEF RecoveryStep, RecoverRun, RecoverLedger, RecoverFinish, Finalize, Interrupt,
                       Vanish, LaunchFails
<1>3. /\ host' \in [Owner -> HostStage]
      /\ recovery' \in [Owner -> RecoveryStage]
      /\ \A q \in Owner : host'[q] \in BeforeLaunch => host[q] \in BeforeLaunch
  <2>1. CASE EndRecovery(o)
    BY <2>1, RecoveryEnds
  <2>2. CASE /\ UNCHANGED host
             /\ \E r \in RecoveryStage : recovery' = [recovery EXCEPT ![o] = r]
    BY <2>2 DEF WorkInv, OwnTypeOK
  <2>3. CASE Interrupt(o) /\ ~EndRecovery(o)
    BY <2>3 DEF Interrupt, Goto, WorkInv, OwnTypeOK, HostStage, BeforeLaunch, InGroup, Preparing
  <2>4. CASE LaunchFails(o)
    BY <2>4, HostMoves
       DEF LaunchFails, hostFrame, closeVars, WorkInv, OwnTypeOK, HostStage, BeforeLaunch, InGroup, Preparing
  <2>5. Recovered(o) \in RecoveryStage
    BY DEF Recovered, RecoveryStage, Report
  <2> QED
    BY <2>1, <2>2, <2>3, <2>4, <2>5
       DEF RecoveryStep, RecoverRun, RecoverLedger, RecoverFinish, Finalize, Vanish, RecoveryStage
<1>4. \A q \in Owner : TryInv(q)'
  BY <1>1, <1>3, HostKeeps
<1>5. OwnTypeOK'
  BY <1>1, <1>2, <1>3 DEF WorkInv, OwnTypeOK, githubVars, workerVars
<1> QED
  BY <1>4, <1>5 DEF WorkInv

LEMMA WorkGitHub ==
  ASSUME WorkInv, (\E p \in PR : Push(p) \/ Toggle(p)) \/ \E o \in Owner : Deliver(o)
  PROVE  WorkInv'
<1>1. CASE \E p \in PR : Push(p) \/ Toggle(p)
  <2>1. /\ UNCHANGED <<host, cancelled, workerVars, saved, closeVars, faults>>
        /\ head' \in [PR -> Head] /\ past' \in [PR -> SUBSET Head] /\ live' \in [PR -> BOOLEAN]
    <3>0. PICK p \in PR : Push(p) \/ Toggle(p)
      BY <1>1
    <3>1. CASE Push(p)
      BY <3>1 DEF Push, WorkInv, OwnTypeOK
    <3>2. CASE Toggle(p)
      BY <3>2 DEF Toggle, WorkInv, OwnTypeOK
    <3> QED
      BY <3>0, <3>1, <3>2
  <2>2. \A q \in Owner : TryInv(q)'
    BY <2>1, HostKeeps
  <2>3. OwnTypeOK'
    BY <2>1 DEF WorkInv, OwnTypeOK, workerVars, closeVars
  <2> QED
    BY <2>2, <2>3 DEF WorkInv
<1>2. CASE \E o \in Owner : Deliver(o)
  <2>1. PICK o \in Owner : Deliver(o)
    BY <1>2
  <2>2. /\ host' \in [Owner -> HostStage]
        /\ \A q \in Owner : host'[q] \in BeforeLaunch => host[q] \in BeforeLaunch
    BY <2>1, HostMoves DEF Deliver, HostStage, BeforeLaunch, InGroup, Preparing
  <2>3. \A q \in Owner : TryInv(q)'
    BY <2>1, <2>2, HostKeeps DEF Deliver
  <2>4. OwnTypeOK'
    BY <2>1, <2>2 DEF Deliver, WorkInv, OwnTypeOK, githubVars, workerVars, closeVars
  <2> QED
    BY <2>3, <2>4 DEF WorkInv
<1> QED
  BY <1>1, <1>2

(* The step of one worker is invisible to the other runs: what is left to  *)
(* show is that the worker's own counters stay in range.                   *)
LEMMA WorkerKeeps ==
  ASSUME WorkInv, NEW o \in Owner, NEW w \in WorkerStage \ {"none"},
         worker[o] # "none", worker' = [worker EXCEPT ![o] = w],
         UNCHANGED <<githubVars, host, cancelled, recovery, finalized>>,
         tries' \in [Owner -> 0..2],
         unknown' \in [Owner -> BOOLEAN], saved' \in [Owner -> BOOLEAN],
         calls' \in [Owner -> [Attempt -> Call]], late' \in [Owner -> 0..2],
         faults' \in 0..MaxFaults,
         \A q \in Owner \ {o} : tries'[q] = tries[q] /\ late'[q] = late[q],
         w \in {"begin", "configure"} => tries'[o] = 0,
         w \in {"guard", "reserve"} => tries'[o] < 2,
         w \in {"send", "call", "settle"} => tries'[o] \in Attempt,
         late'[o] <= tries'[o],
         w = "send" => late'[o] < tries'[o]
  PROVE  WorkInv'
<1>0. /\ worker' \in [Owner -> WorkerStage] /\ worker'[o] = w
      /\ \A q \in Owner \ {o} : worker'[q] = worker[q]
  BY DEF WorkInv, OwnTypeOK
<1>1. OwnTypeOK'
  BY <1>0 DEF WorkInv, OwnTypeOK, githubVars
<1>2. TryInv(o)'
  BY <1>0 DEF WorkInv, TryInv
<1>3. ASSUME NEW q \in Owner \ {o} PROVE TryInv(q)'
  BY <1>0, <1>3 DEF WorkInv, TryInv
<1> QED
  BY <1>1, <1>2, <1>3 DEF WorkInv

LEMMA WorkWorker ==
  ASSUME WorkInv, NEW o \in Owner, WorkerStep(o) \/ WorkerDies(o)
  PROVE  WorkInv'
<1> USE ReviewAssumption
<1>0. OwnTypeOK /\ TryInv(o)
  BY DEF WorkInv
<1>1. CASE WorkerGuard(o)
  <2>1. faults' \in 0..MaxFaults
    BY <1>1, FaultsBounded DEF WorkerGuard
  <2>2. PICK w \in {"configure", "reserve", "finish"} :
          /\ worker' = [worker EXCEPT ![o] = w]
          /\ worker[o] \in {"begin", "guard"}
          /\ w = "configure" => worker[o] = "begin"
          /\ w = "reserve" => worker[o] = "guard"
    BY <1>1 DEF WorkerGuard, At
  <2> QED
    BY <1>0, <1>1, <2>1, <2>2, WorkerKeeps
       DEF WorkerGuard, workerFrame, closeVars, OwnTypeOK, TryInv, WorkerStage, Alive
<1>2. CASE WorkerConfigure(o)
  <2>1. faults' \in 0..MaxFaults
    BY <1>2, FaultsBounded DEF WorkerConfigure
  <2>2. PICK w \in {"guard", "finish"} :
          worker[o] = "configure" /\ worker' = [worker EXCEPT ![o] = w]
    BY <1>2 DEF WorkerConfigure, At
  <2>3. tries[o] = 0 /\ late[o] <= tries[o]
    BY <1>0, <2>2 DEF TryInv
  <2>4. /\ UNCHANGED <<githubVars, host, cancelled, recovery, finalized>>
        /\ UNCHANGED <<tries, unknown, calls, late, saved>>
    BY <1>2 DEF WorkerConfigure, workerFrame, closeVars
  <2>5. /\ tries' \in [Owner -> 0..2] /\ unknown' \in [Owner -> BOOLEAN] /\ saved' \in [Owner -> BOOLEAN]
        /\ calls' \in [Owner -> [Attempt -> Call]] /\ late' \in [Owner -> 0..2]
    BY <1>0, <2>4 DEF OwnTypeOK
  <2>6. /\ tries'[o] = 0 /\ tries'[o] < 2 /\ late'[o] <= tries'[o]
        /\ \A q \in Owner \ {o} : tries'[q] = tries[q] /\ late'[q] = late[q]
    BY <2>3, <2>4
  <2>7. w \in WorkerStage \ {"none"} /\ worker[o] # "none" /\ w \notin {"begin", "configure", "send", "call", "settle"}
    BY <2>2 DEF WorkerStage, Alive
  <2> QED
    BY <2>1, <2>2, <2>4, <2>5, <2>6, <2>7, WorkerKeeps
<1>3. CASE WorkerReserve(o)
  <2>1. faults' \in 0..MaxFaults
    BY <1>3, FaultsBounded DEF WorkerReserve
  <2>2. PICK w \in {"send", "finish"} :
          /\ worker[o] = "reserve" /\ worker' = [worker EXCEPT ![o] = w]
          /\ \/ w = "finish" /\ UNCHANGED tries
             \/ tries' = [tries EXCEPT ![o] = tries[o] + 1]
    BY <1>3 DEF WorkerReserve, At
  <2>3. tries[o] \in 0..2 /\ tries[o] < 2 /\ late[o] \in 0..2 /\ late[o] <= tries[o]
    BY <1>0, <2>2 DEF OwnTypeOK, TryInv
  <2>4. /\ tries' \in [Owner -> 0..2] /\ \A q \in Owner \ {o} : tries'[q] = tries[q]
        /\ w = "send" => tries'[o] \in Attempt /\ late[o] < tries'[o]
        /\ late[o] <= tries'[o]
    BY <1>0, <2>2, <2>3 DEF OwnTypeOK
  <2> QED
    BY <1>0, <1>3, <2>1, <2>2, <2>3, <2>4, WorkerKeeps
       DEF WorkerReserve, workerFrame, closeVars, OwnTypeOK, WorkerStage, Alive
<1>4. CASE WorkerSend(o)
  <2>1. worker[o] = "send" /\ worker' = [worker EXCEPT ![o] = "call"]
    BY <1>4 DEF WorkerSend, At
  <2>2. tries[o] \in Attempt /\ late[o] < tries[o]
    BY <1>0, <2>1 DEF TryInv
  <2>3. calls' \in [Owner -> [Attempt -> Call]]
    BY <1>0, <1>4, <2>2 DEF WorkerSend, OwnTypeOK, Call
  <2>4. late' \in [Owner -> 0..2] /\ late'[o] <= tries[o]
    BY <1>0, <1>4, <2>2 DEF WorkerSend, OwnTypeOK
  <2> QED
    BY <1>0, <1>4, <2>1, <2>2, <2>3, <2>4, WorkerKeeps
       DEF WorkerSend, workerFrame, closeVars, OwnTypeOK, WorkerStage, Alive
<1>5. CASE WorkerAnswer(o)
  <2>1. worker[o] = "call" /\ worker' = [worker EXCEPT ![o] = "settle"]
    BY <1>5 DEF WorkerAnswer, At
  <2>2. tries[o] \in Attempt
    BY <1>0, <2>1 DEF TryInv
  <2>3. calls' \in [Owner -> [Attempt -> Call]] /\ unknown' \in [Owner -> BOOLEAN]
    BY <1>0, <1>5, <2>2 DEF WorkerAnswer, OwnTypeOK, Call
  <2> QED
    BY <1>0, <1>5, <2>1, <2>2, <2>3, WorkerKeeps
       DEF WorkerAnswer, workerFrame, closeVars, OwnTypeOK, TryInv, WorkerStage, Alive
<1>6. CASE WorkerSettle(o)
  <2>1. faults' \in 0..MaxFaults
    BY <1>6, FaultsBounded DEF WorkerSettle
  <2>2. PICK w \in {"guard", "finish"} :
          /\ worker[o] = "settle" /\ worker' = [worker EXCEPT ![o] = w]
          /\ w = "guard" => tries[o] < 2
    BY <1>6 DEF WorkerSettle, At
  <2> QED
    BY <1>0, <1>6, <2>1, <2>2, WorkerKeeps
       DEF WorkerSettle, workerFrame, closeVars, OwnTypeOK, TryInv, WorkerStage, Alive
<1>7. CASE WorkerFinish(o)
  <2>1. faults' \in 0..MaxFaults
    BY <1>7, FaultsBounded DEF WorkerFinish
  <2>2. worker[o] = "finish" /\ worker' = [worker EXCEPT ![o] = "exited"]
    BY <1>7 DEF WorkerFinish, At
  <2>3. saved' \in [Owner -> BOOLEAN]
    BY <1>0, <1>7 DEF WorkerFinish, OwnTypeOK
  <2> QED
    BY <1>0, <1>7, <2>1, <2>2, <2>3, WorkerKeeps
       DEF WorkerFinish, workerFrame, closeVars, OwnTypeOK, TryInv, WorkerStage, Alive
<1>8. CASE WorkerDies(o)
  BY <1>0, <1>8, WorkerKeeps
     DEF WorkerDies, workerFrame, closeVars, OwnTypeOK, TryInv, WorkerStage, Alive
<1> QED
  BY <1>1, <1>2, <1>3, <1>4, <1>5, <1>6, <1>7, <1>8 DEF WorkerStep

(***************************************************************************)
(* The worker never makes more than two reservations, never starts before  *)
(* its host launched it, and every variable keeps its type.                *)
(***************************************************************************)
THEOREM WorkTheorem == Spec => []WorkInv
<1>1. WorkInv /\ [Next]_vars => WorkInv'
  <2> SUFFICES ASSUME WorkInv, [Next]_vars PROVE WorkInv'
    OBVIOUS
  <2>1. CASE UNCHANGED vars
    BY <2>1 DEF vars, githubVars, workerVars, closeVars, WorkInv, OwnTypeOK, TryInv
  <2>2. CASE Next
    BY <2>2, WorkGitHub, WorkHost, WorkWorker, WorkClose DEF Next, Trouble
  <2> QED
    BY <2>1, <2>2
<1> QED
  BY WorkInit, <1>1, PTL DEF Spec

-----------------------------------------------------------------------------
(***************************************************************************)
(* The jobs touch the audit database only through its queries, so all that *)
(* ReviewStore promises holds of the whole system.                         *)
(***************************************************************************)
LEMMA AdmitStores ==
  ASSUME NEW o \in Owner, NEW v, Admit(o, v)
  PROVE  [StoreStep(o)]_storeVars
  BY DEF Admit, StoreStep

LEMMA CallStores ==
  ASSUME NEW o \in Owner, NEW out,
         \/ QueueCall(o, out) \/ ClaimCall(o, out) \/ ConfigureCall(o, out)
         \/ \E n \in Attempt :
              \/ ReserveCall(o, n, out)
              \/ \E kind \in {"unknown", "settled"} : SettleCall(o, n, kind, out)
         \/ \E report \in Report : FinishCall(o, report, out)
  PROVE  [StoreStep(o)]_storeVars
  BY DEF QueueCall, ClaimCall, ConfigureCall, ReserveCall, SettleCall, FinishCall, StoreStep

LEMMA StepStores ==
  ASSUME WorkInv, NEW o \in Owner,
         HostStep(o) \/ WorkerStep(o) \/ RecoveryStep(o) \/ Finalize(o) \/ Trouble(o) \/ Deliver(o)
  PROVE  [StoreStep(o)]_storeVars
<1>1. CASE GateAdmit(o) \/ PrepareAdmit(o)
  BY <1>1, AdmitStores DEF GateAdmit, PrepareAdmit
<1>2. CASE GateQueue(o) \/ GateFinish(o) \/ PrepareQueue(o) \/ PrepareClaim(o) \/ Conclude(o)
  BY <1>2, CallStores DEF GateQueue, GateFinish, PrepareQueue, PrepareClaim, Conclude, Report
<1>3. CASE WorkerConfigure(o) \/ WorkerFinish(o) \/ RecoverFinish(o)
  BY <1>3, CallStores DEF WorkerConfigure, WorkerFinish, RecoverFinish, Report
<1>4. CASE WorkerReserve(o)
  <2>1. worker[o] = "reserve" /\ tries[o] \in 0..2 /\ tries[o] < 2
    BY <1>4 DEF WorkerReserve, WorkInv, OwnTypeOK, TryInv
  <2>2. tries[o] + 1 \in Attempt
    BY <2>1, ReviewAssumption
  <2> QED
    BY <1>4, <2>2, CallStores DEF WorkerReserve
<1>5. CASE WorkerSettle(o)
  <2>1. tries[o] \in Attempt
    BY <1>5 DEF WorkerSettle, WorkInv, TryInv
  <2> QED
    BY <1>5, <2>1, CallStores DEF WorkerSettle
<1>6. CASE \/ EnterGroup(o) \/ DropPending(o) \/ Debounce(o) \/ Snapshot(o)
           \/ Launch(o) \/ StopWaiting(o) \/ RemoveContainer(o) \/ Publish(o)
  BY <1>6 DEF EnterGroup, DropPending, Debounce, Snapshot, Launch, StopWaiting, RemoveContainer, Publish
<1>7. CASE \/ WorkerGuard(o) \/ WorkerSend(o) \/ WorkerAnswer(o) \/ WorkerDies(o)
           \/ RecoverRun(o) \/ RecoverLedger(o)
           \/ Finalize(o) \/ LaunchFails(o) \/ Interrupt(o) \/ Vanish(o) \/ Deliver(o)
  BY <1>7 DEF WorkerGuard, WorkerSend, WorkerAnswer, WorkerDies, RecoverRun, RecoverLedger,
              Finalize, LaunchFails, Interrupt, Vanish, Deliver
<1> QED
  BY <1>1, <1>2, <1>3, <1>4, <1>5, <1>6, <1>7 DEF HostStep, WorkerStep, RecoveryStep, Trouble

(***************************************************************************)
(* The whole system implements ReviewStore.                                *)
(***************************************************************************)
THEOREM SystemImplementsStore == Spec => StoreSpec
<1>1. Init => StoreInit
  BY DEF Init
<1>2. WorkInv /\ [Next]_vars => [StoreNext]_storeVars
  <2> SUFFICES ASSUME WorkInv, [Next]_vars PROVE [StoreNext]_storeVars
    OBVIOUS
  <2>1. CASE UNCHANGED vars
    BY <2>1 DEF vars
  <2>2. CASE \E p \in PR : Push(p) \/ Toggle(p)
    BY <2>2 DEF Push, Toggle
  <2>3. CASE \E o \in Owner : [StoreStep(o)]_storeVars
    BY <2>3 DEF StoreNext
  <2> QED
    BY <2>1, <2>2, <2>3, StepStores DEF Next
<1> QED
  BY <1>1, <1>2, WorkTheorem, PTL DEF Spec, StoreSpec

(***************************************************************************)
(* At most one run has unpriced attempts on a pull request, in the whole   *)
(* system, and each paid request belongs to one run.                       *)
(***************************************************************************)
THEOREM SystemLedger == Spec => [](LedgerInv /\ OnePaidReview)
  BY SystemImplementsStore, LedgerInvariant, ExclusivePaidReview, PTL

-----------------------------------------------------------------------------
(***************************************************************************)
(* The second invariant relates what one run has done at GitHub, at the    *)
(* model provider and in its own process to its rows in the database.      *)
(***************************************************************************)
Vetted(o) == PrOf[o] \in Collaborators \/ <<PrOf[o], HeadOf[o]>> \in approvals
Vetting   == {"queue", "debounce", "readmit", "snapshot", "claim", "ready"}
Stopping  == {"closed", "synchronize"}

(* A call is on the ledger before it is sent and until it is priced.       *)
Ledgered(o) ==
  /\ worker[o] \in {"send", "call", "settle"} => attempts[o][tries[o]] = "reserved"
  /\ worker[o] = "settle" => calls[o][tries[o]] = IF unknown[o] THEN "unknown" ELSE "known"
  /\ \A n \in Attempt : calls[o][n] \in {"open", "unknown"} => n \in Pending(o)
  /\ \A n \in Attempt : calls[o][n] # "none" => worker[o] # "none"

(* A run past its admission is allowed to spend.                           *)
Sanctioned(o) == host[o] \in Vetting \/ worker[o] # "none" => Vetted(o)

(* A head that was replaced never comes back, and a guard that passed saw  *)
(* it current.                                                             *)
Timely(o) ==
  /\ host[o] # "idle" => HeadOf[o] \in past[PrOf[o]]
  /\ late[o] <= 1
  /\ late[o] > 0 => head[PrOf[o]] # HeadOf[o]
  /\ worker[o] \in {"reserve", "send"} => late[o] = 0

(* A run that waits to review holds the ticket of its event.               *)
Ticketed(o) ==
  /\ recovery[o] # "none" => host[o] \in {"recover", "done"}
  /\ host[o] = "pending" /\ EventOf[o] \notin Stopping => claims[Ticket(o)] = Waiting(o)

ReviewInv == \A o \in Owner : Ledgered(o) /\ Sanctioned(o) /\ Timely(o) /\ Ticketed(o)

LEMMA ReviewInit == Init => ReviewInv
  BY OwnerAssumption, ReviewAssumption
     DEF Init, StoreInit, ReviewInv, Ledgered, Sanctioned, Timely, Ticketed, Vetting

AnyStep(o) == HostStep(o) \/ WorkerStep(o) \/ RecoveryStep(o) \/ Finalize(o) \/ Trouble(o) \/ Deliver(o)

(* What a query of one run does to the rows the invariant looks at.        *)
LEMMA QueryFrame ==
  ASSUME StoreTypeOK, NEW o \in Owner, [StoreStep(o)]_storeVars
  PROVE  /\ approvals \subseteq approvals'
         /\ \A q \in Owner \ {o} :
              /\ attempts'[q] = attempts[q] /\ runs'[q] = runs[q]
              /\ claims[Ticket(q)] = Waiting(q) => claims'[Ticket(q)] = Waiting(q)
<1> USE OwnerAssumption DEF StoreTypeOK
<1>1. \A q \in Owner : Ticket(q) \in PR \X Request /\ Waiting(q) # NoClaim
  BY DEF Ticket, Waiting, NoClaim
<1>2. \A q \in Owner \ {o} : Waiting(q) # Waiting(o)
  BY DEF Waiting
<1>3. CASE UNCHANGED storeVars
  BY <1>3 DEF storeVars
<1>4. CASE Queue(o)
  BY <1>1, <1>4 DEF Queue, QueueFirst
<1>5. CASE ClaimLease(o)
  BY <1>1, <1>2, <1>5 DEF ClaimLease, ClaimAccepted
<1>6. CASE \E report \in Report : Finish(o, report)
  BY <1>1, <1>2, <1>6 DEF Finish, Withdrawn
<1>7. CASE Configure(o) \/ Approve(PrOf[o], HeadOf[o])
  BY <1>7 DEF Configure, Approve
<1>8. CASE \E n \in Attempt : Reserve(o, n) \/ \E kind \in {"unknown", "settled"} : Settle(o, n, kind)
  BY <1>8 DEF Reserve, Settle
<1> QED
  BY <1>3, <1>4, <1>5, <1>6, <1>7, <1>8 DEF StoreStep

(* A step of one run, seen by another.                                     *)
LEMMA StepFrame ==
  ASSUME WorkInv, NEW o \in Owner, AnyStep(o), NEW q \in Owner \ {o}
  PROVE  /\ UNCHANGED <<head, past>>
         /\ host'[q] = host[q] /\ worker'[q] = worker[q] /\ tries'[q] = tries[q]
         /\ unknown'[q] = unknown[q] /\ calls'[q] = calls[q] /\ late'[q] = late[q]
         /\ recovery'[q] = recovery[q]
<1> USE DEF WorkInv, OwnTypeOK, Goto, At, EndRecovery, hostFrame, workerFrame, githubVars, workerVars, closeVars
<1>1. CASE \/ GateAdmit(o) \/ GateQueue(o) \/ GateFinish(o)
  BY <1>1 DEF GateAdmit, GateQueue, GateFinish
<1>2. CASE EnterGroup(o) \/ DropPending(o) \/ Debounce(o) \/ Snapshot(o) \/ Launch(o) \/ StopWaiting(o)
  BY <1>2 DEF EnterGroup, DropPending, Debounce, Snapshot, Launch, StopWaiting
<1>3. CASE PrepareAdmit(o) \/ PrepareQueue(o) \/ PrepareClaim(o) \/ Conclude(o)
  BY <1>3 DEF PrepareAdmit, PrepareQueue, PrepareClaim, Conclude
<1>4. CASE RemoveContainer(o) \/ Publish(o)
  BY <1>4 DEF RemoveContainer, Publish
<1>5. CASE WorkerGuard(o) \/ WorkerConfigure(o) \/ WorkerReserve(o)
  BY <1>5 DEF WorkerGuard, WorkerConfigure, WorkerReserve
<1>6. CASE WorkerSend(o) \/ WorkerAnswer(o) \/ WorkerSettle(o) \/ WorkerFinish(o) \/ WorkerDies(o)
  BY <1>6 DEF WorkerSend, WorkerAnswer, WorkerSettle, WorkerFinish, WorkerDies
<1>7. CASE RecoverRun(o) \/ RecoverLedger(o) \/ RecoverFinish(o) \/ Finalize(o)
  BY <1>7 DEF RecoverRun, RecoverLedger, RecoverFinish, Finalize
<1>8. CASE LaunchFails(o) \/ Interrupt(o) \/ Vanish(o) \/ Deliver(o)
  BY <1>8 DEF LaunchFails, Interrupt, Vanish, Deliver
<1> QED
  BY <1>1, <1>2, <1>3, <1>4, <1>5, <1>6, <1>7, <1>8
     DEF AnyStep, HostStep, WorkerStep, RecoveryStep, Trouble

(* So the invariant of one run survives the steps of every other.          *)
LEMMA OthersKeep ==
  ASSUME WorkInv, StoreTypeOK, ReviewInv, NEW o \in Owner, AnyStep(o), NEW q \in Owner \ {o}
  PROVE  Ledgered(q)' /\ Sanctioned(q)' /\ Timely(q)' /\ Ticketed(q)'
<1>1. /\ approvals \subseteq approvals' /\ attempts'[q] = attempts[q]
      /\ claims[Ticket(q)] = Waiting(q) => claims'[Ticket(q)] = Waiting(q)
  BY StepStores, QueryFrame DEF AnyStep
<1>2. Ledgered(q) /\ Sanctioned(q) /\ Timely(q) /\ Ticketed(q)
  BY DEF ReviewInv
<1>3. /\ UNCHANGED <<head, past>>
      /\ host'[q] = host[q] /\ worker'[q] = worker[q] /\ tries'[q] = tries[q]
      /\ unknown'[q] = unknown[q] /\ calls'[q] = calls[q] /\ late'[q] = late[q]
      /\ recovery'[q] = recovery[q]
  BY StepFrame
<1>4. Ledgered(q)'
  BY <1>1, <1>2, <1>3 DEF Ledgered, Pending
<1>5. Sanctioned(q)' /\ Timely(q)'
  BY <1>1, <1>2, <1>3 DEF Sanctioned, Timely, Vetted
<1>6. Ticketed(q)'
  BY <1>1, <1>2, <1>3 DEF Ticketed, Ticket, Waiting
<1> QED
  BY <1>4, <1>5, <1>6

(* The steps of a run outside its container.                               *)
HostSide(o) ==
  \/ HostStep(o) \/ RecoveryStep(o) \/ Finalize(o)
  \/ LaunchFails(o) \/ Interrupt(o) \/ Vanish(o) \/ Deliver(o)

LEMMA HostLeaves ==
  ASSUME WorkInv, NEW o \in Owner, HostSide(o)
  PROVE  /\ UNCHANGED <<tries, unknown, calls, late, attempts, head, past>>
         /\ \/ worker'[o] = worker[o]
            \/ worker[o] # "none" /\ worker'[o] = "dead"
            \/ host[o] = "ready" /\ worker'[o] = "begin" /\ tries[o] = 0
<1> USE DEF hostFrame, githubVars, workerVars, closeVars, storeVars, Admit, Approve, Queue, ClaimLease, Finish,
            QueueCall, ClaimCall, FinishCall
<1>1. CASE \/ GateAdmit(o) \/ PrepareAdmit(o)
  BY <1>1 DEF GateAdmit, PrepareAdmit
<1>2. CASE GateQueue(o) \/ GateFinish(o) \/ PrepareQueue(o) \/ PrepareClaim(o) \/ Conclude(o)
  BY <1>2 DEF GateQueue, GateFinish, PrepareQueue, PrepareClaim, Conclude
<1>3. CASE EnterGroup(o) \/ DropPending(o) \/ Debounce(o) \/ Snapshot(o) \/ StopWaiting(o) \/ Publish(o)
  BY <1>3 DEF EnterGroup, DropPending, Debounce, Snapshot, StopWaiting, Publish
<1>4. CASE RemoveContainer(o)
  BY <1>4 DEF RemoveContainer, WorkInv, OwnTypeOK, Alive
<1>5. CASE Launch(o)
  <2>1. host[o] = "ready" /\ worker[o] = "none" /\ tries[o] = 0
    BY <1>5 DEF Launch, Goto, WorkInv, TryInv, BeforeLaunch
  <2> QED
    BY <1>5, <2>1 DEF Launch, WorkInv, OwnTypeOK
<1>6. CASE RecoverRun(o) \/ RecoverLedger(o) \/ RecoverFinish(o) \/ Finalize(o)
  BY <1>6 DEF RecoverRun, RecoverLedger, RecoverFinish, Finalize
<1>7. CASE LaunchFails(o) \/ Interrupt(o) \/ Vanish(o) \/ Deliver(o)
  BY <1>7 DEF LaunchFails, Interrupt, Vanish, Deliver
<1> QED
  BY <1>1, <1>2, <1>3, <1>4, <1>5, <1>6, <1>7 DEF HostSide, HostStep, RecoveryStep

LEMMA HostKeepsLedgered ==
  ASSUME WorkInv, NEW o \in Owner, Ledgered(o), HostSide(o)
  PROVE  Ledgered(o)'
  BY HostLeaves DEF Ledgered, Pending

LEMMA HostKeepsSanctioned ==
  ASSUME WorkInv, StoreTypeOK, NEW o \in Owner, Sanctioned(o), HostSide(o)
  PROVE  Sanctioned(o)'
<1>1. Vetted(o) => Vetted(o)'
  BY StepStores, QueryFrame DEF HostSide, Trouble, Vetted
<1>2. ASSUME worker'[o] # "none" PROVE Vetted(o)'
  BY <1>1, <1>2, HostLeaves DEF Sanctioned, Vetting
<1>3. ASSUME host'[o] \in Vetting PROVE Vetted(o)'
  <2>1. CASE host[o] \in Vetting
    BY <1>1, <2>1 DEF Sanctioned
  <2>2. CASE host[o] \notin Vetting
    <3>1. PrepareAdmit(o)
      BY <1>3, <2>2
         DEF HostSide, HostStep, RecoveryStep, Goto, EndRecovery, Vetting, WorkInv, OwnTypeOK,
             GateAdmit, GateQueue, GateFinish, EnterGroup, DropPending, PrepareQueue, Debounce, Snapshot,
             PrepareClaim, Conclude, Launch, StopWaiting, RemoveContainer, Publish, RecoverRun,
             RecoverLedger, RecoverFinish, Finalize, LaunchFails, Interrupt, Vanish, Deliver
    <3>2. PICK v \in Verdict : Admit(o, v) /\ v = "admitted"
      BY <1>3, <2>2, <3>1 DEF PrepareAdmit, Goto, Vetting, WorkInv, OwnTypeOK
    <3> QED
      BY <3>2 DEF Admit, Trusted, Vetted
  <2> QED
    BY <2>1, <2>2
<1> QED
  BY <1>2, <1>3 DEF Sanctioned

LEMMA HostKeepsTimely ==
  ASSUME WorkInv, NEW o \in Owner, Timely(o), Ticketed(o), HostSide(o)
  PROVE  Timely(o)'
<1>1. /\ UNCHANGED <<head, past, late, tries>>
      /\ worker'[o] \in {"reserve", "send"} => worker[o] \in {"reserve", "send"}
  BY HostLeaves
<1>2. CASE Deliver(o)
  BY <1>1, <1>2 DEF Deliver, Timely
<1>3. CASE ~Deliver(o)
  <2>1. host'[o] # "idle" => host[o] # "idle"
    BY <1>3 DEF HostSide, HostStep, RecoveryStep, Goto, EndRecovery, Ticketed, Report, Preparing,
             GateAdmit, GateQueue, GateFinish, EnterGroup, DropPending, PrepareAdmit, PrepareQueue,
             Debounce, Snapshot, PrepareClaim, Conclude, Launch, StopWaiting, RemoveContainer, Publish,
             RecoverRun, RecoverLedger, RecoverFinish, Finalize, LaunchFails, Interrupt, Vanish
  <2> QED
    BY <1>1, <2>1 DEF Timely
<1> QED
  BY <1>2, <1>3

(* Only the gate lets a run wait for its pull request.                     *)
LEMMA HostKeepsTicketed ==
  ASSUME WorkInv, StoreTypeOK, NEW o \in Owner, Ticketed(o), HostSide(o)
  PROVE  Ticketed(o)'
<1> USE DEF WorkInv, OwnTypeOK
<1>1. CASE GateAdmit(o)
  <2>1. PICK v \in Verdict :
          Goto(o, "gate", CASE v = "error" -> "gate_finish"
                            [] v = "admitted" -> "gate_queue"
                            [] v \notin {"error", "admitted"} ->
                                 IF Stops(o, v) THEN "pending" ELSE "done")
    BY <1>1 DEF GateAdmit
  <2>2. host[o] = "gate" /\ (host'[o] = "pending" => EventOf[o] \in Stopping)
    BY <2>1 DEF Goto, Stops, Stopping
  <2> QED
    BY <1>1, <2>2 DEF GateAdmit, hostFrame, closeVars, Ticketed
<1>2. CASE GateQueue(o)
  <2>1. PICK out \in Outcome :
          /\ QueueCall(o, out)
          /\ Goto(o, "gate_queue", IF Raises(out) THEN "gate_finish"
                                   ELSE IF QueueAccepted(o) THEN "pending" ELSE "done")
    BY <1>2 DEF GateQueue
  <2>2. host[o] = "gate_queue" /\ (host'[o] = "pending" => ~Raises(out) /\ QueueAccepted(o))
    BY <2>1 DEF Goto
  <2>3. Ticket(o) \in PR \X Request
    BY OwnerAssumption DEF Ticket
  <2>4. host'[o] = "pending" => claims'[Ticket(o)] = Waiting(o)
    BY <2>1, <2>2, <2>3 DEF QueueCall, Raises, Queue, QueueAccepted, QueueFirst, StoreTypeOK
  <2>5. Waiting(o)' = Waiting(o) /\ Ticket(o)' = Ticket(o)
    BY DEF Waiting, Ticket
  <2> QED
    BY <1>2, <2>2, <2>4, <2>5 DEF GateQueue, hostFrame, closeVars, Ticketed
<1>3. CASE \/ GateFinish(o) \/ EnterGroup(o) \/ DropPending(o) \/ PrepareAdmit(o) \/ PrepareQueue(o)
           \/ Debounce(o) \/ Snapshot(o) \/ PrepareClaim(o) \/ Conclude(o) \/ Launch(o)
           \/ StopWaiting(o) \/ RemoveContainer(o) \/ Publish(o) \/ LaunchFails(o) \/ Deliver(o)
  <2>1. host[o] \notin {"recover", "done"} /\ host'[o] # "pending"
    BY <1>3 DEF Goto, GateFinish, EnterGroup, DropPending, PrepareAdmit, PrepareQueue, Debounce, Snapshot,
                PrepareClaim, Conclude, Launch, StopWaiting, RemoveContainer, Publish, LaunchFails, Deliver
  <2>2. recovery'[o] # "none" => recovery[o] # "none" \/ host'[o] = "recover"
    BY <1>3 DEF Goto, GateFinish, EnterGroup, DropPending, PrepareAdmit, PrepareQueue, Debounce, Snapshot,
                PrepareClaim, Conclude, Launch, StopWaiting, RemoveContainer, Publish, LaunchFails, Deliver,
                hostFrame, closeVars
  <2> QED
    BY <2>1, <2>2 DEF Ticketed
<1>4. CASE RecoveryStep(o) \/ Finalize(o) \/ Interrupt(o) \/ Vanish(o)
  <2>1. host'[o] # "pending"
    BY <1>4 DEF RecoveryStep, RecoverRun, RecoverLedger, RecoverFinish, Finalize, Interrupt, Vanish,
                EndRecovery, Goto, Ticketed, Report, Preparing
  <2>2. recovery'[o] # "none" => host'[o] \in {"recover", "done"}
    BY <1>4 DEF RecoveryStep, RecoverRun, RecoverLedger, RecoverFinish, Finalize, Interrupt, Vanish,
                EndRecovery, Goto, Ticketed, Report, Preparing
  <2> QED
    BY <2>1, <2>2 DEF Ticketed
<1> QED
  BY <1>1, <1>2, <1>3, <1>4 DEF HostSide, HostStep

LEMMA WorkerKeepsReview ==
  ASSUME WorkInv, StoreTypeOK, NEW o \in Owner, WorkerStep(o) \/ WorkerDies(o),
         Ledgered(o), Sanctioned(o), Timely(o), Ticketed(o)
  PROVE  Ledgered(o)' /\ Sanctioned(o)' /\ Timely(o)' /\ Ticketed(o)'
<1>0. /\ worker[o] # "none" /\ UNCHANGED <<host, recovery, head, past>>
      /\ host[o] \notin {"idle", "pending"}
  <2>1. worker[o] # "none" /\ UNCHANGED <<host, recovery, head, past>>
    BY DEF WorkerStep, WorkerDies, WorkerGuard, WorkerConfigure, WorkerReserve, WorkerSend, WorkerAnswer,
           WorkerSettle, WorkerFinish, At, Alive, workerFrame, githubVars, closeVars
  <2> QED
    BY <2>1 DEF WorkInv, TryInv, BeforeLaunch
<1>1. Sanctioned(o)'
  <2>1. Vetted(o) => Vetted(o)'
    BY StepStores, QueryFrame DEF Trouble, Vetted
  <2> QED
    BY <1>0, <2>1 DEF Sanctioned
<1>2. Ticketed(o)'
  BY <1>0 DEF Ticketed
<1>3. Timely(o)'
  <2>1. worker \in [Owner -> WorkerStage] /\ late \in [Owner -> 0..2]
    BY DEF WorkInv, OwnTypeOK
  <2>2. CASE WorkerGuard(o)
    <3>1. worker'[o] = "reserve" => late'[o] = 0
      <4>1. late' = late /\ (worker'[o] = "reserve" => Current(o))
        BY <2>1, <2>2 DEF WorkerGuard, At, Guarded
      <4> QED
        BY <2>1, <4>1 DEF Current, Timely
    <3>2. late' = late /\ worker'[o] # "send"
      BY <2>1, <2>2 DEF WorkerGuard, At
    <3> QED
      BY <1>0, <3>1, <3>2 DEF Timely
  <2>3. CASE WorkerSend(o)
    <3>1. /\ worker[o] = "send" /\ worker'[o] = "call"
          /\ late'[o] = IF head[PrOf[o]] = HeadOf[o] THEN late[o] ELSE late[o] + 1
      BY <2>1, <2>3 DEF WorkerSend, At
    <3>2. late[o] = 0
      BY <3>1 DEF Timely
    <3>3. late'[o] <= 1 /\ (late'[o] > 0 => head[PrOf[o]] # HeadOf[o])
      BY <3>1, <3>2
    <3> QED
      BY <1>0, <3>1, <3>3 DEF Timely
  <2>4. CASE WorkerReserve(o)
    <3>1. late' = late /\ worker[o] = "reserve"
      BY <2>4 DEF WorkerReserve
    <3> QED
      BY <1>0, <3>1 DEF Timely
  <2>5. CASE WorkerConfigure(o) \/ WorkerAnswer(o) \/ WorkerSettle(o) \/ WorkerFinish(o) \/ WorkerDies(o)
    <3>1. late' = late
      BY <2>5 DEF WorkerConfigure, WorkerAnswer, WorkerSettle, WorkerFinish, WorkerDies
    <3>2. worker'[o] \notin {"reserve", "send"}
      BY <2>1, <2>5 DEF WorkerConfigure, WorkerAnswer, WorkerSettle, WorkerFinish, WorkerDies, At
    <3> QED
      BY <1>0, <3>1, <3>2 DEF Timely
  <2> QED
    BY <2>2, <2>3, <2>4, <2>5 DEF WorkerStep
<1>4. Ledgered(o)'
  <2> USE DEF WorkInv, OwnTypeOK, StoreTypeOK
  <2>0. TryInv(o)
    OBVIOUS
  <2>1. CASE WorkerGuard(o) \/ WorkerDies(o)
    BY <1>0, <2>1 DEF WorkerGuard, WorkerDies, At, Ledgered, Pending, storeVars
  <2>2. CASE WorkerConfigure(o) \/ WorkerFinish(o)
    <3>1. UNCHANGED <<attempts, tries, unknown, calls>> /\ worker'[o] \in {"finish", "guard", "exited"}
      BY <2>2 DEF WorkerConfigure, WorkerFinish, At, ConfigureCall, Configure, FinishCall, Finish, storeVars
    <3> QED
      BY <3>1, <1>0 DEF Ledgered, Pending
  <2>3. CASE WorkerReserve(o)
    <3>1. /\ UNCHANGED <<unknown, calls>> /\ worker'[o] \in {"send", "finish"}
          /\ \A n \in Attempt : attempts[o][n] # "none" => attempts'[o][n] = attempts[o][n]
          /\ worker'[o] = "send" => attempts'[o][tries'[o]] = "reserved"
      <4>1. CASE worker'[o] = "finish" /\ UNCHANGED <<storeVars, tries>>
        BY <2>3, <4>1 DEF WorkerReserve, storeVars
      <4>2. CASE \E out \in Outcome :
                   /\ ReserveCall(o, tries[o] + 1, out)
                   /\ At(o, "reserve", IF ReserveGranted(o, tries[o] + 1, out) THEN "send" ELSE "finish")
                   /\ tries' = [tries EXCEPT ![o] = tries[o] + 1]
        <5>1. PICK out \in Outcome :
                   /\ ReserveCall(o, tries[o] + 1, out)
                   /\ At(o, "reserve", IF ReserveGranted(o, tries[o] + 1, out) THEN "send" ELSE "finish")
                   /\ tries' = [tries EXCEPT ![o] = tries[o] + 1]
          BY <4>2
        <5>2. tries[o] \in 0..1 /\ tries[o] + 1 \in Attempt
          BY <2>0, <5>1, ReviewAssumption DEF TryInv, At
        <5>3. /\ \A n \in Attempt : attempts[o][n] # "none" => attempts'[o][n] = attempts[o][n]
              /\ ReserveGranted(o, tries[o] + 1, out) => attempts'[o][tries[o] + 1] = "reserved"
          BY <5>1, <5>2 DEF ReserveCall, Reserve, ReserveGranted, ReserveAccepted, storeVars
        <5> QED
          BY <2>3, <5>1, <5>2, <5>3 DEF WorkerReserve, At
      <4> QED
        BY <2>3, <4>1, <4>2 DEF WorkerReserve, At
    <3> QED
      BY <1>0, <3>1 DEF Ledgered, Pending
  <2>4. CASE WorkerSend(o)
    <3>1. tries[o] \in Attempt /\ attempts[o][tries[o]] = "reserved"
      BY <2>0, <2>4 DEF WorkerSend, At, TryInv, Ledgered
    <3> QED
      BY <2>4, <3>1 DEF WorkerSend, At, Ledgered, Pending, storeVars
  <2>5. CASE WorkerAnswer(o)
    <3>1. tries[o] \in Attempt /\ attempts[o][tries[o]] = "reserved"
      BY <2>0, <2>5 DEF WorkerAnswer, At, TryInv, Ledgered
    <3>2. PICK priced \in BOOLEAN :
            /\ calls' = [calls EXCEPT ![o][tries[o]] = IF priced THEN "known" ELSE "unknown"]
            /\ unknown' = [unknown EXCEPT ![o] = ~priced]
      BY <2>5 DEF WorkerAnswer
    <3>3. /\ calls'[o][tries[o]] = IF unknown'[o] THEN "unknown" ELSE "known"
          /\ \A n \in Attempt \ {tries[o]} : calls'[o][n] = calls[o][n]
      BY <3>1, <3>2
    <3>4. worker'[o] = "settle" /\ UNCHANGED <<attempts, tries>>
      BY <2>5 DEF WorkerAnswer, At, storeVars
    <3> QED
      BY <1>0, <3>1, <3>3, <3>4 DEF Ledgered, Pending
  <2>6. CASE WorkerSettle(o)
    <3>1. /\ worker[o] = "settle" /\ worker'[o] \in {"finish", "guard"}
          /\ UNCHANGED <<tries, unknown, calls>>
          /\ \E out \in Outcome : SettleCall(o, tries[o], IF unknown[o] THEN "unknown" ELSE "settled", out)
      BY <2>6 DEF WorkerSettle, At
    <3>2. tries[o] \in Attempt /\ (~unknown[o] => calls[o][tries[o]] = "known")
      BY <2>0, <3>1 DEF TryInv, Ledgered
    <3>3. \A n \in Attempt :
            \/ attempts'[o][n] = attempts[o][n]
            \/ n = tries[o] /\ attempts'[o][n] = IF unknown[o] THEN "unknown" ELSE "settled"
      BY <3>1, <3>2 DEF SettleCall, Settle, storeVars
    <3> QED
      BY <1>0, <3>1, <3>2, <3>3 DEF Ledgered, Pending
  <2> QED
    BY <2>1, <2>2, <2>3, <2>4, <2>5, <2>6 DEF WorkerStep
<1> QED
  BY <1>1, <1>2, <1>3, <1>4

(* Nothing the invariant speaks of changes, but perhaps the heads.         *)
LEMMA QuietKeeps ==
  ASSUME ReviewInv, NEW q \in Owner,
         UNCHANGED <<approvals, claims, attempts, host, worker, tries, unknown, calls, late, recovery>>
  PROVE  /\ Ledgered(q)' /\ Sanctioned(q)' /\ Ticketed(q)'
         /\ UNCHANGED <<head, past>> => Timely(q)'
<1>0. Ledgered(q) /\ Sanctioned(q) /\ Timely(q) /\ Ticketed(q)
  BY DEF ReviewInv
<1>1. Ledgered(q)'
  BY <1>0 DEF Ledgered, Pending
<1>2. Sanctioned(q)'
  BY <1>0 DEF Sanctioned, Vetted
<1>3. Ticketed(q)'
  BY <1>0 DEF Ticketed, Ticket, Waiting
<1>4. UNCHANGED <<head, past>> => Timely(q)'
  BY <1>0 DEF Timely
<1> QED
  BY <1>1, <1>2, <1>3, <1>4

LEMMA PushKeepsReview ==
  ASSUME WorkInv, ReviewInv, NEW p \in PR, Push(p)
  PROVE  ReviewInv'
<1> SUFFICES ASSUME NEW q \in Owner
             PROVE  Ledgered(q)' /\ Sanctioned(q)' /\ Timely(q)' /\ Ticketed(q)'
  BY DEF ReviewInv
<1>0. /\ UNCHANGED <<approvals, claims, attempts, host, worker, tries, unknown, calls, late, recovery>>
      /\ Ledgered(q) /\ Sanctioned(q) /\ Timely(q) /\ Ticketed(q)
  BY DEF Push, storeVars, workerVars, closeVars, ReviewInv
<1>1. Ledgered(q)' /\ Sanctioned(q)' /\ Ticketed(q)'
  BY <1>0, QuietKeeps
<1>2. /\ late[q] > 0 => host[q] # "idle"
      /\ PrOf[q] \in PR
  <2>1. late[q] \in 0..2 /\ tries[q] \in 0..2 /\ late[q] <= tries[q]
    BY DEF WorkInv, OwnTypeOK, TryInv
  <2>2. tries[q] # 0 => worker[q] # "none"
    BY DEF WorkInv, TryInv
  <2>3. worker[q] # "none" => host[q] # "idle"
    BY DEF WorkInv, TryInv, BeforeLaunch
  <2> QED
    BY <2>1, <2>2, <2>3, OwnerAssumption
<1>3. PICK h \in Head \ past[p] :
        head' = [head EXCEPT ![p] = h] /\ past' = [past EXCEPT ![p] = @ \cup {h}]
  BY DEF Push
<1>4. /\ past[PrOf[q]] \subseteq past'[PrOf[q]]
      /\ HeadOf[q] \in past[PrOf[q]] /\ head[PrOf[q]] # HeadOf[q] => head'[PrOf[q]] # HeadOf[q]
  BY <1>2, <1>3 DEF WorkInv, OwnTypeOK
<1>5. Timely(q)'
  BY <1>0, <1>2, <1>4 DEF Timely
<1> QED
  BY <1>1, <1>5

LEMMA StepKeepsReview ==
  ASSUME WorkInv, StoreTypeOK, ReviewInv, NEW o \in Owner, AnyStep(o)
  PROVE  ReviewInv'
<1>1. Ledgered(o) /\ Sanctioned(o) /\ Timely(o) /\ Ticketed(o)
  BY DEF ReviewInv
<1>2. CASE HostSide(o)
  BY <1>1, <1>2, OthersKeep, HostKeepsLedgered, HostKeepsSanctioned, HostKeepsTimely, HostKeepsTicketed
     DEF ReviewInv
<1>3. CASE WorkerStep(o) \/ WorkerDies(o)
  BY <1>1, <1>3, OthersKeep, WorkerKeepsReview DEF ReviewInv
<1> QED
  BY <1>2, <1>3 DEF AnyStep, HostSide, Trouble

(***************************************************************************)
(* ReviewInv is an invariant of the system: it is inductive relative to    *)
(* WorkInv and the types of the ledger.                                    *)
(***************************************************************************)
THEOREM ReviewInvariant == Spec => []ReviewInv
<1>1. WorkInv /\ StoreTypeOK /\ ReviewInv /\ [Next]_vars => ReviewInv'
  <2> SUFFICES ASSUME WorkInv, StoreTypeOK, ReviewInv, [Next]_vars PROVE ReviewInv'
    OBVIOUS
  <2>1. CASE UNCHANGED vars
    BY <2>1, QuietKeeps DEF vars, storeVars, githubVars, workerVars, closeVars, ReviewInv
  <2>2. CASE \E p \in PR : Push(p)
    BY <2>2, PushKeepsReview
  <2>3. CASE \E p \in PR : Toggle(p)
    BY <2>3, QuietKeeps DEF Toggle, storeVars, workerVars, closeVars, ReviewInv
  <2>4. CASE \E o \in Owner : AnyStep(o)
    BY <2>4, StepKeepsReview
  <2> QED
    BY <2>1, <2>2, <2>3, <2>4 DEF Next, AnyStep
<1>2. Spec => []StoreTypeOK
  BY SystemImplementsStore, StoreTyping, PTL
<1> QED
  BY ReviewInit, WorkTheorem, <1>1, <1>2, PTL DEF Spec

-----------------------------------------------------------------------------
(***************************************************************************)
(* The third invariant follows the price of a run's calls into the report  *)
(* the database keeps: what the worker knows of it, and what a recovery,   *)
(* which never runs beside the container, finds in the ledger.             *)
(***************************************************************************)
Priced(o) == \A n \in Attempt : calls[o][n] \notin {"open", "unknown"}
Asking    == {"guard", "reserve", "send", "call", "settle"}

(* The flag of the worker's budget says whether all its calls are priced.  *)
Told(o) ==
  /\ worker[o] \in {"none", "begin", "configure", "guard", "reserve", "send"} => ~unknown[o] /\ Priced(o)
  /\ worker[o] = "call" => ~unknown[o] /\ \A n \in Attempt \ {tries[o]} : calls[o][n] \notin {"open", "unknown"}
  /\ worker[o] \in {"settle", "finish"} /\ ~unknown[o] => Priced(o)

(* While the worker asks, no report names the cost; a recovery waits for   *)
(* the worker to be over.                                                  *)
Sealed(o) ==
  /\ host[o] \in {"publish", "recover"} \/ recovery[o] # "none" => worker[o] \notin Alive
  /\ recovery[o] = "known_cost" \/ runs[o] = "known_cost" => Priced(o)
  /\ worker[o] \in Asking => runs[o] # "known_cost"

CostInv == \A o \in Owner \ Orphans : Told(o) /\ Sealed(o)

LEMMA CostInit == Init => CostInv
<1> SUFFICES ASSUME Init, NEW o \in Owner PROVE Told(o) /\ Sealed(o)
  BY DEF CostInv
<1>1. worker[o] = "none" /\ ~unknown[o] /\ recovery[o] = "none" /\ runs[o] = "absent"
  BY DEF Init, StoreInit
<1> QED
  BY <1>1 DEF Told, Sealed, Priced, Alive, Asking, Init

(* The host and the recovery: a report that names the cost is written      *)
(* before the launch, when there are no calls, or from a clean ledger.     *)
LEMMA HostRuns ==
  ASSUME StoreTypeOK, NEW o \in Owner, HostSide(o)
  PROVE  \/ runs'[o] = runs[o]
         \/ host[o] \in BeforeLaunch
         \/ recovery[o] \in Report /\ runs'[o] = recovery[o]
<1> USE DEF storeVars, StoreTypeOK, Goto
<1>1. CASE GateAdmit(o) \/ PrepareAdmit(o)
  BY <1>1 DEF GateAdmit, PrepareAdmit, BeforeLaunch, Preparing
<1>2. CASE GateQueue(o) \/ GateFinish(o) \/ PrepareQueue(o) \/ PrepareClaim(o) \/ Conclude(o) \/ LaunchFails(o)
  BY <1>2 DEF GateQueue, GateFinish, PrepareQueue, PrepareClaim, Conclude, LaunchFails, BeforeLaunch, Preparing
<1>3. CASE \/ EnterGroup(o) \/ DropPending(o) \/ Debounce(o) \/ Snapshot(o) \/ Launch(o) \/ StopWaiting(o)
           \/ Publish(o) \/ RemoveContainer(o)
  BY <1>3 DEF EnterGroup, DropPending, Debounce, Snapshot, Launch, StopWaiting, Publish, RemoveContainer
<1>4. CASE RecoverRun(o) \/ RecoverLedger(o) \/ Finalize(o) \/ Interrupt(o) \/ Vanish(o) \/ Deliver(o)
  BY <1>4 DEF RecoverRun, RecoverLedger, Finalize, Interrupt, Vanish, Deliver
<1>5. CASE RecoverFinish(o)
  BY <1>5 DEF RecoverFinish, FinishCall, Finish
<1> QED
  BY <1>1, <1>2, <1>3, <1>4, <1>5 DEF HostSide, HostStep, RecoveryStep

LEMMA RecoveryMoves ==
  ASSUME WorkInv, NEW o \in Owner, HostSide(o), Ledgered(o), Ticketed(o), o \notin Orphans
  PROVE  /\ recovery'[o] \notin {"none", recovery[o]} =>
              host[o] = "publish" \/ recovery[o] # "none" \/ worker[o] \notin Alive
         /\ recovery'[o] = "known_cost" => recovery[o] = "known_cost" \/ Priced(o)
<1> USE DEF WorkInv, OwnTypeOK, Goto
<1>1. CASE \/ GateAdmit(o) \/ PrepareAdmit(o) \/ GateQueue(o) \/ GateFinish(o) \/ PrepareQueue(o)
           \/ PrepareClaim(o) \/ Conclude(o) \/ LaunchFails(o)
  BY <1>1 DEF GateAdmit, PrepareAdmit, GateQueue, GateFinish, PrepareQueue, PrepareClaim, Conclude, LaunchFails,
              hostFrame, closeVars
<1>2. CASE \/ EnterGroup(o) \/ DropPending(o) \/ Debounce(o) \/ Snapshot(o) \/ Launch(o) \/ StopWaiting(o)
           \/ RemoveContainer(o) \/ Deliver(o)
  BY <1>2 DEF EnterGroup, DropPending, Debounce, Snapshot, Launch, StopWaiting, RemoveContainer, Deliver,
              hostFrame, closeVars
<1>3. CASE Publish(o) \/ RecoverRun(o) \/ RecoverFinish(o) \/ Finalize(o) \/ Interrupt(o) \/ Vanish(o)
  BY <1>3 DEF Publish, RecoverRun, RecoverFinish, Finalize, Interrupt, Vanish, EndRecovery, Report
<1>4. CASE RecoverLedger(o)
  <2>1. recovery[o] = "ledger" /\ recovery'[o] \in {"none", Recovered(o)}
    BY <1>4 DEF RecoverLedger, EndRecovery
  <2>2. Recovered(o) = "known_cost" => Pending(o) = {}
    BY DEF Recovered
  <2>3. Pending(o) = {} => Priced(o)
    BY DEF Ledgered, Priced
  <2> QED
    BY <2>1, <2>2, <2>3
<1> QED
  BY <1>1, <1>2, <1>3, <1>4 DEF HostSide, HostStep, RecoveryStep

LEMMA PublishesAfter ==
  ASSUME WorkInv, NEW o \in Owner, HostSide(o), host'[o] \in {"publish", "recover"}
  PROVE  \/ host[o] \in {"publish", "recover"} /\ worker'[o] = worker[o]
         \/ worker'[o] \notin Alive
<1> USE DEF WorkInv, OwnTypeOK, Goto
<1>1. CASE \/ GateAdmit(o) \/ PrepareAdmit(o) \/ GateQueue(o) \/ GateFinish(o) \/ PrepareQueue(o)
           \/ PrepareClaim(o) \/ Conclude(o) \/ Deliver(o)
  BY <1>1 DEF GateAdmit, PrepareAdmit, GateQueue, GateFinish, PrepareQueue, PrepareClaim, Conclude, Deliver
<1>2. CASE EnterGroup(o) \/ DropPending(o) \/ Debounce(o) \/ Snapshot(o) \/ Launch(o) \/ StopWaiting(o)
  BY <1>2 DEF EnterGroup, DropPending, Debounce, Snapshot, Launch, StopWaiting
<1>3. CASE RemoveContainer(o)
  BY <1>3 DEF RemoveContainer, Alive
<1>4. CASE Publish(o) \/ RecoverRun(o) \/ RecoverLedger(o) \/ RecoverFinish(o) \/ Finalize(o) \/ Vanish(o)
  BY <1>4 DEF Publish, RecoverRun, RecoverLedger, RecoverFinish, Finalize, Vanish, EndRecovery, workerVars
<1>5. CASE LaunchFails(o) \/ Interrupt(o)
  <2>1. worker'[o] = worker[o] /\ host[o] \in {"ready", "publish", "recover"}
    BY <1>5 DEF LaunchFails, Interrupt, EndRecovery, hostFrame, workerVars
  <2>2. host[o] = "ready" => worker[o] = "none"
    BY DEF TryInv, BeforeLaunch
  <2> QED
    BY <2>1, <2>2 DEF Alive
<1> QED
  BY <1>1, <1>2, <1>3, <1>4, <1>5 DEF HostSide, HostStep, RecoveryStep

LEMMA HostKeepsCost ==
  ASSUME WorkInv, StoreTypeOK, NEW o \in Owner \ Orphans, HostSide(o), Ledgered(o), Ticketed(o),
         Told(o), Sealed(o)
  PROVE  Told(o)' /\ Sealed(o)'
<1>1. /\ UNCHANGED <<tries, unknown, calls>> /\ (Priced(o)' <=> Priced(o))
      /\ \/ worker'[o] = worker[o]
         \/ worker[o] # "none" /\ worker'[o] = "dead"
         \/ host[o] = "ready" /\ worker'[o] = "begin"
  BY HostLeaves DEF Priced
<1>2. host[o] \in BeforeLaunch => worker[o] = "none"
  BY DEF WorkInv, TryInv
<1>3. worker[o] = "none" => Priced(o)
  BY DEF Ledgered, Priced
<1>4. Told(o)'
  BY <1>1, <1>2 DEF Told, BeforeLaunch
<1>5. host'[o] \in {"publish", "recover"} => worker'[o] \notin Alive
  BY <1>1, PublishesAfter DEF Sealed, Alive
<1>6. recovery'[o] # "none" => worker'[o] \notin Alive
  <2> SUFFICES ASSUME recovery'[o] # "none" PROVE worker'[o] \notin Alive
    OBVIOUS
  <2>1. host[o] # "ready"
    <3>1. recovery[o] # "none" => host[o] # "ready"
      BY DEF Ticketed
    <3>2. recovery[o] = "none" => host[o] # "ready"
      BY DEF HostSide, HostStep, RecoveryStep, Goto, hostFrame, closeVars, EndRecovery, WorkInv, OwnTypeOK,
                  Preparing,
                  GateAdmit, GateQueue, GateFinish, EnterGroup, DropPending, PrepareAdmit, PrepareQueue,
                  Debounce, Snapshot, PrepareClaim, Conclude, Launch, StopWaiting, RemoveContainer, Publish,
                  RecoverRun, RecoverLedger, RecoverFinish, Finalize, LaunchFails, Interrupt, Vanish, Deliver,
                  Report
    <3> QED
      BY <3>1, <3>2
  <2>2. worker[o] \notin Alive
    BY RecoveryMoves DEF Sealed
  <2> QED
    BY <1>1, <2>1, <2>2 DEF Alive
<1>7. recovery'[o] = "known_cost" => Priced(o)'
  BY <1>1, RecoveryMoves DEF Sealed
<1>8. runs'[o] = "known_cost" => Priced(o)'
  BY <1>1, <1>2, <1>3, HostRuns DEF Sealed
<1>9. worker'[o] \in Asking => runs'[o] # "known_cost"
  <2> SUFFICES ASSUME worker'[o] \in Asking PROVE runs'[o] # "known_cost"
    OBVIOUS
  <2>1. worker[o] \in Asking /\ worker[o] \in Alive
    BY <1>1 DEF Asking, Alive
  <2>2. runs'[o] = runs[o]
    BY <1>2, <2>1, HostRuns DEF Sealed, Asking, Report
  <2> QED
    BY <2>1, <2>2 DEF Sealed
<1> QED
  BY <1>4, <1>5, <1>6, <1>7, <1>8, <1>9 DEF Sealed

(* The worker: it names the cost only when every answer was priced.        *)
LEMMA WorkerKeepsTold ==
  ASSUME WorkInv, NEW o \in Owner, WorkerStep(o) \/ WorkerDies(o), Told(o)
  PROVE  Told(o)'
<1>0. /\ worker \in [Owner -> WorkerStage] /\ unknown \in [Owner -> BOOLEAN]
      /\ calls \in [Owner -> [Attempt -> Call]]
      /\ worker[o] \in {"send", "call", "settle"} => tries[o] \in Attempt
  BY DEF WorkInv, OwnTypeOK, TryInv
<1>1. CASE WorkerGuard(o) \/ WorkerConfigure(o) \/ WorkerFinish(o) \/ WorkerDies(o)
  <2>1. UNCHANGED <<calls, unknown>>
    BY <1>1 DEF WorkerGuard, WorkerConfigure, WorkerFinish, WorkerDies
  <2>2. \/ worker[o] \in {"begin", "configure", "guard"} /\ worker'[o] \in {"configure", "guard", "reserve", "finish"}
        \/ worker'[o] \in {"exited", "dead"}
    BY <1>0, <1>1 DEF WorkerGuard, WorkerConfigure, WorkerFinish, WorkerDies, At
  <2> QED
    BY <2>1, <2>2 DEF Told, Priced
<1>2. CASE WorkerReserve(o)
  <2>1. UNCHANGED <<calls, unknown>> /\ worker[o] = "reserve" /\ worker'[o] \in {"send", "finish"}
    BY <1>0, <1>2 DEF WorkerReserve, At
  <2> QED
    BY <2>1 DEF Told, Priced
<1>3. CASE WorkerSend(o)
  <2>1. UNCHANGED <<tries, unknown>> /\ worker[o] = "send" /\ worker'[o] = "call"
    BY <1>0, <1>3 DEF WorkerSend, At
  <2>2. \A n \in Attempt \ {tries[o]} : calls'[o][n] = calls[o][n]
    BY <1>0, <1>3 DEF WorkerSend
  <2> QED
    BY <2>1, <2>2 DEF Told, Priced
<1>4. CASE WorkerAnswer(o)
  <2>1. UNCHANGED tries /\ worker[o] = "call" /\ worker'[o] = "settle" /\ tries[o] \in Attempt
    BY <1>0, <1>4 DEF WorkerAnswer, At
  <2>2. PICK priced \in BOOLEAN :
          /\ calls' = [calls EXCEPT ![o][tries[o]] = IF priced THEN "known" ELSE "unknown"]
          /\ unknown' = [unknown EXCEPT ![o] = ~priced]
    BY <1>4 DEF WorkerAnswer
  <2>3. /\ calls'[o][tries[o]] = IF unknown'[o] THEN "unknown" ELSE "known"
        /\ \A n \in Attempt \ {tries[o]} : calls'[o][n] = calls[o][n]
    BY <1>0, <2>1, <2>2
  <2> QED
    BY <2>1, <2>3 DEF Told, Priced
<1>5. CASE WorkerSettle(o)
  <2>1. /\ UNCHANGED <<calls, unknown>> /\ worker[o] = "settle"
        /\ worker'[o] = "finish" \/ (worker'[o] = "guard" /\ ~unknown[o])
    BY <1>0, <1>5 DEF WorkerSettle, At
  <2> QED
    BY <2>1 DEF Told, Priced
<1> QED
  BY <1>1, <1>2, <1>3, <1>4, <1>5 DEF WorkerStep

LEMMA WorkerKeepsClosed ==
  ASSUME WorkInv, StoreTypeOK, NEW o \in Owner \ Orphans, WorkerStep(o) \/ WorkerDies(o), Told(o), Sealed(o)
  PROVE  Sealed(o)'
<1>0. worker \in [Owner -> WorkerStage] /\ runs \in [Owner -> Run]
  BY DEF WorkInv, OwnTypeOK, StoreTypeOK
<1>1. worker[o] \in Alive /\ UNCHANGED <<host, recovery>>
  BY DEF WorkerStep, WorkerDies, WorkerGuard, WorkerConfigure, WorkerReserve, WorkerSend, WorkerAnswer,
         WorkerSettle, WorkerFinish, At, Alive, workerFrame, closeVars
<1>2. host'[o] \notin {"publish", "recover"} /\ recovery'[o] = "none"
  BY <1>1 DEF Sealed
<1>3. CASE WorkerGuard(o) \/ WorkerDies(o) \/ WorkerReserve(o) \/ WorkerSettle(o)
  <2>1. UNCHANGED <<runs, calls>>
    BY <1>3 DEF WorkerGuard, WorkerDies, WorkerReserve, WorkerSettle, ReserveCall, SettleCall, Reserve, Settle,
                storeVars
  <2>2. worker'[o] \in Asking => worker[o] \in Asking
    BY <1>0, <1>3 DEF WorkerGuard, WorkerDies, WorkerReserve, WorkerSettle, At, Asking
  <2> QED
    BY <1>2, <2>1, <2>2 DEF Sealed, Priced
<1>4. CASE WorkerSend(o) \/ WorkerAnswer(o)
  <2>1. UNCHANGED runs /\ worker[o] \in Asking
    BY <1>4 DEF WorkerSend, WorkerAnswer, At, Asking, storeVars
  <2> QED
    BY <1>2, <2>1 DEF Sealed
<1>5. CASE WorkerConfigure(o)
  <2>1. PICK out \in Outcome :
          ConfigureCall(o, out) /\ At(o, "configure", IF Raises(out) THEN "finish" ELSE "guard")
    BY <1>5 DEF WorkerConfigure
  <2>2. runs'[o] \in {runs[o], "running"} /\ UNCHANGED calls
    BY <1>0, <1>5, <2>1 DEF WorkerConfigure, ConfigureCall, Configure, storeVars
  <2>3. worker'[o] \in Asking => runs'[o] \in {"absent", "running"}
    BY <1>0, <2>1 DEF At, Raises, ConfigureCall, Configure, Asking
  <2> QED
    BY <1>2, <2>2, <2>3 DEF Sealed, Priced
<1>6. CASE WorkerFinish(o)
  <2>1. worker[o] = "finish" /\ worker'[o] = "exited" /\ UNCHANGED calls
    BY <1>0, <1>6 DEF WorkerFinish, At
  <2>2. runs'[o] = "known_cost" => runs[o] = "known_cost" \/ ~unknown[o]
    BY <1>0, <1>6 DEF WorkerFinish, FinishCall, Finish, storeVars
  <2> QED
    BY <1>2, <2>1, <2>2 DEF Sealed, Told, Priced, Asking
<1> QED
  BY <1>3, <1>4, <1>5, <1>6 DEF WorkerStep

LEMMA OthersKeepCost ==
  ASSUME WorkInv, StoreTypeOK, NEW o \in Owner, AnyStep(o), NEW q \in Owner \ {o}, Told(q), Sealed(q)
  PROVE  Told(q)' /\ Sealed(q)'
<1>1. runs'[q] = runs[q]
  BY StepStores, QueryFrame DEF AnyStep
<1>2. /\ host'[q] = host[q] /\ worker'[q] = worker[q] /\ tries'[q] = tries[q]
      /\ unknown'[q] = unknown[q] /\ calls'[q] = calls[q] /\ recovery'[q] = recovery[q]
  BY StepFrame
<1> QED
  BY <1>1, <1>2 DEF Told, Sealed, Priced

LEMMA StepKeepsCost ==
  ASSUME WorkInv, StoreTypeOK, ReviewInv, CostInv, NEW o \in Owner, AnyStep(o)
  PROVE  CostInv'
<1> SUFFICES ASSUME NEW q \in Owner \ Orphans PROVE Told(q)' /\ Sealed(q)'
  BY DEF CostInv
<1>0. Told(q) /\ Sealed(q) /\ Ledgered(q) /\ Ticketed(q)
  BY DEF CostInv, ReviewInv
<1>1. CASE q # o
  BY <1>0, <1>1, OthersKeepCost
<1>2. CASE q = o /\ HostSide(o)
  BY <1>0, <1>2, HostKeepsCost
<1>3. CASE q = o /\ (WorkerStep(o) \/ WorkerDies(o))
  BY <1>0, <1>3, WorkerKeepsTold, WorkerKeepsClosed
<1> QED
  BY <1>1, <1>2, <1>3 DEF AnyStep, HostSide, Trouble

(***************************************************************************)
(* CostInv is an invariant of the system, relative to the two before it.   *)
(***************************************************************************)
THEOREM CostInvariant == Spec => []CostInv
<1>1. WorkInv /\ StoreTypeOK /\ ReviewInv /\ CostInv /\ [Next]_vars => CostInv'
  <2> SUFFICES ASSUME WorkInv, StoreTypeOK, ReviewInv, CostInv, [Next]_vars PROVE CostInv'
    OBVIOUS
  <2>1. CASE UNCHANGED vars \/ \E p \in PR : Push(p) \/ Toggle(p)
    <3>1. UNCHANGED <<runs, host, worker, tries, unknown, calls, recovery>>
      BY <2>1 DEF vars, Push, Toggle, storeVars, workerVars, closeVars
    <3> QED
      BY <3>1 DEF CostInv, Told, Sealed, Priced
  <2>2. CASE \E o \in Owner : AnyStep(o)
    BY <2>2, StepKeepsCost
  <2> QED
    BY <2>1, <2>2 DEF Next, AnyStep
<1>2. Spec => []StoreTypeOK
  BY SystemImplementsStore, StoreTyping, PTL
<1> QED
  BY CostInit, WorkTheorem, ReviewInvariant, <1>1, <1>2, PTL DEF Spec

-----------------------------------------------------------------------------
(***************************************************************************)
(* What follows for the properties the runs check.                         *)
(***************************************************************************)

(* Every variable keeps its type, the report that recover has read too.    *)
THEOREM SystemTyping == Spec => []SystemTypeOK
<1> DEFINE BaseOK == base \in [Owner -> Run]
<1>1. Init => BaseOK
  BY DEF Init, Run
<1>2. StoreTypeOK /\ BaseOK /\ [Next]_vars => BaseOK'
  <2> SUFFICES ASSUME StoreTypeOK, BaseOK, [Next]_vars PROVE BaseOK'
    OBVIOUS
  <2>1. \/ UNCHANGED base
        \/ \E o \in Owner : EndRecovery(o) \/ base' = [base EXCEPT ![o] = runs[o]]
    BY DEF Next, vars, Push, Toggle, Deliver, Trouble, HostStep, WorkerStep, RecoveryStep,
           GateAdmit, GateQueue, GateFinish, EnterGroup, DropPending, PrepareAdmit, PrepareQueue,
           Debounce, Snapshot, PrepareClaim, Conclude, Launch, StopWaiting, RemoveContainer, Publish,
           RecoverRun, RecoverLedger, RecoverFinish, Finalize, LaunchFails, Interrupt, Vanish,
           WorkerGuard, WorkerConfigure, WorkerReserve, WorkerSend, WorkerAnswer, WorkerSettle,
           WorkerFinish, WorkerDies, hostFrame, workerFrame, closeVars
  <2> QED
    BY <2>1 DEF EndRecovery, StoreTypeOK, Run
<1>3. StoreTypeOK /\ WorkInv /\ BaseOK => SystemTypeOK
  BY DEF WorkInv, OwnTypeOK, SystemTypeOK
<1>4. Spec => []StoreTypeOK
  BY SystemImplementsStore, StoreTyping, PTL
<1> QED
  BY <1>1, <1>2, <1>3, <1>4, WorkTheorem, PTL DEF Spec

(* No call that may be billed is missing from the ledger.                  *)
THEOREM CallsRemembered == Spec => []NoCallForgotten
<1>1. ReviewInv => NoCallForgotten
  BY DEF ReviewInv, Ledgered, NoCallForgotten
<1> QED
  BY <1>1, ReviewInvariant, PTL

(* So the one run with unpriced attempts is the one with a call in flight. *)
THEOREM CallsExclusive == Spec => []OneCallInFlight
<1>1. NoCallForgotten /\ OnePaidReview => OneCallInFlight
  BY DEF NoCallForgotten, OnePaidReview, OneCallInFlight
<1> QED
  BY <1>1, CallsRemembered, SystemLedger, PTL

(* A stored report that names the cost is true, whichever of the worker,   *)
(* the launcher and the finalizer wrote it last, where the container ends  *)
(* with its run.                                                           *)
THEOREM StoredCosts == Spec => []StoredCostIsTrue
<1>1. CostInv => StoredCostIsTrue
  BY DEF CostInv, Sealed, Priced, StoredCostIsTrue
<1> QED
  BY <1>1, CostInvariant, PTL

(* Nothing is spent on a head of an outsider that nobody approved.         *)
THEOREM CallsAdmitted == Spec => []PaidHeadAdmitted
<1>1. ReviewInv => PaidHeadAdmitted
  BY DEF ReviewInv, Ledgered, Sanctioned, Vetted, PaidHeadAdmitted
<1> QED
  BY <1>1, ReviewInvariant, PTL

(* A review of a replaced head sends at most one more call.                *)
THEOREM LateCallsBounded == Spec => []AtMostOneLateCall
<1>1. ReviewInv => AtMostOneLateCall
  BY DEF ReviewInv, Timely, AtMostOneLateCall
<1> QED
  BY <1>1, ReviewInvariant, PTL

(* A run that comes to review never signals the run that holds its ticket. *)
THEOREM DuplicatesHarmless == Spec => DuplicateIsHarmless
<1>1. WorkInv /\ ReviewInv /\ [Next]_vars => [Harmless]_vars
  <2> SUFFICES ASSUME WorkInv, ReviewInv, Next, NEW o \in Owner, NEW q \in Owner,
                      Enters(o), Signalled(q), EventOf[o] \notin {"closed", "synchronize"},
                      Ticket(o) = Ticket(q)
               PROVE  claims[Ticket(q)].owner # q
    BY DEF Harmless
  <2>1. PICK r \in Owner : EnterGroup(r)
    BY DEF Signalled, Next, Push, Toggle, Deliver, Trouble, HostStep, WorkerStep, RecoveryStep,
           GateAdmit, GateQueue, GateFinish, DropPending, PrepareAdmit, PrepareQueue,
           Debounce, Snapshot, PrepareClaim, Conclude, Launch, StopWaiting, RemoveContainer, Publish,
           RecoverRun, RecoverLedger, RecoverFinish, Finalize, LaunchFails, Interrupt, Vanish,
           WorkerGuard, WorkerConfigure, WorkerReserve, WorkerSend, WorkerAnswer, WorkerSettle,
           WorkerFinish, WorkerDies, hostFrame, workerFrame
  <2>2. r = o
    BY <2>1 DEF EnterGroup, Goto, Enters, WorkInv, OwnTypeOK
  <2>3. q # o
    BY <2>1, <2>2 DEF EnterGroup, Rivals, Signalled, WorkInv, OwnTypeOK
  <2>4. claims[Ticket(o)] = Waiting(o)
    BY DEF Enters, ReviewInv, Ticketed, Stopping
  <2> QED
    BY <2>3, <2>4 DEF Waiting
<1> QED
  BY <1>1, WorkTheorem, ReviewInvariant, PTL DEF Spec, DuplicateIsHarmless

=============================================================================
