----------------------------- MODULE ReviewStore -----------------------------
(***************************************************************************)
(* The audit database of the documentation policy review: the five tables  *)
(* of docs/doc-review-schema.sql and the queries of policy_review/store.py.*)
(* Each query is one serializable transaction, hence one action.  The      *)
(* specification StoreSpec lets every owner issue every query at any time, *)
(* so what it guarantees, it guarantees for late, repeated and abandoned   *)
(* callers too; PolicyReview adds the callers.                             *)
(*                                                                         *)
(* An operator marked "faulty" is the one below it with a plausible bug:   *)
(* no specification uses it, and the configurations reject a specification *)
(* that would.                                                             *)
(***************************************************************************)
CONSTANTS
  PR,         \* pull requests of the reviewed repository
  Head,       \* commits
  Request,    \* request identities, "manual:<event>" or "auto:<head>"
  Owner,      \* run attempts, "github-run:<run>:<attempt>"
  Attempt,    \* attempt numbers of one owner's ledger
  PrOf,       \* [Owner -> PR]: one run attempt serves one event
  HeadOf,     \* [Owner -> Head]: the head named by that event
  RequestOf,  \* [Owner -> Request]: ReviewTrigger.request_id of the event
  None        \* the absent owner

ASSUME OwnerAssumption ==
  /\ PrOf \in [Owner -> PR]
  /\ HeadOf \in [Owner -> Head]
  /\ RequestOf \in [Owner -> Request]
  /\ None \notin Owner

VARIABLES
  approvals,  \* doc_review_approvals: approved <<pr, head>>
  claims,     \* doc_review_claims: the row of each <<pr, request>>
  leases,     \* doc_review_leases: the owner of each locked pr
  runs,       \* doc_review_runs: what the row of each owner reports
  attempts    \* doc_review_attempts: the kind of each <<owner, attempt>>

storeVars == <<approvals, claims, leases, runs, attempts>>

(***************************************************************************)
(* Rows.  A final report is abstracted to what it says of the money: a     *)
(* number ("known_cost") or nothing ("cost_unknown").                      *)
(***************************************************************************)
Phase   == {"absent", "waiting", "running"}
Claim   == [owner : Owner \cup {None}, phase : Phase]
NoClaim == [owner |-> None, phase |-> "absent"]
Report  == {"known_cost", "cost_unknown"}
Run     == {"absent", "waiting", "prepared", "running"} \cup Report
Kind    == {"none", "reserved", "unknown", "settled"}

Ticket(o)  == <<PrOf[o], RequestOf[o]>>
Ownerless(o) == [phase |-> "waiting"]      \* faulty: the owner column left out
Waiting(o) == [owner |-> o, phase |-> "waiting"]
Running(o) == [owner |-> o, phase |-> "running"]

(* Attempts whose price nobody knows: kind != 'settled'.                   *)
Pending(o) == {n \in Attempt : attempts[o][n] \in {"reserved", "unknown"}}

StoreTypeOK ==
  /\ approvals \subseteq PR \X Head
  /\ claims \in [PR \X Request -> Claim]
  /\ leases \in [PR -> Owner \cup {None}]
  /\ runs \in [Owner -> Run]
  /\ attempts \in [Owner -> [Attempt -> Kind]]

StoreInit ==
  /\ approvals = {}
  /\ claims = [t \in PR \X Request |-> NoClaim]
  /\ leases = [p \in PR |-> None]
  /\ runs = [o \in Owner |-> "absent"]
  /\ attempts = [o \in Owner |-> [n \in Attempt |-> "none"]]

(***************************************************************************)
(* approve: an operator's ok-to-test, for the head that was read.          *)
(***************************************************************************)
Approve(p, h) ==
  /\ approvals' = approvals \cup {<<p, h>>}
  /\ UNCHANGED <<claims, leases, runs, attempts>>

(***************************************************************************)
(* _QUEUE: the first owner of a request waits; that owner may ask again.   *)
(***************************************************************************)
QueueFirst(o)    == claims[Ticket(o)] = NoClaim
QueueAnyway(o)   == TRUE                   \* faulty: a duplicate is let in
QueueAccepted(o) == QueueFirst(o) \/ claims[Ticket(o)] = Waiting(o)

Queue(o) ==
  /\ IF QueueFirst(o)
     THEN /\ claims' = [claims EXCEPT ![Ticket(o)] = Waiting(o)]
          /\ runs' = [runs EXCEPT ![o] = "waiting"]
     ELSE UNCHANGED <<claims, runs>>
  /\ UNCHANGED <<approvals, leases, attempts>>

(***************************************************************************)
(* _CLAIM: a waiting owner takes the unlocked pull request and its claim   *)
(* becomes 'running', a row no query ever removes or reassigns.            *)
(***************************************************************************)
ClaimLocked(o) == claims[Ticket(o)] = Waiting(o)   \* faulty: $leases not looked at

ClaimAccepted(o) ==
  /\ leases[PrOf[o]] = None
  /\ claims[Ticket(o)] = Waiting(o)

ClaimLease(o) ==
  /\ IF ClaimAccepted(o)
     THEN /\ leases' = [leases EXCEPT ![PrOf[o]] = o]
          /\ claims' = [claims EXCEPT ![Ticket(o)] = Running(o)]
          /\ runs' = [runs EXCEPT ![o] = "prepared"]
     ELSE UNCHANGED <<leases, claims, runs>>
  /\ UNCHANGED <<approvals, attempts>>

Owns(o) == leases[PrOf[o]] = o

(* configure: the run row, if there is one, now describes a running worker.*)
Configure(o) ==
  /\ runs' = [runs EXCEPT ![o] = IF @ = "absent" THEN @ ELSE "running"]
  /\ UNCHANGED <<approvals, claims, leases, attempts>>

(***************************************************************************)
(* _RESERVE and _SETTLE: the money ledger.                                 *)
(***************************************************************************)
ReserveUnleased(o, n) == attempts[o][n] = "none"   \* faulty: $held not looked at

ReserveAccepted(o, n) ==
  /\ Owns(o)
  /\ attempts[o][n] = "none"

Reserve(o, n) ==
  /\ attempts' = [attempts EXCEPT ![o][n] =
                    IF ReserveAccepted(o, n) THEN "reserved" ELSE @]
  /\ UNCHANGED <<approvals, claims, leases, runs>>

SettleAgain(o, n) == attempts[o][n] # "none"       \* faulty: any kind may be settled

SettleAccepted(o, n) == n \in Pending(o)

Settle(o, n, kind) ==
  /\ attempts' = [attempts EXCEPT ![o][n] =
                    IF SettleAccepted(o, n) THEN kind ELSE @]
  /\ UNCHANGED <<approvals, claims, leases, runs>>

(***************************************************************************)
(* _FINISH: the report is stored, the lease is dropped unless an attempt   *)
(* is still unpriced, and a claim that never ran is withdrawn.             *)
(***************************************************************************)
UnlockAnyway(o) == Owns(o)                                            \* faulty
UnlockUnused(o) == Owns(o) /\ \A n \in Attempt : attempts[o][n] = "none" \* faulty
Unlocked(o)     == Owns(o) /\ Pending(o) = {}

WithdrawnLate(o) == claims[Ticket(o)] = Running(o)                    \* faulty
Withdrawn(o)     == claims[Ticket(o)] = Waiting(o)

Finish(o, report) ==
  /\ runs' = [runs EXCEPT ![o] = IF @ = "absent" THEN @ ELSE report]
  /\ leases' = [leases EXCEPT ![PrOf[o]] = IF Unlocked(o) THEN None ELSE @]
  /\ claims' = [claims EXCEPT ![Ticket(o)] = IF Withdrawn(o) THEN NoClaim ELSE @]
  /\ UNCHANGED <<approvals, attempts>>

StoreStep(o) ==
  \/ Queue(o)
  \/ ClaimLease(o)
  \/ Configure(o)
  \/ \E n \in Attempt :
       \/ Reserve(o, n)
       \/ \E kind \in {"unknown", "settled"} : Settle(o, n, kind)
  \/ \E report \in Report : Finish(o, report)
  \/ Approve(PrOf[o], HeadOf[o])

StoreNext == \E o \in Owner : StoreStep(o)

StoreSpec == StoreInit /\ [][StoreNext]_storeVars

-----------------------------------------------------------------------------
(***************************************************************************)
(* Properties                                                              *)
(***************************************************************************)

(* An attempt nobody has priced keeps its owner's lease: no finish, late   *)
(* or repeated, may unlock the pull request around it ($pending == 0 in    *)
(* _FINISH, $held == 1 in _RESERVE).                                       *)
PendingHoldsLease ==
  \A o \in Owner : Pending(o) # {} => leases[PrOf[o]] = o

(* Two different owners never have unpriced attempts on one pull request:  *)
(* at most one paid review of a pull request is in progress.               *)
OnePaidReview ==
  \A o1, o2 \in Owner :
    Pending(o1) # {} /\ Pending(o2) # {} /\ PrOf[o1] = PrOf[o2] => o1 = o2

(* Money is only ever spent by the owner whose claim runs, so one request  *)
(* (one event, one head) is paid for by one owner, whatever is redelivered *)
(* or rerun.                                                               *)
PaidByClaimant ==
  \A o \in Owner :
    (\E n \in Attempt : attempts[o][n] # "none") => claims[Ticket(o)] = Running(o)

(* A pull request is locked only by the owner of the running claim.        *)
LeaseNeedsClaim ==
  \A o \in Owner : leases[PrOf[o]] = o => claims[Ticket(o)] = Running(o)

(* A claim that once ran is never deleted, replaced or demoted, and an     *)
(* attempt never leaves 'settled' or falls back to 'reserved'.             *)
LedgerOnlyAdvances ==
  /\ \A t \in PR \X Request : claims[t].phase = "running" => claims'[t] = claims[t]
  /\ \A o \in Owner, n \in Attempt :
       /\ attempts[o][n] = "settled" => attempts'[o][n] = "settled"
       /\ attempts[o][n] = "unknown" => attempts'[o][n] # "reserved"
       /\ attempts[o][n] # "none" => attempts'[o][n] # "none"
LedgerAdvances == [][LedgerOnlyAdvances]_storeVars

PL == INSTANCE PaidLease WITH
        holder  <- leases,
        granted <- {t \in PR \X Request : claims[t].phase = "running"},
        open    <- {c \in Owner \X Attempt : attempts[c[1]][c[2]] \in {"reserved", "unknown"}},
        closed  <- {c \in Owner \X Attempt : attempts[c[1]][c[2]] = "settled"}

(* The ledger implements PaidLease: a lease is the loan of the pull        *)
(* request, a running claim the grant of the request, an unpriced attempt  *)
(* an open call, and _FINISH the end of the loan.                          *)
PaidLeaseSpec == PL!Spec

=============================================================================
