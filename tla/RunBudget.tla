------------------------------ MODULE RunBudget ------------------------------
(***************************************************************************)
(* The money of one worker: RunBudget (policy_review/budget.py) under      *)
(* BudgetedPolicyModel.invoke (model.py), called by the loop of            *)
(* review_snapshot (engine.py), with the rows it leaves in the audit       *)
(* ledger and, beside them, what the provider really bills.  Money is      *)
(* counted in natural units.                                               *)
(*                                                                         *)
(* An operator marked "faulty" is the one below it with a plausible bug:   *)
(* no specification uses it, and the configurations reject a specification *)
(* that would.                                                             *)
(***************************************************************************)
EXTENDS Naturals

CONSTANTS
  Limit,    \* YDBDOC_REVIEW_MAX_RUN_COST_RUB of this run
  Bound,    \* what one attempt may be estimated to cost at most
  Bill      \* what the provider may bill for one attempt

ASSUME MoneyAssumption ==
  /\ Limit \in Nat
  /\ Bound \subseteq Nat
  /\ Bill \subseteq Nat

VARIABLES
  spent,        \* RunBudget.spent
  pending,      \* RunBudget._pending: [Attempt -> Nat], 0 where there is none
  next,         \* RunBudget._next
  unknown,      \* RunBudget.unknown
  auditFailed,  \* RunBudget._audit_failed
  callFailed,   \* BudgetedPolicyModel._audit_failed
  stage,        \* where review_snapshot and invoke are
  ledger,       \* doc_review_attempts: [Attempt -> Row]
  bill          \* what the provider has billed: [Attempt -> Nat]

budgetVars == <<spent, pending, next, unknown, auditFailed>>
vars == <<budgetVars, callFailed, stage, ledger, bill>>

Attempt == 1..2         \* for _ in range(2)
Stage   == {"invoke", "reserve", "call", "settle", "done"}
Row     == [kind : {"none", "reserved", "unknown", "settled"}, reservation : Nat, cost : Nat]
NoRow   == [kind |-> "none", reservation |-> 0, cost |-> 0]

Reserved  == pending[1] + pending[2]
Billed    == bill[1] + bill[2]
Last      == next - 1
Unpriced(n) == ledger[n].kind \in {"reserved", "unknown"}

TypeOK ==
  /\ spent \in Nat /\ pending \in [Attempt -> Nat] /\ next \in 1..3
  /\ unknown \in BOOLEAN /\ auditFailed \in BOOLEAN /\ callFailed \in BOOLEAN
  /\ stage \in Stage
  /\ ledger \in [Attempt -> Row]
  /\ bill \in [Attempt -> Nat]

Init ==
  /\ spent = 0
  /\ pending = [n \in Attempt |-> 0]
  /\ next = 1
  /\ unknown = FALSE /\ auditFailed = FALSE /\ callFailed = FALSE
  /\ stage = "invoke"
  /\ ledger = [n \in Attempt |-> NoRow]
  /\ bill = [n \in Attempt |-> 0]

-----------------------------------------------------------------------------
(***************************************************************************)
(* RunBudget.                                                              *)
(***************************************************************************)

(* _record: the audit accepts the event; or it takes the event and fails   *)
(* to say so; or it takes nothing.  Everything but the first is a failure, *)
(* which forbids every later reservation.                                  *)
AuditedQuietly(n, row) ==               \* faulty: a failure is passed over
  ledger' \in {ledger, [ledger EXCEPT ![n] = row]} /\ auditFailed' = auditFailed
Audited(n, row) ==
  \/ ledger' = [ledger EXCEPT ![n] = row] /\ auditFailed' \in {auditFailed, TRUE}
  \/ ledger' = ledger /\ auditFailed' = TRUE

FitsAlone(amount) == amount <= Limit    \* faulty: what is spent is not counted
Fits(amount) ==
  /\ spent < Limit
  /\ spent + Reserved + amount <= Limit

(* reserve: the amount is pending before the audit is asked, and stays so  *)
(* when the audit fails.                                                   *)
Reservable(amount) == ~auditFailed /\ ~unknown /\ Fits(amount)

Reserve(amount) ==
  /\ pending' = [pending EXCEPT ![next] = amount]
  /\ next' = next + 1
  /\ Audited(next, [kind |-> "reserved", reservation |-> amount, cost |-> 0])
  /\ UNCHANGED <<spent, unknown>>

(* settle with a price: spent and pending change before the audit is asked.*)
SettleKept(cost) ==                     \* faulty: the reservation stays pending
  /\ spent' = spent + cost
  /\ Audited(Last, [ledger[Last] EXCEPT !.kind = "settled", !.cost = cost])
  /\ UNCHANGED <<pending, next, unknown>>
SettleLess(cost) ==                     \* faulty: the price comes off the reservation
  /\ spent' = spent + cost
  /\ pending' = [pending EXCEPT ![Last] = @ - cost]
  /\ Audited(Last, [ledger[Last] EXCEPT !.kind = "settled", !.cost = cost])
  /\ UNCHANGED <<next, unknown>>
SettleKnown(cost) ==
  /\ spent' = spent + cost
  /\ pending' = [pending EXCEPT ![Last] = 0]
  /\ Audited(Last, [ledger[Last] EXCEPT !.kind = "settled", !.cost = cost])
  /\ UNCHANGED <<next, unknown>>

(* settle without a usable price: nothing, not a Decimal, NaN or negative. *)
SettleFree ==                           \* faulty: no price is a price of zero
  /\ pending' = [pending EXCEPT ![Last] = 0]
  /\ Audited(Last, [ledger[Last] EXCEPT !.kind = "settled"])
  /\ UNCHANGED <<spent, next, unknown>>
SettleUnknown ==
  /\ unknown' = TRUE
  /\ Audited(Last, [ledger[Last] EXCEPT !.kind = "unknown"])
  /\ UNCHANGED <<spent, pending, next>>

(* stop_reason, asked after every attempt.                                 *)
StopReason == auditFailed \/ unknown \/ spent > Limit

-----------------------------------------------------------------------------
(***************************************************************************)
(* BudgetedPolicyModel.invoke, one attempt.                                *)
(***************************************************************************)
Goto(from, to) == stage = from /\ stage' = to

(* before_attempt: the guard of the worker lets the attempt go on or not.  *)
BeforeAttempt ==
  /\ IF callFailed THEN Goto("invoke", "done")
     ELSE Goto("invoke", "reserve") \/ Goto("invoke", "done")
  /\ UNCHANGED <<budgetVars, callFailed, ledger, bill>>

ReserveAttempt ==
  /\ stage = "reserve"
  /\ \E amount \in Bound :
       \/ /\ Reservable(amount) /\ Reserve(amount)
          /\ Goto("reserve", IF auditFailed' THEN "done" ELSE "call")
       \/ /\ ~Reservable(amount)
          /\ Goto("reserve", "done")
          /\ UNCHANGED <<budgetVars, ledger>>
  /\ UNCHANGED <<callFailed, bill>>

(* The request is sent; from here the provider may bill for it.            *)
Send ==
  /\ Goto("call", "settle")
  /\ \E b \in Bill : bill' = [bill EXCEPT ![Last] = b]
  /\ UNCHANGED <<budgetVars, callFailed, ledger>>

(* record: settle, then the usage row of the attempt.  A failure of either *)
(* and a price that is none at all break the call off; otherwise the       *)
(* answer is judged: another round, or the end.                            *)
SettleAttempt ==
  /\ stage = "settle"
  /\ SettleKnown(bill[Last]) \/ SettleUnknown
  /\ \/ /\ ~StopReason' /\ next <= 2
        /\ Goto("settle", "invoke")
        /\ UNCHANGED callFailed
     \/ Goto("settle", "done") /\ callFailed' \in {callFailed, TRUE}
  /\ auditFailed' => callFailed'
  /\ UNCHANGED bill

Finished == stage = "done" /\ UNCHANGED vars

Next == BeforeAttempt \/ ReserveAttempt \/ Send \/ SettleAttempt \/ Finished

Spec == Init /\ [][Next]_vars

-----------------------------------------------------------------------------
(***************************************************************************)
(* Properties                                                              *)
(***************************************************************************)

(* As long as no attempt was billed above its reservation, a run is never  *)
(* billed more than its limit, whatever the audit and the prices did       *)
(* (B-04, B-05).                                                           *)
BillWithinLimit ==
  (\A n \in Attempt : bill[n] <= ledger[n].reservation) => Billed <= Limit

(* Outside the worker's memory nothing is forgotten: what the provider     *)
(* billed is on the ledger as a price, or an unpriced row is there and     *)
(* keeps the pull request locked (B-06).                                   *)
LedgerCoversBill ==
  \A n \in Attempt : bill[n] > 0 => Unpriced(n) \/ ledger[n].cost = bill[n]

(* The cost a report states as known is the whole bill, even of a run that *)
(* was broken off by the audit.                                            *)
ReportedCostIsBill == stage = "done" /\ ~unknown => spent = Billed

(* Memory and ledger tell the same story while the audit works.            *)
MemoryIsLedger ==
  ~auditFailed =>
    /\ \A n \in Attempt :
         pending[n] = IF Unpriced(n) THEN ledger[n].reservation ELSE 0
    /\ spent = ledger[1].cost + ledger[2].cost

(* No request is sent after an unknown price, a failed audit or an         *)
(* exhausted limit: a stop is final.                                       *)
Stopped == unknown \/ auditFailed \/ callFailed \/ spent >= Limit
StopIsFinal == [][Stopped => bill' = bill]_vars

(* The three accounts of one run, which are the provider's, the ledger's   *)
(* and the worker's, agree wherever a reader may compare them.             *)
AccountsAgree == LedgerCoversBill /\ ReportedCostIsBill /\ MemoryIsLedger

=============================================================================
