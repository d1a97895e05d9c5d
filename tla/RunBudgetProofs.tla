--------------------------- MODULE RunBudgetProofs ---------------------------
(***************************************************************************)
(* Theorems of RunBudget, for every limit, bound and bill.                 *)
(***************************************************************************)
EXTENDS RunBudget, TLAPS

(***************************************************************************)
(* The inductive invariant.  Attempts before Last are settled; Last is in  *)
(* the state its stage says; nothing is known of attempts to come.         *)
(***************************************************************************)
Quiet == ~auditFailed /\ ~unknown /\ ~callFailed

Settled(n) ==
  /\ ledger[n].kind = "settled"
  /\ ledger[n].cost = bill[n]
  /\ pending[n] = 0

Untouched(n) == bill[n] = 0 /\ pending[n] = 0 /\ ledger[n] = NoRow

Between ==
  /\ Quiet
  /\ \A n \in Attempt : IF n < next THEN Settled(n) ELSE Untouched(n)
  /\ spent = Billed

Reserving ==
  /\ next \in 2..3 /\ Quiet
  /\ \A n \in Attempt : IF n < Last THEN Settled(n) ELSE n > Last => Untouched(n)
  /\ ledger[Last].kind = "reserved" /\ ledger[Last].cost = 0
  /\ ledger[Last].reservation = pending[Last]
  /\ spent + pending[Last] <= Limit

StageInv ==
  /\ stage \in {"invoke", "reserve"} => Between /\ next <= 2
  /\ stage = "call" => Reserving /\ bill[Last] = 0 /\ spent = Billed /\ spent < Limit
  /\ stage = "settle" => Reserving /\ spent + bill[Last] = Billed
  /\ stage = "done" => ReportedCostIsBill

BudgetInv ==
  /\ TypeOK
  /\ StageInv
  /\ BillWithinLimit
  /\ LedgerCoversBill
  /\ MemoryIsLedger

(* A fresh budget satisfies it.                                            *)
LEMMA InitInv == Init => BudgetInv
<1> SUFFICES ASSUME Init PROVE BudgetInv
  OBVIOUS
<1>1. NoRow \in Row
  BY DEF NoRow, Row
<1>2. TypeOK
  <2>1. next \in 1..3 /\ stage \in Stage /\ spent \in Nat
    BY DEF Init, Stage
  <2>2. ledger \in [Attempt -> Row]
    BY <1>1 DEF Init
  <2> QED
    BY <2>1, <2>2 DEF Init, TypeOK
<1>3. /\ \A n \in Attempt : bill[n] = 0 /\ pending[n] = 0 /\ ledger[n] = NoRow
      /\ 1 \in Attempt /\ 2 \in Attempt
  BY DEF Init, Attempt
<1>4. StageInv
  BY <1>3 DEF Init, StageInv, Between, Quiet, Untouched, Billed, Attempt
<1>5. BillWithinLimit /\ LedgerCoversBill
  BY <1>3, MoneyAssumption DEF BillWithinLimit, LedgerCoversBill, Billed
<1>6. MemoryIsLedger
  BY <1>3 DEF Init, MemoryIsLedger, Unpriced, NoRow
<1> QED
  BY <1>2, <1>4, <1>5, <1>6 DEF BudgetInv

(***************************************************************************)
(* The two ways the audit can answer, seen from the row it was asked for.  *)
(***************************************************************************)
LEMMA AuditedRow ==
  ASSUME NEW n \in Attempt, NEW row \in Row, ledger \in [Attempt -> Row],
         auditFailed \in BOOLEAN, Audited(n, row)
  PROVE  /\ ledger' \in [Attempt -> Row] /\ auditFailed' \in BOOLEAN
         /\ \A m \in Attempt : m # n => ledger'[m] = ledger[m]
         /\ ledger'[n] = row \/ (ledger'[n] = ledger[n] /\ auditFailed')
         /\ auditFailed => auditFailed'
  BY DEF Audited

(* The guard and the refused reservation change nothing but the stage.     *)
LEMMA BeforeAttemptInv == BudgetInv /\ BeforeAttempt => BudgetInv'
<1> SUFFICES ASSUME BudgetInv, BeforeAttempt PROVE BudgetInv'
  OBVIOUS
<1>1. UNCHANGED <<budgetVars, callFailed, ledger, bill>>
  BY DEF BeforeAttempt
<1>2. stage = "invoke" /\ stage' \in {"reserve", "done"}
  BY DEF BeforeAttempt, Goto
<1>3. TypeOK'
  BY <1>1, <1>2 DEF BudgetInv, TypeOK, Stage, budgetVars
<1>4. StageInv'
  BY <1>1, <1>2 DEF BudgetInv, StageInv, Between, Quiet, Settled, Untouched, Billed,
     ReportedCostIsBill, budgetVars
<1>5. (BillWithinLimit /\ LedgerCoversBill /\ MemoryIsLedger)'
  BY <1>1 DEF BudgetInv, BillWithinLimit, LedgerCoversBill, MemoryIsLedger, Unpriced, Billed,
     budgetVars
<1> QED
  BY <1>3, <1>4, <1>5 DEF BudgetInv

(* A reservation that fits, whether the audit accepts it or not.           *)
LEMMA ReserveInv ==
  ASSUME BudgetInv, NEW amount \in Bound, stage = "reserve", Reservable(amount), Reserve(amount),
         stage' = (IF auditFailed' THEN "done" ELSE "call"), UNCHANGED <<callFailed, bill>>
  PROVE  BudgetInv'
<1> DEFINE row == [kind |-> "reserved", reservation |-> amount, cost |-> 0]
<1>1. /\ amount \in Nat /\ row \in Row /\ Limit \in Nat
      /\ Between /\ next \in Attempt /\ TypeOK
  BY MoneyAssumption DEF BudgetInv, TypeOK, StageInv, Row, Attempt
<1>2. /\ ledger' \in [Attempt -> Row] /\ auditFailed' \in BOOLEAN
      /\ \A m \in Attempt : m # next => ledger'[m] = ledger[m]
      /\ ledger'[next] = row \/ (ledger'[next] = ledger[next] /\ auditFailed')
  BY <1>1, AuditedRow DEF Reserve, TypeOK
<1>3. /\ pending' = [pending EXCEPT ![next] = amount]
      /\ next' = next + 1 /\ spent' = spent /\ unknown' = unknown /\ bill' = bill
  BY DEF Reserve
<1>4. /\ pending' \in [Attempt -> Nat] /\ pending'[next] = amount
      /\ \A m \in Attempt : m # next => pending'[m] = pending[m]
  BY <1>1, <1>3 DEF TypeOK
<1>5. TypeOK'
  BY <1>1, <1>2, <1>3, <1>4 DEF TypeOK, Stage, Attempt
<1>6. /\ Untouched(next) /\ ~unknown /\ ~callFailed /\ spent = Billed
      /\ \A n \in Attempt : n < next => Settled(n)
      /\ \A n \in Attempt : n > next => Untouched(n)
  <2>1. next \in Nat /\ \A n \in Attempt : n \in Nat
    BY <1>1 DEF Attempt
  <2> QED
    BY <1>1, <2>1 DEF Between, Quiet
<1>7. spent + amount <= Limit /\ spent < Limit
  <2>1. /\ pending[1] \in Nat /\ pending[2] \in Nat /\ spent \in Nat
        /\ spent + (pending[1] + pending[2]) + amount <= Limit /\ spent < Limit
    BY <1>1 DEF TypeOK, Attempt, Reservable, Fits, Reserved
  <2> QED
    BY <2>1, <1>1
<1>8. StageInv'
  <2>1. stage' = "done" => ReportedCostIsBill'
    BY <1>3, <1>6 DEF ReportedCostIsBill, Billed
  <2>2. ASSUME stage' = "call" PROVE Reserving' /\ bill'[Last'] = 0 /\ spent' = Billed' /\ spent' < Limit
    <3>1. ~auditFailed' /\ Last' = next /\ next' \in 2..3 /\ ledger'[next] = row
      BY <2>2, <1>1, <1>2, <1>3 DEF Last, Attempt
    <3>2. \A n \in Attempt : IF n < next THEN Settled(n)' ELSE n > next => Untouched(n)'
      <4> SUFFICES ASSUME NEW n \in Attempt PROVE IF n < next THEN Settled(n)' ELSE n > next => Untouched(n)'
        OBVIOUS
      <4>1. CASE n = next
        BY <4>1, <1>1 DEF Attempt
      <4>2. CASE n # next
        BY <4>2, <1>2, <1>3, <1>4, <1>6 DEF Settled, Untouched
      <4> QED
        BY <4>1, <4>2
    <3>3. Reserving'
      BY <3>1, <3>2, <1>3, <1>4, <1>6, <1>7 DEF Reserving, Quiet
    <3> QED
      BY <3>1, <3>3, <1>3, <1>6, <1>7 DEF Untouched, Billed
  <2> QED
    BY <2>1, <2>2 DEF StageInv
<1>9. BillWithinLimit'
  <2> SUFFICES ASSUME \A n \in Attempt : bill'[n] <= ledger'[n].reservation
               PROVE  Billed' <= Limit
    BY DEF BillWithinLimit
  <2>1. \A n \in Attempt : bill[n] <= ledger[n].reservation
    <3>1. bill[next] <= ledger[next].reservation
      BY <1>6 DEF Untouched, NoRow
    <3>2. ASSUME NEW n \in Attempt, n # next PROVE bill[n] <= ledger[n].reservation
      BY <3>2, <1>2, <1>3
    <3> QED
      BY <3>1, <3>2
  <2> QED
    BY <2>1, <1>3 DEF BudgetInv, BillWithinLimit, Billed
<1>10. LedgerCoversBill'
  BY <1>1, <1>2, <1>3, <1>6 DEF BudgetInv, LedgerCoversBill, Unpriced, Untouched
<1>11. MemoryIsLedger'
  <2> SUFFICES ASSUME ~auditFailed' PROVE MemoryIsLedger'
    BY DEF MemoryIsLedger
  <2>1. ledger'[next] = row /\ ~auditFailed
    BY <1>2, <1>1 DEF Between, Quiet
  <2>2. \A n \in Attempt : pending'[n] = IF Unpriced(n)' THEN ledger'[n].reservation ELSE 0
    <3> SUFFICES ASSUME NEW n \in Attempt
                 PROVE  pending'[n] = IF Unpriced(n)' THEN ledger'[n].reservation ELSE 0
      OBVIOUS
    <3>1. CASE n = next
      BY <3>1, <2>1, <1>4 DEF Unpriced
    <3>2. CASE n # next
      BY <3>2, <2>1, <1>2, <1>4 DEF Unpriced, BudgetInv, MemoryIsLedger
    <3> QED
      BY <3>1, <3>2
  <2>3. \A n \in Attempt : ledger'[n].cost = ledger[n].cost
    BY <2>1, <1>2, <1>6 DEF Untouched, NoRow
  <2> QED
    BY <2>1, <2>2, <2>3, <1>3 DEF BudgetInv, MemoryIsLedger, Attempt
<1> QED
  BY <1>5, <1>8, <1>9, <1>10, <1>11 DEF BudgetInv

(* Sending: the bill of the attempt becomes whatever the provider says.    *)
LEMMA SendInv == BudgetInv /\ Send => BudgetInv'
<1> SUFFICES ASSUME BudgetInv, Send PROVE BudgetInv'
  OBVIOUS
<1>1. PICK b \in Bill : bill' = [bill EXCEPT ![Last] = b]
  BY DEF Send
<1>2. /\ stage = "call" /\ stage' = "settle"
      /\ spent' = spent /\ pending' = pending /\ next' = next /\ unknown' = unknown
      /\ auditFailed' = auditFailed /\ callFailed' = callFailed /\ ledger' = ledger
  BY DEF Send, Goto, budgetVars
<1>3. TypeOK /\ Reserving /\ bill[Last] = 0 /\ spent = Billed /\ b \in Nat /\ Limit \in Nat
  BY <1>2, MoneyAssumption DEF BudgetInv, StageInv
<1>4. Last \in Attempt /\ Last' = Last /\ Last \in Nat
  BY <1>2, <1>3 DEF Reserving, Last, Attempt
<1>5. /\ bill' \in [Attempt -> Nat] /\ bill'[Last] = b
      /\ \A m \in Attempt : m # Last => bill'[m] = bill[m]
  BY <1>1, <1>3, <1>4 DEF TypeOK
<1>6. TypeOK'
  BY <1>2, <1>3, <1>5 DEF TypeOK, Stage
<1>7. Billed' = Billed + b
  <2>1. bill[1] \in Nat /\ bill[2] \in Nat /\ (Last = 1 \/ Last = 2)
    BY <1>3, <1>4 DEF TypeOK, Attempt
  <2>2. CASE Last = 1
    BY <2>1, <2>2, <1>3, <1>5 DEF Billed, Attempt
  <2>3. CASE Last = 2
    BY <2>1, <2>3, <1>3, <1>5 DEF Billed, Attempt
  <2> QED
    BY <2>1, <2>2, <2>3
<1>8. Reserving'
  <2>1. \A n \in Attempt : IF n < Last THEN Settled(n)' ELSE n > Last => Untouched(n)'
    <3> SUFFICES ASSUME NEW n \in Attempt PROVE IF n < Last THEN Settled(n)' ELSE n > Last => Untouched(n)'
      OBVIOUS
    <3>1. CASE n = Last
      BY <3>1, <1>4
    <3>2. CASE n # Last
      BY <3>2, <1>2, <1>3, <1>5 DEF Reserving, Settled, Untouched
    <3> QED
      BY <3>1, <3>2
  <2> QED
    BY <2>1, <1>2, <1>3, <1>4 DEF Reserving, Quiet
<1>9. StageInv'
  BY <1>2, <1>3, <1>4, <1>5, <1>7, <1>8 DEF StageInv
<1>10. BillWithinLimit'
  <2> SUFFICES ASSUME \A n \in Attempt : bill'[n] <= ledger'[n].reservation
               PROVE  Billed' <= Limit
    BY DEF BillWithinLimit
  <2>1. b <= pending[Last]
    BY <1>2, <1>3, <1>4, <1>5 DEF Reserving
  <2>2. spent \in Nat /\ pending[Last] \in Nat /\ spent + pending[Last] <= Limit
    BY <1>3, <1>4 DEF TypeOK, Reserving
  <2> QED
    BY <2>1, <2>2, <1>3, <1>7
<1>11. LedgerCoversBill'
  BY <1>2, <1>3, <1>4, <1>5 DEF BudgetInv, LedgerCoversBill, Unpriced, Reserving
<1>12. MemoryIsLedger'
  BY <1>2 DEF BudgetInv, MemoryIsLedger, Unpriced
<1> QED
  BY <1>6, <1>9, <1>10, <1>11, <1>12 DEF BudgetInv

(* Settling, with or without a price.                                      *)
LEMMA SettleInv ==
  ASSUME BudgetInv, SettleAttempt
  PROVE  BudgetInv'
<1>1. /\ stage = "settle" /\ TypeOK /\ Reserving /\ spent + bill[Last] = Billed
      /\ bill' = bill /\ next' = next /\ Limit \in Nat
      /\ SettleKnown(bill[Last]) \/ SettleUnknown
      /\ stage' \in {"invoke", "done"} /\ callFailed' \in BOOLEAN
      /\ stage' = "invoke" => ~StopReason' /\ next <= 2 /\ callFailed' = callFailed
  BY MoneyAssumption
     DEF SettleAttempt, SettleKnown, SettleUnknown, BudgetInv, StageInv, Goto, TypeOK
<1>2. /\ Last \in Attempt /\ Last' = Last /\ Last \in Nat /\ next = Last + 1
      /\ bill[Last] \in Nat /\ spent \in Nat /\ pending[Last] \in Nat
  BY <1>1 DEF Reserving, Last, Attempt, TypeOK
<1> DEFINE paid == [ledger[Last] EXCEPT !.kind = "settled", !.cost = bill[Last]]
           lost == [ledger[Last] EXCEPT !.kind = "unknown"]
<1>3. /\ paid \in Row /\ lost \in Row /\ ledger[Last] \in Row
      /\ paid.kind = "settled" /\ paid.cost = bill[Last]
      /\ lost.kind = "unknown" /\ lost.cost = 0
      /\ paid.reservation = ledger[Last].reservation
      /\ lost.reservation = ledger[Last].reservation
  BY <1>1, <1>2 DEF TypeOK, Row, Reserving
<1>4. \/ SettleKnown(bill[Last]) /\ Audited(Last, paid)
      \/ SettleUnknown /\ Audited(Last, lost)
  BY <1>1 DEF SettleKnown, SettleUnknown
<1>5. /\ ledger' \in [Attempt -> Row] /\ auditFailed' \in BOOLEAN
      /\ \A m \in Attempt : m # Last => ledger'[m] = ledger[m]
      /\ ledger'[Last].reservation = ledger[Last].reservation
      /\ ledger'[Last] # ledger[Last] \/ ~auditFailed' =>
            IF unknown' THEN ledger'[Last] = lost ELSE ledger'[Last] = paid
  <2>1. CASE SettleKnown(bill[Last]) /\ Audited(Last, paid)
    BY <2>1, <1>1, <1>2, <1>3, AuditedRow DEF TypeOK, SettleKnown, Reserving, Quiet
  <2>2. CASE SettleUnknown /\ Audited(Last, lost)
    BY <2>2, <1>1, <1>2, <1>3, AuditedRow DEF TypeOK, SettleUnknown, Reserving, Quiet
  <2> QED
    BY <1>4, <2>1, <2>2
<1>6. /\ spent' = IF unknown' THEN spent ELSE spent + bill[Last]
      /\ pending' \in [Attempt -> Nat]
      /\ \A m \in Attempt : m # Last => pending'[m] = pending[m]
      /\ pending'[Last] = IF unknown' THEN pending[Last] ELSE 0
      /\ unknown' \in BOOLEAN /\ spent' \in Nat
  <2>1. CASE SettleKnown(bill[Last])
    BY <2>1, <1>1, <1>2 DEF TypeOK, SettleKnown, Reserving, Quiet
  <2>2. CASE SettleUnknown
    BY <2>2, <1>1, <1>2 DEF TypeOK, SettleUnknown
  <2> QED
    BY <1>4, <2>1, <2>2
<1>7. TypeOK'
  BY <1>1, <1>5, <1>6 DEF TypeOK, Stage
<1>8. ~unknown' => spent' = Billed'
  BY <1>1, <1>6 DEF Billed
<1>9. StageInv'
  <2>1. ASSUME stage' = "invoke" PROVE Between' /\ next' <= 2
    <3>1. ~auditFailed' /\ ~unknown' /\ ~callFailed' /\ next <= 2
      BY <2>1, <1>1 DEF StopReason, Reserving, Quiet
    <3>2. ledger'[Last] = paid
      BY <3>1, <1>5
    <3>3. \A n \in Attempt : IF n < next THEN Settled(n)' ELSE Untouched(n)'
      <4> SUFFICES ASSUME NEW n \in Attempt PROVE IF n < next THEN Settled(n)' ELSE Untouched(n)'
        OBVIOUS
      <4>1. CASE n = Last
        BY <4>1, <3>1, <3>2, <1>1, <1>2, <1>3, <1>6 DEF Settled
      <4>2. CASE n # Last
        <5>1. n \in Nat /\ (n < next <=> n < Last)
          BY <4>2, <1>2 DEF Attempt
        <5>2. IF n < Last THEN Settled(n) ELSE Untouched(n)
          BY <4>2, <5>1, <1>1, <1>2 DEF Reserving
        <5> QED
          BY <4>2, <5>1, <5>2, <1>1, <1>5, <1>6 DEF Settled, Untouched
      <4> QED
        BY <4>1, <4>2
    <3> QED
      BY <3>1, <3>3, <1>1, <1>8 DEF Between, Quiet
  <2> QED
    BY <2>1, <1>1, <1>8 DEF StageInv, ReportedCostIsBill
<1>10. BillWithinLimit'
  <2>1. \A n \in Attempt : ledger'[n].reservation = ledger[n].reservation
    BY <1>5
  <2> QED
    BY <2>1, <1>1 DEF BudgetInv, BillWithinLimit, Billed
<1>11. LedgerCoversBill'
  <2> SUFFICES ASSUME NEW n \in Attempt, bill[n] > 0
               PROVE  Unpriced(n)' \/ ledger'[n].cost = bill[n]
    BY <1>1 DEF LedgerCoversBill
  <2>1. CASE n # Last
    BY <2>1, <1>5 DEF BudgetInv, LedgerCoversBill, Unpriced
  <2>2. CASE n = Last
    <3>1. ledger'[Last] \in {ledger[Last], lost, paid}
      BY <1>5
    <3> QED
      BY <2>2, <3>1, <1>1, <1>3 DEF Unpriced, Reserving
  <2> QED
    BY <2>1, <2>2
<1>12. MemoryIsLedger'
  <2> SUFFICES ASSUME ~auditFailed' PROVE MemoryIsLedger'
    BY DEF MemoryIsLedger
  <2>1. ledger'[Last] = IF unknown' THEN lost ELSE paid
    BY <1>5
  <2>2. ~auditFailed
    BY <1>1 DEF Reserving, Quiet
  <2>3. \A n \in Attempt : pending'[n] = IF Unpriced(n)' THEN ledger'[n].reservation ELSE 0
    <3> SUFFICES ASSUME NEW n \in Attempt
                 PROVE  pending'[n] = IF Unpriced(n)' THEN ledger'[n].reservation ELSE 0
      OBVIOUS
    <3>1. CASE n = Last
      BY <3>1, <2>1, <1>1, <1>3, <1>6 DEF Unpriced, Reserving
    <3>2. CASE n # Last
      BY <3>2, <2>2, <1>5, <1>6 DEF Unpriced, BudgetInv, MemoryIsLedger
    <3> QED
      BY <3>1, <3>2
  <2>4. spent' = ledger'[1].cost + ledger'[2].cost
    <3>1. spent = ledger[1].cost + ledger[2].cost /\ ledger[Last].cost = 0
      BY <2>2, <1>1 DEF BudgetInv, MemoryIsLedger, Reserving
    <3>2. ledger'[Last].cost = IF unknown' THEN 0 ELSE bill[Last]
      BY <2>1, <1>3
    <3>3. /\ ledger[1].cost \in Nat /\ ledger[2].cost \in Nat
          /\ 1 \in Attempt /\ 2 \in Attempt /\ (Last = 1 \/ Last = 2)
      BY <1>1, <1>2 DEF TypeOK, Row, Attempt
    <3>4. CASE Last = 1
      BY <3>1, <3>2, <3>3, <3>4, <1>2, <1>5, <1>6
    <3>5. CASE Last = 2
      BY <3>1, <3>2, <3>3, <3>5, <1>2, <1>5, <1>6
    <3> QED
      BY <3>3, <3>4, <3>5
  <2> QED
    BY <2>3, <2>4 DEF MemoryIsLedger
<1> QED
  BY <1>7, <1>9, <1>10, <1>11, <1>12 DEF BudgetInv

(* Every step keeps the invariant.                                         *)
LEMMA BudgetStep == BudgetInv /\ [Next]_vars => BudgetInv'
<1> SUFFICES ASSUME BudgetInv, [Next]_vars PROVE BudgetInv'
  OBVIOUS
<1>1. CASE BeforeAttempt
  BY <1>1, BeforeAttemptInv
<1>2. CASE ReserveAttempt
  <2>1. PICK amount \in Bound :
          \/ /\ Reservable(amount) /\ Reserve(amount)
             /\ Goto("reserve", IF auditFailed' THEN "done" ELSE "call")
          \/ /\ ~Reservable(amount)
             /\ Goto("reserve", "done")
             /\ UNCHANGED <<budgetVars, ledger>>
    BY <1>2 DEF ReserveAttempt
  <2>2. UNCHANGED <<callFailed, bill>> /\ stage = "reserve"
    BY <1>2 DEF ReserveAttempt
  <2>3. CASE Reservable(amount) /\ Reserve(amount)
                /\ Goto("reserve", IF auditFailed' THEN "done" ELSE "call")
    BY <2>2, <2>3, ReserveInv DEF Goto
  <2>4. CASE Goto("reserve", "done") /\ UNCHANGED <<budgetVars, ledger>>
    <3>1. TypeOK' /\ StageInv'
      BY <2>2, <2>4 DEF BudgetInv, TypeOK, StageInv, Stage, Between, ReportedCostIsBill, Billed,
         Goto, budgetVars
    <3> QED
      BY <3>1, <2>2, <2>4 DEF BudgetInv, BillWithinLimit, LedgerCoversBill, MemoryIsLedger,
         Unpriced, Billed, budgetVars
  <2> QED
    BY <2>1, <2>3, <2>4
<1>3. CASE Send
  BY <1>3, SendInv
<1>4. CASE SettleAttempt
  BY <1>4, SettleInv
<1>5. CASE Finished \/ UNCHANGED vars
  <2>1. UNCHANGED vars
    BY <1>5 DEF Finished
  <2> QED
    BY <2>1 DEF vars, budgetVars, BudgetInv, TypeOK, StageInv, Between, Reserving, Quiet, Settled,
       Untouched, Last, Billed, ReportedCostIsBill, BillWithinLimit, LedgerCoversBill,
       MemoryIsLedger, Unpriced
<1> QED
  BY <1>1, <1>2, <1>3, <1>4, <1>5 DEF Next

(* Ledger, memory and bill agree up to what the step in hand has done.     *)
THEOREM BudgetInvariant == Spec => []BudgetInv
<1>1. Init => BudgetInv
  BY InitInv
<1>2. BudgetInv /\ [Next]_vars => BudgetInv'
  BY BudgetStep
<1> QED
  BY <1>1, <1>2, PTL DEF Spec

(***************************************************************************)
(* The fields of RunBudget and the rows of the attempts table keep their   *)
(* types: no sum is negative and at most two attempts are counted.         *)
(***************************************************************************)
THEOREM BudgetTyping == Spec => []TypeOK
<1>1. BudgetInv => TypeOK
  BY DEF BudgetInv
<1> QED
  BY <1>1, BudgetInvariant, PTL

(***************************************************************************)
(* A run whose attempts were estimated high enough is never billed more    *)
(* than the limit it was given: the reservation of one attempt and the     *)
(* prices of the ones before it fit together, whatever the audit and the   *)
(* provider answer (RunBudget.reserve, settle).                            *)
(***************************************************************************)
THEOREM BillTheorem == Spec => []BillWithinLimit
<1>1. BudgetInv => BillWithinLimit
  BY DEF BudgetInv
<1> QED
  BY <1>1, BudgetInvariant, PTL

(***************************************************************************)
(* What was billed is on the ledger, as its price or as an unpriced row.   *)
(***************************************************************************)
THEOREM CoverTheorem == Spec => []LedgerCoversBill
<1>1. BudgetInv => LedgerCoversBill
  BY DEF BudgetInv
<1> QED
  BY <1>1, BudgetInvariant, PTL

(***************************************************************************)
(* A report that states a cost states the whole bill (run_worker: cost_rub *)
(* is None exactly when the budget is unknown).                            *)
(***************************************************************************)
THEOREM ReportTheorem == Spec => []ReportedCostIsBill
<1>1. BudgetInv => ReportedCostIsBill
  BY DEF BudgetInv, StageInv, ReportedCostIsBill
<1> QED
  BY <1>1, BudgetInvariant, PTL

(***************************************************************************)
(* While the audit works, the worker's memory and the ledger agree.        *)
(***************************************************************************)
THEOREM MemoryTheorem == Spec => []MemoryIsLedger
<1>1. BudgetInv => MemoryIsLedger
  BY DEF BudgetInv
<1> QED
  BY <1>1, BudgetInvariant, PTL

(***************************************************************************)
(* The three accounts of a run agree: what was billed is on the ledger, a  *)
(* cost that is reported is the bill, and memory and ledger do not part    *)
(* while the audit works (RunBudget.reserve, settle; run_worker).          *)
(***************************************************************************)
THEOREM AccountsTheorem == Spec => []AccountsAgree
<1>1. LedgerCoversBill /\ ReportedCostIsBill /\ MemoryIsLedger => AccountsAgree
  BY DEF AccountsAgree
<1> QED
  BY <1>1, CoverTheorem, ReportTheorem, MemoryTheorem, PTL

(***************************************************************************)
(* A stop is final: after an unknown price, a failed audit or an exhausted *)
(* limit no request is sent (BudgetedPolicyModel.invoke, stop_reason).     *)
(***************************************************************************)
THEOREM StopTheorem == Spec => StopIsFinal
<1>1. BudgetInv /\ [Next]_vars => [Stopped => bill' = bill]_vars
  <2> SUFFICES ASSUME BudgetInv, [Next]_vars, Stopped PROVE bill' = bill
    OBVIOUS
  <2>1. stage # "call"
    <3> SUFFICES ASSUME stage = "call" PROVE FALSE
      OBVIOUS
    <3>1. Quiet /\ spent < Limit /\ spent \in Nat /\ Limit \in Nat
      BY MoneyAssumption DEF BudgetInv, TypeOK, StageInv, Reserving
    <3> QED
      BY <3>1 DEF Stopped, Quiet
  <2>2. ~Send
    BY <2>1 DEF Send, Goto
  <2> QED
    BY <2>2 DEF Next, BeforeAttempt, ReserveAttempt, SettleAttempt, Finished, vars
<1> QED
  BY <1>1, BudgetInvariant, PTL DEF Spec, StopIsFinal

=============================================================================
