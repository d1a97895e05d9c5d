-------------------------- MODULE ReviewStoreProofs --------------------------
(***************************************************************************)
(* What the ledger guarantees for any number of pull requests, owners,     *)
(* requests and attempts.                                                  *)
(***************************************************************************)
EXTENDS ReviewStore, TLAPS

-----------------------------------------------------------------------------
(* The tables always hold rows of the schema's shape.                      *)
THEOREM StoreTyping == StoreSpec => []StoreTypeOK
<1>1. StoreInit => StoreTypeOK
  BY OwnerAssumption DEF StoreInit, StoreTypeOK, Claim, NoClaim, Phase, Run, Kind
<1>2. StoreTypeOK /\ [StoreNext]_storeVars => StoreTypeOK'
  <2> SUFFICES ASSUME StoreTypeOK, [StoreNext]_storeVars
               PROVE  StoreTypeOK'
    OBVIOUS
  <2> USE DEF StoreTypeOK
  <2>1. CASE UNCHANGED storeVars
    BY <2>1 DEF storeVars
  <2>2. ASSUME NEW o \in Owner, StoreStep(o)
        PROVE  StoreTypeOK'
    <3>1. /\ PrOf[o] \in PR
          /\ HeadOf[o] \in Head
          /\ Ticket(o) \in PR \X Request
      BY OwnerAssumption DEF Ticket
    <3>2. /\ NoClaim \in Claim
          /\ Waiting(o) \in Claim
          /\ Running(o) \in Claim
      BY DEF NoClaim, Waiting, Running, Claim, Phase
    <3>3. CASE Queue(o)
      BY <3>1, <3>2, <3>3 DEF Queue, Run
    <3>4. CASE ClaimLease(o)
      BY <3>1, <3>2, <3>4 DEF ClaimLease, Run
    <3>5. CASE Configure(o)
      BY <3>5 DEF Configure, Run
    <3>6. ASSUME NEW n \in Attempt, Reserve(o, n)
          PROVE  StoreTypeOK'
      BY <3>6 DEF Reserve, Kind
    <3>7. ASSUME NEW n \in Attempt, NEW kind \in {"unknown", "settled"}, Settle(o, n, kind)
          PROVE  StoreTypeOK'
      BY <3>7 DEF Settle, Kind
    <3>8. ASSUME NEW report \in Report, Finish(o, report)
          PROVE  StoreTypeOK'
      BY <3>1, <3>2, <3>8 DEF Finish, Unlocked, Withdrawn, Owns, Run
    <3>9. CASE Approve(PrOf[o], HeadOf[o])
      BY <3>1, <3>9 DEF Approve
    <3> QED
      BY <2>2, <3>3, <3>4, <3>5, <3>6, <3>7, <3>8, <3>9 DEF StoreStep
  <2> QED
    BY <2>1, <2>2 DEF StoreNext
<1> QED
  BY <1>1, <1>2, PTL DEF StoreSpec

-----------------------------------------------------------------------------
(***************************************************************************)
(* PendingHoldsLease is not inductive: whether an owner whose lease was    *)
(* dropped can still reserve, or can come back for the lease, depends on   *)
(* its claim.  The claim of a lease holder runs, a running claim is never  *)
(* waiting again, and only a waiting claim is given a lease.               *)
(***************************************************************************)
LedgerInv ==
  /\ StoreTypeOK
  /\ PendingHoldsLease
  /\ LeaseNeedsClaim
  /\ PaidByClaimant

(* The three clauses about one owner are kept by its own steps and by the  *)
(* steps of every other owner.                                             *)
LEMMA LedgerStep ==
  ASSUME LedgerInv, StoreTypeOK', NEW o \in Owner, StoreStep(o), NEW q \in Owner
  PROVE  /\ Pending(q)' # {} => leases'[PrOf[q]] = q
         /\ leases'[PrOf[q]] = q => claims'[Ticket(q)] = Running(q)
         /\ (\E n \in Attempt : attempts'[q][n] # "none") => claims'[Ticket(q)] = Running(q)
<1> USE OwnerAssumption DEF LedgerInv, StoreTypeOK
<1>1. /\ PrOf[o] \in PR /\ PrOf[q] \in PR
      /\ Ticket(o) \in PR \X Request /\ Ticket(q) \in PR \X Request
      /\ o # None /\ q # None
  BY DEF Ticket
<1>2. /\ Running(q) # Waiting(o) /\ Running(q) # NoClaim
      /\ Running(q) = Running(o) => q = o
  BY <1>1 DEF Running, Waiting, NoClaim
<1>3. /\ Pending(q) # {} => leases[PrOf[q]] = q
      /\ leases[PrOf[q]] = q => claims[Ticket(q)] = Running(q)
      /\ (\E n \in Attempt : attempts[q][n] # "none") => claims[Ticket(q)] = Running(q)
  BY DEF PendingHoldsLease, LeaseNeedsClaim, PaidByClaimant
<1>4. CASE Queue(o)
  <2>1. UNCHANGED <<leases, attempts>>
    BY <1>4 DEF Queue
  <2>2. claims[Ticket(q)] = Running(q) => claims'[Ticket(q)] = Running(q)
    BY <1>1, <1>2, <1>4 DEF Queue, QueueFirst
  <2> QED
    BY <1>3, <2>1, <2>2 DEF Pending
<1>5. CASE ClaimLease(o)
  <2>1. CASE ~ClaimAccepted(o)
    BY <1>3, <1>5, <2>1 DEF ClaimLease, Pending
  <2>2. CASE ClaimAccepted(o)
    <3>1. /\ attempts' = attempts
          /\ leases' = [leases EXCEPT ![PrOf[o]] = o]
          /\ claims' = [claims EXCEPT ![Ticket(o)] = Running(o)]
      BY <1>5, <2>2 DEF ClaimLease
    <3>2. leases[PrOf[o]] = None /\ claims[Ticket(o)] = Waiting(o)
      BY <2>2 DEF ClaimAccepted
    <3>3. claims[Ticket(q)] = Running(q) => claims'[Ticket(q)] = Running(q)
      BY <1>1, <1>2, <3>1, <3>2
    <3>4. leases[PrOf[q]] = q => leases'[PrOf[q]] = q
      BY <1>1, <3>1, <3>2
    <3>5. leases'[PrOf[q]] = q => claims'[Ticket(q)] = Running(q)
      BY <1>1, <1>3, <3>1, <3>3
    <3> QED
      BY <1>3, <3>1, <3>3, <3>4, <3>5 DEF Pending
  <2> QED
    BY <2>1, <2>2
<1>6. CASE Configure(o) \/ Approve(PrOf[o], HeadOf[o])
  BY <1>3, <1>6 DEF Configure, Approve, Pending
<1>7. ASSUME NEW n \in Attempt, Reserve(o, n)
      PROVE  /\ Pending(q)' # {} => leases'[PrOf[q]] = q
             /\ leases'[PrOf[q]] = q => claims'[Ticket(q)] = Running(q)
             /\ (\E m \in Attempt : attempts'[q][m] # "none") => claims'[Ticket(q)] = Running(q)
  <2>1. UNCHANGED <<leases, claims>>
    BY <1>7 DEF Reserve
  <2>2. CASE ~ReserveAccepted(o, n) \/ q # o
    <3>1. attempts'[q] = attempts[q]
      BY <1>7, <2>2 DEF Reserve
    <3> QED
      BY <1>3, <2>1, <3>1 DEF Pending
  <2>3. CASE ReserveAccepted(o, n) /\ q = o
    BY <1>3, <2>1, <2>3 DEF ReserveAccepted, Owns
  <2> QED
    BY <2>2, <2>3
<1>8. ASSUME NEW n \in Attempt, NEW kind \in {"unknown", "settled"}, Settle(o, n, kind)
      PROVE  /\ Pending(q)' # {} => leases'[PrOf[q]] = q
             /\ leases'[PrOf[q]] = q => claims'[Ticket(q)] = Running(q)
             /\ (\E m \in Attempt : attempts'[q][m] # "none") => claims'[Ticket(q)] = Running(q)
  <2>1. UNCHANGED <<leases, claims>>
    BY <1>8 DEF Settle
  <2>2. \A m \in Attempt : attempts'[q][m] # "none" => attempts[q][m] # "none"
    BY <1>8 DEF Settle, SettleAccepted, Pending
  <2>3. \A m \in Attempt :
          attempts'[q][m] \in {"reserved", "unknown"} => attempts[q][m] \in {"reserved", "unknown"}
    BY <1>8 DEF Settle, SettleAccepted, Pending
  <2> QED
    BY <1>3, <2>1, <2>2, <2>3 DEF Pending
<1>9. ASSUME NEW report \in Report, Finish(o, report)
      PROVE  /\ Pending(q)' # {} => leases'[PrOf[q]] = q
             /\ leases'[PrOf[q]] = q => claims'[Ticket(q)] = Running(q)
             /\ (\E m \in Attempt : attempts'[q][m] # "none") => claims'[Ticket(q)] = Running(q)
  <2>1. attempts' = attempts
    BY <1>9 DEF Finish, Unlocked, Withdrawn, Owns
  <2>2. claims[Ticket(q)] = Running(q) => claims'[Ticket(q)] = Running(q)
    BY <1>1, <1>2, <1>9 DEF Finish, Unlocked, Withdrawn, Owns
  <2>3. leases'[PrOf[q]] = q => leases[PrOf[q]] = q
    BY <1>1, <1>9 DEF Finish, Unlocked, Withdrawn, Owns
  <2>4. Pending(q) # {} /\ leases[PrOf[q]] = q => leases'[PrOf[q]] = q
    BY <1>1, <1>9 DEF Finish, Unlocked, Withdrawn, Owns
  <2> QED
    BY <1>3, <2>1, <2>2, <2>3, <2>4 DEF Pending
<1> QED
  BY <1>4, <1>5, <1>6, <1>7, <1>8, <1>9 DEF StoreStep

(* The strengthened ledger invariant holds in every reachable state.       *)
THEOREM LedgerInvariant == StoreSpec => []LedgerInv
<1>1. StoreInit => LedgerInv
  <2>1. ASSUME StoreInit PROVE StoreTypeOK
    BY <2>1, OwnerAssumption DEF StoreInit, StoreTypeOK, Claim, NoClaim, Phase, Run, Kind
  <2>2. ASSUME StoreInit PROVE PendingHoldsLease /\ LeaseNeedsClaim /\ PaidByClaimant
    BY <2>2, OwnerAssumption
    DEF StoreInit, PendingHoldsLease, LeaseNeedsClaim, PaidByClaimant, Pending
  <2> QED
    BY <2>1, <2>2 DEF LedgerInv
<1>2. LedgerInv /\ StoreTypeOK' /\ [StoreNext]_storeVars => LedgerInv'
  <2> SUFFICES ASSUME LedgerInv, StoreTypeOK', [StoreNext]_storeVars
               PROVE  LedgerInv'
    OBVIOUS
  <2>1. CASE UNCHANGED storeVars
    BY <2>1 DEF LedgerInv, StoreTypeOK, PendingHoldsLease, LeaseNeedsClaim, PaidByClaimant,
                Pending, storeVars
  <2>2. ASSUME NEW o \in Owner, StoreStep(o)
        PROVE  LedgerInv'
    BY <2>2, LedgerStep DEF LedgerInv, PendingHoldsLease, LeaseNeedsClaim, PaidByClaimant,
                            Ticket, Running
  <2> QED
    BY <2>1, <2>2 DEF StoreNext
<1> QED
  BY <1>1, <1>2, StoreTyping, PTL DEF StoreSpec

(* An attempt whose price is open keeps the lease of its owner.            *)
THEOREM PendingKeepsLease == StoreSpec => []PendingHoldsLease
<1>1. LedgerInv => PendingHoldsLease
  BY DEF LedgerInv
<1> QED
  BY <1>1, LedgerInvariant, PTL

(* Only the owner that claimed a ticket has attempts under it.             *)
THEOREM ClaimantPays == StoreSpec => []PaidByClaimant
<1>1. LedgerInv => PaidByClaimant
  BY DEF LedgerInv
<1> QED
  BY <1>1, LedgerInvariant, PTL

(* At most one paid review of a pull request is ever in progress.          *)
THEOREM ExclusivePaidReview == StoreSpec => []OnePaidReview
<1>1. LedgerInv => OnePaidReview
  BY DEF LedgerInv, PendingHoldsLease, OnePaidReview
<1> QED
  BY <1>1, LedgerInvariant, PTL

-----------------------------------------------------------------------------
(* A running claim stays where it is and the ledger never runs backwards.  *)
THEOREM LedgerMonotone == StoreSpec => LedgerAdvances
<1>1. StoreTypeOK /\ [StoreNext]_storeVars => [LedgerOnlyAdvances]_storeVars
  <2> SUFFICES ASSUME StoreTypeOK, NEW o \in Owner, StoreStep(o)
               PROVE  LedgerOnlyAdvances
    BY DEF StoreNext
  <2> USE OwnerAssumption DEF StoreTypeOK
  <2>1. /\ Ticket(o) \in PR \X Request
        /\ Waiting(o).phase # "running"
        /\ NoClaim.phase # "running"
    BY DEF Ticket, Waiting, NoClaim
  <2>2. \A t \in PR \X Request : claims[t].phase = "running" => claims'[t] = claims[t]
    <3>1. CASE Queue(o)
      BY <2>1, <3>1 DEF Queue, QueueFirst
    <3>2. CASE ClaimLease(o)
      BY <2>1, <3>2 DEF ClaimLease, ClaimAccepted
    <3>3. ASSUME NEW report \in Report, Finish(o, report)
          PROVE  \A t \in PR \X Request : claims[t].phase = "running" => claims'[t] = claims[t]
      BY <2>1, <3>3 DEF Finish, Unlocked, Withdrawn, Owns
    <3>4. CASE claims' = claims
      BY <3>4
    <3> QED
      BY <3>1, <3>2, <3>3, <3>4 DEF StoreStep, Configure, Reserve, Settle, Approve
  <2>3. ASSUME NEW q \in Owner, NEW m \in Attempt
        PROVE  /\ attempts[q][m] = "settled" => attempts'[q][m] = "settled"
               /\ attempts[q][m] = "unknown" => attempts'[q][m] # "reserved"
               /\ attempts[q][m] # "none" => attempts'[q][m] # "none"
    <3>1. ASSUME NEW n \in Attempt, Reserve(o, n)
          PROVE  attempts[q][m] # "none" => attempts'[q][m] = attempts[q][m]
      BY <3>1 DEF Reserve, ReserveAccepted
    <3>2. ASSUME NEW n \in Attempt, NEW kind \in {"unknown", "settled"}, Settle(o, n, kind)
          PROVE  \/ attempts'[q][m] = attempts[q][m]
                 \/ attempts[q][m] \in {"reserved", "unknown"} /\ attempts'[q][m] = kind
      BY <3>2 DEF Settle, SettleAccepted, Pending
    <3>3. CASE attempts' = attempts
      BY <3>3
    <3> QED
      BY <3>1, <3>2, <3>3 DEF StoreStep, Queue, ClaimLease, Configure, Finish, Unlocked, Withdrawn, Owns, Approve
  <2> QED
    BY <2>2, <2>3 DEF LedgerOnlyAdvances
<1> QED
  BY <1>1, StoreTyping, PTL DEF StoreSpec, LedgerAdvances

-----------------------------------------------------------------------------
(***************************************************************************)
(* The ledger implements PaidLease: only _CLAIM lends a pull request, only *)
(* _RESERVE opens a call, only _SETTLE prices one, and _FINISH ends a loan *)
(* only when nothing is unpriced; every other query leaves the abstract    *)
(* state alone.                                                            *)
(***************************************************************************)
Granted == {t \in PR \X Request : claims[t].phase = "running"}
Open    == {c \in Owner \X Attempt : attempts[c[1]][c[2]] \in {"reserved", "unknown"}}
Closed  == {c \in Owner \X Attempt : attempts[c[1]][c[2]] = "settled"}

LEMMA AbstractStep ==
  ASSUME StoreTypeOK, NEW o \in Owner, StoreStep(o)
  PROVE  \/ UNCHANGED <<leases, Granted, Open, Closed>>
         \/ /\ leases[PrOf[o]] = None /\ Ticket(o) \notin Granted
            /\ leases' = [leases EXCEPT ![PrOf[o]] = o]
            /\ Granted' = Granted \cup {Ticket(o)}
            /\ UNCHANGED <<Open, Closed>>
         \/ /\ leases[PrOf[o]] = o
            /\ \A n \in Attempt : <<o, n>> \notin Open
            /\ leases' = [leases EXCEPT ![PrOf[o]] = None]
            /\ UNCHANGED <<Granted, Open, Closed>>
         \/ \E n \in Attempt :
              /\ leases[PrOf[o]] = o
              /\ <<o, n>> \notin Open \cup Closed
              /\ Open' = Open \cup {<<o, n>>}
              /\ UNCHANGED <<leases, Granted, Closed>>
         \/ \E n \in Attempt :
              /\ <<o, n>> \in Open
              /\ Open' = Open \ {<<o, n>>}
              /\ Closed' = Closed \cup {<<o, n>>}
              /\ UNCHANGED <<leases, Granted>>
<1> USE OwnerAssumption DEF StoreTypeOK
<1>1. /\ PrOf[o] \in PR /\ Ticket(o) \in PR \X Request
      /\ Waiting(o).phase = "waiting"
      /\ Running(o).phase = "running"
      /\ NoClaim.phase = "absent"
  BY DEF Ticket, Waiting, Running, NoClaim
<1>2. CASE Queue(o)
  <2>1. UNCHANGED <<leases, attempts>>
    BY <1>2 DEF Queue
  <2>2. \A t \in PR \X Request : claims'[t].phase = "running" <=> claims[t].phase = "running"
    BY <1>1, <1>2 DEF Queue, QueueFirst
  <2>3. Granted' = Granted
    BY <2>2 DEF Granted
  <2> QED
    BY <2>1, <2>3 DEF Open, Closed
<1>3. CASE ClaimLease(o)
  <2>1. CASE ~ClaimAccepted(o)
    BY <1>3, <2>1 DEF ClaimLease, Granted, Open, Closed
  <2>2. CASE ClaimAccepted(o)
    <3>1. /\ UNCHANGED attempts
          /\ leases' = [leases EXCEPT ![PrOf[o]] = o]
          /\ claims' = [claims EXCEPT ![Ticket(o)] = Running(o)]
          /\ leases[PrOf[o]] = None
          /\ claims[Ticket(o)].phase = "waiting"
      BY <1>1, <1>3, <2>2 DEF ClaimLease, ClaimAccepted
    <3>2. Granted' = Granted \cup {Ticket(o)}
      BY <1>1, <3>1 DEF Granted
    <3>3. Ticket(o) \notin Granted
      BY <3>1 DEF Granted
    <3> QED
      BY <3>1, <3>2, <3>3 DEF Open, Closed
  <2> QED
    BY <2>1, <2>2
<1>4. CASE Configure(o) \/ Approve(PrOf[o], HeadOf[o])
  BY <1>4 DEF Configure, Approve, Granted, Open, Closed
<1>5. ASSUME NEW n \in Attempt, Reserve(o, n)
      PROVE  \/ UNCHANGED <<leases, Granted, Open, Closed>>
             \/ /\ leases[PrOf[o]] = o
                /\ <<o, n>> \notin Open \cup Closed
                /\ Open' = Open \cup {<<o, n>>}
                /\ UNCHANGED <<leases, Granted, Closed>>
  <2>1. UNCHANGED <<leases, claims>>
    BY <1>5 DEF Reserve
  <2>2. CASE ~ReserveAccepted(o, n)
    <3>1. attempts' = attempts
      BY <1>5, <2>2 DEF Reserve
    <3> QED
      BY <2>1, <3>1 DEF Granted, Open, Closed
  <2>3. CASE ReserveAccepted(o, n)
    <3>1. /\ leases[PrOf[o]] = o /\ attempts[o][n] = "none"
          /\ attempts' = [attempts EXCEPT ![o][n] = "reserved"]
      BY <1>5, <2>3 DEF Reserve, ReserveAccepted, Owns
    <3>2. ASSUME NEW q \in Owner, NEW m \in Attempt
          PROVE  attempts'[q][m] = IF q = o /\ m = n THEN "reserved" ELSE attempts[q][m]
      BY <3>1
    <3>3. /\ Open' = Open \cup {<<o, n>>}
          /\ Closed' = Closed
          /\ <<o, n>> \notin Open \cup Closed
      BY <3>1, <3>2 DEF Open, Closed
    <3> QED
      BY <2>1, <3>1, <3>3 DEF Granted
  <2> QED
    BY <2>2, <2>3
<1>6. ASSUME NEW n \in Attempt, NEW kind \in {"unknown", "settled"}, Settle(o, n, kind)
      PROVE  \/ UNCHANGED <<leases, Granted, Open, Closed>>
             \/ /\ <<o, n>> \in Open
                /\ Open' = Open \ {<<o, n>>}
                /\ Closed' = Closed \cup {<<o, n>>}
                /\ UNCHANGED <<leases, Granted>>
  <2>1. UNCHANGED <<leases, claims>>
    BY <1>6 DEF Settle
  <2>2. ASSUME NEW q \in Owner, NEW m \in Attempt
        PROVE  attempts'[q][m] =
                 IF q = o /\ m = n /\ attempts[o][n] \in {"reserved", "unknown"}
                 THEN kind ELSE attempts[q][m]
    BY <1>6 DEF Settle, SettleAccepted, Pending
  <2>3. CASE attempts[o][n] \in {"reserved", "unknown"} /\ kind = "settled"
    <3>1. /\ <<o, n>> \in Open
          /\ Open' = Open \ {<<o, n>>}
          /\ Closed' = Closed \cup {<<o, n>>}
      BY <2>2, <2>3 DEF Open, Closed
    <3> QED
      BY <2>1, <3>1 DEF Granted
  <2>4. CASE ~(attempts[o][n] \in {"reserved", "unknown"} /\ kind = "settled")
    <3>1. Open' = Open /\ Closed' = Closed
      BY <2>2, <2>4 DEF Open, Closed
    <3> QED
      BY <2>1, <3>1 DEF Granted
  <2> QED
    BY <2>3, <2>4
<1>7. ASSUME NEW report \in Report, Finish(o, report)
      PROVE  \/ UNCHANGED <<leases, Granted, Open, Closed>>
             \/ /\ leases[PrOf[o]] = o
                /\ \A n \in Attempt : <<o, n>> \notin Open
                /\ leases' = [leases EXCEPT ![PrOf[o]] = None]
                /\ UNCHANGED <<Granted, Open, Closed>>
  <2>1. attempts' = attempts
    BY <1>7 DEF Finish, Unlocked, Withdrawn, Owns
  <2>2. \A t \in PR \X Request : claims'[t].phase = "running" <=> claims[t].phase = "running"
    BY <1>1, <1>7 DEF Finish, Unlocked, Withdrawn, Owns
  <2>3. Granted' = Granted
    BY <2>2 DEF Granted
  <2>4. Open' = Open /\ Closed' = Closed
    BY <2>1 DEF Open, Closed
  <2>5. CASE leases[PrOf[o]] = o /\ Pending(o) = {}
    <3>1. \A n \in Attempt : <<o, n>> \notin Open
      BY <2>5 DEF Pending, Open
    <3>2. leases' = [leases EXCEPT ![PrOf[o]] = None]
      BY <1>7, <2>5 DEF Finish, Unlocked, Withdrawn, Owns
    <3> QED
      BY <2>3, <2>4, <2>5, <3>1, <3>2
  <2>6. CASE ~(leases[PrOf[o]] = o /\ Pending(o) = {})
    <3>1. leases' = leases
      BY <1>7, <2>6 DEF Finish, Unlocked, Withdrawn, Owns
    <3> QED
      BY <2>3, <2>4, <3>1
  <2> QED
    BY <2>5, <2>6
<1> QED
  BY <1>2, <1>3, <1>4, <1>5, <1>6, <1>7 DEF StoreStep

(* Every behaviour of the ledger is one of the abstract lease.             *)
THEOREM LedgerImplementsLease == StoreSpec => PaidLeaseSpec
<1>1. StoreInit => PL!Init
  BY DEF StoreInit, NoClaim, PL!Init
<1>2. StoreTypeOK /\ [StoreNext]_storeVars => [PL!Next]_(PL!vars)
  <2> SUFFICES ASSUME StoreTypeOK, [StoreNext]_storeVars
               PROVE  [PL!Next]_(PL!vars)
    OBVIOUS
  <2>1. CASE UNCHANGED storeVars
    BY <2>1 DEF storeVars, PL!vars
  <2>2. ASSUME NEW o \in Owner, StoreStep(o)
        PROVE  [PL!Next]_(PL!vars)
    BY <2>2, AbstractStep DEF Granted, Open, Closed, Ticket, PL!Next, PL!vars, PL!Acquire,
                              PL!Begin, PL!Resolve, PL!Release, PL!Ticket
  <2> QED
    BY <2>1, <2>2 DEF StoreNext
<1> QED
  BY <1>1, <1>2, StoreTyping, PTL DEF StoreSpec, PaidLeaseSpec, PL!Spec

=============================================================================
