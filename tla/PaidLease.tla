------------------------------ MODULE PaidLease ------------------------------
(***************************************************************************)
(* What the review ledger promises, without its tables: a pull request is  *)
(* lent to at most one run attempt (an owner) at a time, an owner opens    *)
(* paid calls only while it holds the pull request, a request is granted   *)
(* once and never again, and a loan ends only when every call made under   *)
(* it has a known price.                                                   *)
(***************************************************************************)
CONSTANTS
  PR,         \* pull requests
  Request,    \* request identities, "manual:<event>" or "auto:<head>"
  Owner,      \* run attempts, "github-run:<run>:<attempt>"
  Attempt,    \* numbers of the paid calls of one owner
  PrOf,       \* [Owner -> PR]: the pull request of the owner's event
  RequestOf,  \* [Owner -> Request]: the request identity of that event
  None        \* no owner

VARIABLES
  holder,     \* [PR -> Owner \cup {None}]: who the pull request is lent to
  granted,    \* requests, with their pull request, that were ever granted
  open,       \* calls <<owner, attempt>> begun and not known to be paid
  closed      \* calls <<owner, attempt>> whose price is known

vars == <<holder, granted, open, closed>>

Ticket(o) == <<PrOf[o], RequestOf[o]>>

Init ==
  /\ holder = [p \in PR |-> None]
  /\ granted = {}
  /\ open = {}
  /\ closed = {}

(* The request of o is granted, and with it the free pull request.         *)
Acquire(o) ==
  /\ holder[PrOf[o]] = None
  /\ Ticket(o) \notin granted
  /\ holder' = [holder EXCEPT ![PrOf[o]] = o]
  /\ granted' = granted \cup {Ticket(o)}
  /\ UNCHANGED <<open, closed>>

(* A new paid call, numbered n, under the loan of o.                       *)
Begin(o, n) ==
  /\ holder[PrOf[o]] = o
  /\ <<o, n>> \notin open \cup closed
  /\ open' = open \cup {<<o, n>>}
  /\ UNCHANGED <<holder, granted, closed>>

(* The price of call n of o has become known.                              *)
Resolve(o, n) ==
  /\ <<o, n>> \in open
  /\ open' = open \ {<<o, n>>}
  /\ closed' = closed \cup {<<o, n>>}
  /\ UNCHANGED <<holder, granted>>

(* The loan ends: nothing o began is still unpriced.                       *)
Release(o) ==
  /\ holder[PrOf[o]] = o
  /\ \A n \in Attempt : <<o, n>> \notin open
  /\ holder' = [holder EXCEPT ![PrOf[o]] = None]
  /\ UNCHANGED <<granted, open, closed>>

Next ==
  \E o \in Owner :
    \/ Acquire(o)
    \/ Release(o)
    \/ \E n \in Attempt : Begin(o, n) \/ Resolve(o, n)

Spec == Init /\ [][Next]_vars

=============================================================================
