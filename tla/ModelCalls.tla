------------------------------ MODULE ModelCalls ------------------------------
(***************************************************************************)
(* The paid calls of the translation jobs: the bounded client of           *)
(* models/clients.py under RecordedModels of runtime.py, the loops of its  *)
(* callers around it, the attempts table and the daily budget of           *)
(* persistence/ydb.py.                                                     *)
(*                                                                         *)
(* Jobs of one day run at the same time; a conversation of a job is all    *)
(* the calls made for one question: its client may send a body twice, and  *)
(* its caller may ask a second time.  A body is full, or lowered: its      *)
(* max_tokens reduced to what the provider says is left of its context.    *)
(***************************************************************************)
EXTENDS Integers

CONSTANTS
  Runner,       \* jobs
  ModeOf,       \* [Runner -> {"translate", "verify", "continue"}]
  DailyLimit,   \* --budget-rub
  Price,        \* what a call may cost
  MaxTalks,     \* conversations of one job
  MaxCalls      \* bound on the calls of one job, more than it ever makes

ASSUME CallAssumption ==
  /\ ModeOf \in [Runner -> {"translate", "verify", "continue"}]
  /\ DailyLimit \in Nat /\ Price \subseteq Nat \ {0} /\ MaxTalks \in Nat /\ MaxCalls > 4 * MaxTalks

(* Who asks: the classifiers of direction; the translator of a whole page, *)
(* of a bilingual update or of the labels of a TOC; the translator of one  *)
(* hunk; the arbiter.                                                      *)
Role == {"direction", "page", "hunk", "arbiter"}
Translator == {"page", "hunk"}
RolesOf(j) == IF ModeOf[j] = "verify" THEN Role \ Translator ELSE Role
NoPrice == 0     \* of a call: NULL in the database
NoCost  == -1    \* of a job: RecordedModels.cost is None

(* How a call ends; one that breaks has no answer, and no usage.           *)
Ending == {"final", "filtered", "too long", "bad", "broken"}

VARIABLES
  known,     \* known cost of the attempts of this Moscow day
  work,      \* [Runner -> Work]: where the job is
  talks,     \* [Runner -> Nat]: conversations begun
  role,      \* [Runner -> Role] of the conversation
  lowered,   \* [Runner -> BOOLEAN]: is the next body a lowered one?
  attempt,   \* [Runner -> 1..2]: attempt_number of the invocation
  round,     \* [Runner -> 1..2]: attempt of the caller, an invocation each
  cap,       \* [Runner -> BOOLEAN]: is the question in context_output_caps?
  answer,    \* [Runner -> Answer]: of the last call
  cost,      \* [Runner -> Nat or NoCost]: RecordedModels.cost
  rows,      \* [Runner -> Nat]: attempts of the job in the database
  sent,      \* [Runner -> Nat]: calls the provider has seen
  asked,     \* [Runner -> Nat]: those of this conversation
  bill       \* [Runner -> Nat]: what the provider charges for them

talkVars == <<talks, role>>
nextVars == <<lowered, attempt, round, cap>>
seenVars == <<sent, asked, bill>>
callVars == <<known, work, talkVars, nextVars, answer, cost, rows, seenVars>>

Talking == {"send", "record"}
Work    == {"idle", "ready", "ended", "refused", "aborted"} \cup Talking
Answer  == [ending : Ending, price : Price \cup {NoPrice}]
NoAnswer == [ending |-> "bad", price |-> NoPrice]

CallTypeOK ==
  /\ known \in Nat /\ work \in [Runner -> Work]
  /\ talks \in [Runner -> 0..MaxTalks] /\ role \in [Runner -> Role]
  /\ lowered \in [Runner -> BOOLEAN] /\ attempt \in [Runner -> 1..2]
  /\ round \in [Runner -> 1..2] /\ cap \in [Runner -> BOOLEAN]
  /\ answer \in [Runner -> Answer] /\ cost \in [Runner -> Nat \cup {NoCost}]
  /\ rows \in [Runner -> Nat] /\ sent \in [Runner -> Nat] /\ asked \in [Runner -> Nat]
  /\ bill \in [Runner -> Nat]

CallInit ==
  /\ known = 0
  /\ work = [j \in Runner |-> "idle"] /\ talks = [j \in Runner |-> 0]
  /\ role = [j \in Runner |-> "arbiter"] /\ lowered = [j \in Runner |-> FALSE]
  /\ attempt = [j \in Runner |-> 1] /\ round = [j \in Runner |-> 1]
  /\ cap = [j \in Runner |-> FALSE] /\ answer = [j \in Runner |-> NoAnswer]
  /\ cost = [j \in Runner |-> 0] /\ rows = [j \in Runner |-> 0]
  /\ sent = [j \in Runner |-> 0] /\ asked = [j \in Runner |-> 0] /\ bill = [j \in Runner |-> 0]

-----------------------------------------------------------------------------
Move(j, from, to) == work[j] = from /\ work' = [work EXCEPT ![j] = to]

(* check_daily_budget: only a translation asks, and only for known costs.  *)
AdmitJob(j) ==
  /\ \/ ModeOf[j] # "translate" /\ Move(j, "idle", "ready")
     \/ ModeOf[j] = "translate" /\ known < DailyLimit /\ Move(j, "idle", "ready")
     \/ ModeOf[j] = "translate" /\ known >= DailyLimit /\ Move(j, "idle", "refused")
  /\ UNCHANGED <<known, talkVars, nextVars, answer, cost, rows, seenVars>>

(* A question.  (A translation by gpt-oss is refused without a call.)      *)
Ask(j, r) ==
  /\ talks[j] < MaxTalks /\ Move(j, "ready", "send")
  /\ talks' = [talks EXCEPT ![j] = @ + 1] /\ role' = [role EXCEPT ![j] = r]
  /\ UNCHANGED <<known, nextVars, answer, cost, rows, seenVars>>

(* What the provider charges is known when the answer has a price or usage.*)
Priced(e, charge) ==
  IF e = "broken" THEN {NoPrice} ELSE {NoPrice, charge}

Send(j) ==
  /\ sent[j] < MaxCalls /\ Move(j, "send", "record")
  /\ \E e \in Ending, charge \in Price : \E p \in Priced(e, charge) :
       /\ answer' = [answer EXCEPT ![j] = [ending |-> e, price |-> p]]
       /\ bill' = [bill EXCEPT ![j] = @ + charge]
  /\ sent' = [sent EXCEPT ![j] = @ + 1] /\ asked' = [asked EXCEPT ![j] = @ + 1]
  /\ UNCHANGED <<known, talkVars, nextVars, cost, rows>>

(* RecordedModels.record: the row first, then the cost of the job.         *)
Stored(j) ==
  /\ rows' = [rows EXCEPT ![j] = @ + 1]
  /\ known' = known + answer[j].price

TotalOfKnown(j) ==                                 \* faulty: a missing price is free
  IF cost[j] = NoCost THEN NoCost ELSE cost[j] + answer[j].price
Total(j) ==
  IF cost[j] = NoCost \/ answer[j].price = NoPrice THEN NoCost ELSE cost[j] + answer[j].price

(* The write fails, or is made and unanswered: the exception ends the job. *)
Forget(j) ==
  /\ lowered' = [lowered EXCEPT ![j] = FALSE] /\ attempt' = [attempt EXCEPT ![j] = 1]
  /\ round' = [round EXCEPT ![j] = 1] /\ cap' = [cap EXCEPT ![j] = FALSE]
  /\ answer' = [answer EXCEPT ![j] = NoAnswer] /\ asked' = [asked EXCEPT ![j] = 0]
  /\ role' = [role EXCEPT ![j] = "arbiter"]

RecordFails(j) ==
  /\ Move(j, "record", "aborted") /\ Forget(j)
  /\ Stored(j) \/ UNCHANGED <<rows, known>>
  /\ UNCHANGED <<talks, cost, sent, bill>>

RecordedAnswered(j) ==                             \* faulty: a broken call has no row
  /\ work[j] = "record" /\ cost' = [cost EXCEPT ![j] = Total(j)]
  /\ IF answer[j].ending = "broken" THEN UNCHANGED <<rows, known>> ELSE Stored(j)
  /\ UNCHANGED <<talks, sent, bill>>
Recorded(j) ==
  /\ work[j] = "record" /\ Stored(j) /\ cost' = [cost EXCEPT ![j] = Total(j)]
  /\ UNCHANGED <<talks, sent, bill>>

MaxAttemptsTwo(j) == 2                             \* faulty: its caller asks twice too
MaxAttempts(j) == IF role[j] = "direction" THEN 1 ELSE 2

(* The client asks again: with a body that fits, or after a content filter.*)
TooLong(j) == answer[j].ending = "too long"
AskAgainForever(j) == TooLong(j) \/ answer[j].ending = "filtered"      \* faulty: not counted
AskAgain(j) ==
  /\ attempt[j] < MaxAttempts(j)
  /\ TooLong(j) \/ answer[j].ending = "filtered"

LearnedAtRetry(j) == FALSE                         \* faulty: not at the last attempt
Learned(j) == cap[j] \/ (role[j] = "direction" /\ TooLong(j))

RetryLowered(j) ==
  /\ Recorded(j) /\ AskAgain(j) /\ Move(j, "record", "send")
  /\ attempt' = [attempt EXCEPT ![j] = @ + 1]
  /\ lowered' = [lowered EXCEPT ![j] = @ \/ TooLong(j)]
  /\ UNCHANGED <<role, round, cap, answer, asked>>

(* The question is closed: with a text its caller can use, or given up.    *)
(* (A bilingual update gives up early if its second prompt is too large.)  *)
Return(j) ==
  /\ Recorded(j) /\ ~AskAgain(j) /\ role[j] # "direction"
  /\ Move(j, "record", "ready") /\ Forget(j)

(* A translator asks once more, with a longer prompt: every one of them    *)
(* for a text that cannot be used, all but that of a hunk for a failure.   *)
MayAskAlways(j) == role[j] # "direction"           \* faulty: the arbiter too
MayAskAnew(j) == role[j] = "page" \/ (role[j] = "hunk" /\ answer[j].ending = "final")
TranslateAgain(j) ==
  /\ Recorded(j) /\ ~AskAgain(j) /\ MayAskAnew(j) /\ round[j] = 1
  /\ Move(j, "record", "send")
  /\ round' = [round EXCEPT ![j] = 2] /\ attempt' = [attempt EXCEPT ![j] = 1]
  /\ lowered' = [lowered EXCEPT ![j] = FALSE]
  /\ UNCHANGED <<role, cap, answer, asked>>

(* The classifiers: a failure, or a text that cannot be parsed, is asked   *)
(* for a second time; then the job fails, or the pair is in conflict.      *)
Classified(j) ==
  /\ Recorded(j) /\ role[j] = "direction" /\ answer[j].ending = "final"
  /\ Move(j, "record", "ready") /\ Forget(j)

ClassifyAgain(j) ==
  /\ Recorded(j) /\ ~AskAgain(j) /\ role[j] = "direction" /\ round[j] = 1
  /\ Move(j, "record", "send")
  /\ round' = [round EXCEPT ![j] = 2] /\ cap' = [cap EXCEPT ![j] = Learned(j)]
  /\ lowered' = [lowered EXCEPT ![j] = Learned(j)]
  /\ UNCHANGED <<role, attempt, answer, asked>>

ClassifierFailed(j) ==
  /\ Recorded(j) /\ ~AskAgain(j) /\ role[j] = "direction" /\ round[j] = 2
  /\ \E to \in {"ready", "aborted"} : Move(j, "record", to)
  /\ Forget(j)

EndJob(j) ==
  /\ Move(j, "ready", "ended")
  /\ UNCHANGED <<known, talkVars, nextVars, answer, cost, rows, seenVars>>

RunnerLost(j) ==
  /\ work[j] \in Talking /\ work' = [work EXCEPT ![j] = "aborted"] /\ Forget(j)
  /\ UNCHANGED <<known, talks, cost, rows, sent, bill>>

CallStep(j) ==
  \/ Send(j) \/ RetryLowered(j) \/ Return(j) \/ TranslateAgain(j)
  \/ Classified(j) \/ ClassifyAgain(j) \/ ClassifierFailed(j)

CallNext ==
  \E j \in Runner :
    CallStep(j) \/ RecordFails(j) \/ AdmitJob(j) \/ EndJob(j) \/ RunnerLost(j) \/ \E r \in RolesOf(j) : Ask(j, r)

CallSpec == CallInit /\ [][CallNext]_callVars

(* The transport has a timeout, so a call that was made ends.              *)
FairCallSpec == CallSpec /\ \A j \in Runner : WF_callVars(CallStep(j))

-----------------------------------------------------------------------------
(* The cost a job reports, if it is a number, is what the provider charges *)
(* for every call made, broken ones included: a price that is missing once *)
(* makes it unknown for good.  (docs/deployment.md: "unknown if any        *)
(* attempt cost is unknown".)                                              *)
CostIsTheBill ==
  \A j \in Runner : cost[j] # NoCost /\ work[j] \notin {"record", "aborted"} => cost[j] = bill[j]

(* Every call is on the table before the next is made, whatever it came    *)
(* to; a job that dies leaves out at most the one in hand.                 *)
CallsAreRecorded ==
  \A j \in Runner :
    sent[j] - rows[j] \in (IF work[j] \in {"record", "aborted"} THEN {0, 1} ELSE {0})

(* A question costs two calls at most, and four when it is a translation:  *)
(* only there a caller asks again on top of a client that does.            *)
FewCallsPerQuestion ==
  \A j \in Runner : asked[j] <= (IF role[j] \in Translator THEN 4 ELSE 2)

(* A body the provider has refused as too long is not sent again as it     *)
(* was: not by the client, and not by the classifier that repeats the      *)
(* question.  (A translator that asks anew sends another body, full        *)
(* again.)                                                                 *)
SameBody(j) == attempt[j] = 2 \/ (role[j] = "direction" /\ round[j] = 2)
RefusedBodyShrinks ==
  [][\A j \in Runner :
       sent'[j] # sent[j] /\ SameBody(j) /\ answer[j].ending = "too long" => lowered[j]]_callVars

(* The promise of the wrapper around the clients (MeteredModels and the    *)
(* two clients it meters): bills are recorded, added up and bounded.       *)
BillIsKept ==
  [](CostIsTheBill /\ CallsAreRecorded /\ FewCallsPerQuestion) /\ RefusedBodyShrinks

=============================================================================
