--------------------------- MODULE ConversationProofs ---------------------------
(***************************************************************************)
(* What ModelCalls promises holds for any number of jobs, any prices and   *)
(* any number of conversations.  The three accounts of a job (its cost,    *)
(* its rows, the provider's bill) differ only while a call is in hand, and *)
(* the calls of a question are those of the invocation in hand and of the  *)
(* one its caller has made before.                                         *)
(*                                                                         *)
(* What CriticToolLoop promises holds for drafts, patches and sessions of  *)
(* any length.  Whoever has not read since a patch has a range left to     *)
(* read, and with a range left to read nobody gets out but by failing.     *)
(***************************************************************************)
EXTENDS ModelCalls, CriticToolLoop, Sequences, TLAPS

(* Cost and bill: a call in hand is billed and not yet added up.           *)
CostInv(j) ==
  /\ work[j] \notin {"record", "aborted"} /\ cost[j] # NoCost => cost[j] = bill[j]
  /\ work[j] = "record" /\ cost[j] # NoCost /\ answer[j].price # NoPrice =>
       bill[j] = cost[j] + answer[j].price

(* Rows: the call in hand has none; a lost job may leave one out.          *)
RowInv(j) ==
  /\ work[j] \notin {"record", "aborted"} => sent[j] = rows[j]
  /\ work[j] = "record" => sent[j] = rows[j] + 1
  /\ work[j] = "aborted" => sent[j] \in {rows[j], rows[j] + 1}

(* Calls of the question: those of the invocation in hand, and in a second *)
(* round those of the first.                                               *)
InHand(j) == IF work[j] = "send" THEN attempt[j] - 1 ELSE attempt[j]
AskedInv(j) ==
  /\ work[j] \notin Talking => asked[j] = 0 /\ attempt[j] = 1 /\ round[j] = 1
  /\ work[j] \in Talking /\ round[j] = 1 => asked[j] = InHand(j)
  /\ work[j] \in Talking /\ round[j] = 2 =>
       asked[j] - InHand(j) \in (IF role[j] = "direction" THEN {1} ELSE {1, 2})
  /\ role[j] = "direction" => attempt[j] = 1
  /\ role[j] = "arbiter" => round[j] = 1

(* The same body after a refusal for its length is a lowered one.          *)
BodyInv(j) ==
  work[j] = "send" /\ SameBody(j) /\ answer[j].ending = "too long" => lowered[j]

CallInv ==
  /\ CallTypeOK
  /\ \A j \in Runner : CostInv(j) /\ RowInv(j) /\ AskedInv(j) /\ BodyInv(j)

-----------------------------------------------------------------------------
LEMMA CallInitInv == CallInit => CallInv
<1> SUFFICES ASSUME CallInit PROVE CallInv
  OBVIOUS
<1>1. CallTypeOK
  BY CallAssumption DEF CallInit, CallTypeOK, Work, Talking, Role, Answer, NoAnswer, Ending, NoPrice
<1>2. ASSUME NEW j \in Runner PROVE CostInv(j) /\ RowInv(j) /\ AskedInv(j) /\ BodyInv(j)
  BY DEF CallInit, CostInv, RowInv, AskedInv, InHand, BodyInv, SameBody, Talking, NoCost
<1> QED
  BY <1>1, <1>2 DEF CallInv

-----------------------------------------------------------------------------
(* Each action of a job changes the row of that job and nothing of the     *)
(* others, and keeps the types.                                            *)
Others(j) ==
  \A k \in Runner \ {j} :
    /\ work'[k] = work[k] /\ role'[k] = role[k] /\ lowered'[k] = lowered[k]
    /\ attempt'[k] = attempt[k] /\ round'[k] = round[k] /\ answer'[k] = answer[k]
    /\ cost'[k] = cost[k] /\ rows'[k] = rows[k] /\ sent'[k] = sent[k]
    /\ asked'[k] = asked[k] /\ bill'[k] = bill[k]

OneStep(j) ==
  \/ CallStep(j) \/ RecordFails(j) \/ AdmitJob(j) \/ EndJob(j) \/ RunnerLost(j) \/ \E r \in RolesOf(j) : Ask(j, r)

USE DEF talkVars, nextVars, seenVars

LEMMA PriceOfAnswer ==
  ASSUME CallTypeOK, NEW j \in Runner
  PROVE  answer[j].price \in Nat
<1>1. answer[j] \in Answer
  BY DEF CallTypeOK
<1>2. answer[j].price \in Price \cup {NoPrice}
  BY <1>1 DEF Answer
<1>3. Price \cup {NoPrice} \subseteq Nat
  BY CallAssumption DEF NoPrice
<1> QED
  BY <1>2, <1>3

LEMMA StoredTypes ==
  ASSUME CallTypeOK, NEW j \in Runner, Stored(j)
  PROVE  known' \in Nat /\ rows' \in [Runner -> Nat]
<1>1. answer[j].price \in Nat
  BY PriceOfAnswer
<1>2. rows[j] + 1 \in Nat /\ known + answer[j].price \in Nat
  BY <1>1 DEF CallTypeOK
<1> QED
  BY <1>2 DEF CallTypeOK, Stored

LEMMA ForgetTypes ==
  ASSUME CallTypeOK, NEW j \in Runner, Forget(j)
  PROVE  /\ lowered' \in [Runner -> BOOLEAN] /\ attempt' \in [Runner -> 1..2]
         /\ round' \in [Runner -> 1..2] /\ cap' \in [Runner -> BOOLEAN]
         /\ answer' \in [Runner -> Answer] /\ asked' \in [Runner -> Nat] /\ role' \in [Runner -> Role]
<1>1. NoAnswer \in Answer
  BY DEF NoAnswer, Answer, Ending, NoPrice
<1>2. "arbiter" \in Role /\ 0 \in Nat
  BY DEF Role
<1> QED
  BY <1>1, <1>2 DEF CallTypeOK, Forget

LEMMA ForgetRow ==
  ASSUME CallTypeOK, NEW j \in Runner, Forget(j)
  PROVE  asked'[j] = 0 /\ attempt'[j] = 1 /\ round'[j] = 1 /\ role'[j] = "arbiter"
BY DEF CallTypeOK, Forget

LEMMA RecordedTypes ==
  ASSUME CallTypeOK, NEW j \in Runner, Recorded(j)
  PROVE  /\ known' \in Nat /\ rows' \in [Runner -> Nat] /\ cost' \in [Runner -> Nat \cup {NoCost}]
         /\ talks' = talks /\ sent' = sent /\ bill' = bill
<1>1. Total(j) \in Nat \cup {NoCost}
  BY PriceOfAnswer DEF CallTypeOK, Total, NoCost
<1>2. cost' \in [Runner -> Nat \cup {NoCost}]
  BY <1>1 DEF CallTypeOK, Recorded
<1> QED
  BY <1>2, StoredTypes DEF Recorded

LEMMA CallTypeStep ==
  ASSUME CallTypeOK, NEW j \in Runner, OneStep(j)
  PROVE  CallTypeOK'
<1>1. CASE AdmitJob(j) \/ EndJob(j)
  BY <1>1 DEF CallTypeOK, AdmitJob, EndJob, Move, Work, Talking
<1>2. ASSUME NEW r \in RolesOf(j), Ask(j, r) PROVE CallTypeOK'
  <2>1. talks[j] + 1 \in 0..MaxTalks
    BY <1>2, CallAssumption DEF CallTypeOK, Ask
  <2> QED
    BY <1>2, <2>1 DEF CallTypeOK, Ask, Move, Work, Talking, RolesOf
<1>3. CASE Send(j)
  <2>1. PICK e \in Ending, charge \in Price : \E p \in Priced(e, charge) :
          /\ answer' = [answer EXCEPT ![j] = [ending |-> e, price |-> p]]
          /\ bill' = [bill EXCEPT ![j] = @ + charge]
    BY <1>3 DEF Send
  <2>2. PICK p \in Priced(e, charge) :
          /\ answer' = [answer EXCEPT ![j] = [ending |-> e, price |-> p]]
          /\ bill' = [bill EXCEPT ![j] = @ + charge]
    BY <2>1
  <2>3. [ending |-> e, price |-> p] \in Answer /\ charge \in Nat
    BY CallAssumption DEF Answer, Priced
  <2>4. answer' \in [Runner -> Answer] /\ bill' \in [Runner -> Nat]
    BY <2>2, <2>3 DEF CallTypeOK
  <2> QED
    BY <1>3, <2>4 DEF CallTypeOK, Send, Move, Work, Talking
<1>4. CASE RecordFails(j)
  <2>1. known' \in Nat /\ rows' \in [Runner -> Nat]
    BY <1>4, StoredTypes DEF RecordFails, CallTypeOK
  <2> QED
    BY <1>4, <2>1, ForgetTypes DEF CallTypeOK, RecordFails, Move, Work, Talking
<1>5. CASE RunnerLost(j)
  BY <1>5, ForgetTypes DEF CallTypeOK, RunnerLost, Work, Talking
<1>6. CASE Return(j) \/ Classified(j) \/ ClassifierFailed(j)
  <2>1. Recorded(j) /\ Forget(j)
    BY <1>6 DEF Return, Classified, ClassifierFailed
  <2>2. work' \in [Runner -> Work]
    BY <1>6 DEF CallTypeOK, Return, Classified, ClassifierFailed, Move, Work, Talking
  <2> QED
    BY <2>1, <2>2, RecordedTypes, ForgetTypes DEF CallTypeOK
<1>7. CASE RetryLowered(j)
  <2>1. attempt[j] + 1 \in 1..2
    BY <1>7 DEF RetryLowered, AskAgain, MaxAttempts, CallTypeOK
  <2>2. attempt' \in [Runner -> 1..2]
    BY <1>7, <2>1 DEF RetryLowered, CallTypeOK
  <2>3. lowered' \in [Runner -> BOOLEAN]
    BY <1>7 DEF RetryLowered, CallTypeOK, TooLong
  <2>4. work' \in [Runner -> Work]
    BY <1>7 DEF RetryLowered, CallTypeOK, Move, Work, Talking
  <2> QED
    BY <1>7, <2>2, <2>3, <2>4, RecordedTypes DEF CallTypeOK, RetryLowered
<1>8. CASE TranslateAgain(j)
  <2>1. /\ round' \in [Runner -> 1..2] /\ attempt' \in [Runner -> 1..2]
        /\ lowered' \in [Runner -> BOOLEAN]
    BY <1>8 DEF TranslateAgain, CallTypeOK
  <2>2. work' \in [Runner -> Work]
    BY <1>8 DEF TranslateAgain, CallTypeOK, Move, Work, Talking
  <2> QED
    BY <1>8, <2>1, <2>2, RecordedTypes DEF CallTypeOK, TranslateAgain
<1>9. CASE ClassifyAgain(j)
  <2>1. Learned(j) \in BOOLEAN
    BY DEF Learned, TooLong, CallTypeOK
  <2>2. cap' \in [Runner -> BOOLEAN] /\ lowered' \in [Runner -> BOOLEAN] /\ round' \in [Runner -> 1..2]
    BY <1>9, <2>1 DEF ClassifyAgain, CallTypeOK
  <2>3. work' \in [Runner -> Work]
    BY <1>9 DEF ClassifyAgain, CallTypeOK, Move, Work, Talking
  <2> QED
    BY <1>9, <2>2, <2>3, RecordedTypes DEF CallTypeOK, ClassifyAgain
<1> QED
  BY <1>1, <1>2, <1>3, <1>4, <1>5, <1>6, <1>7, <1>8, <1>9 DEF OneStep, CallStep

-----------------------------------------------------------------------------
(* The job that moves keeps its accounts.                                  *)
LEMMA MoverStep ==
  ASSUME CallInv, NEW j \in Runner, OneStep(j)
  PROVE  (CostInv(j) /\ RowInv(j) /\ AskedInv(j) /\ BodyInv(j))'
<1>1. CallTypeOK /\ CostInv(j) /\ RowInv(j) /\ AskedInv(j) /\ BodyInv(j)
  BY DEF CallInv
<1> USE <1>1 DEF CallTypeOK
<1>2. CASE AdmitJob(j) \/ EndJob(j)
  BY <1>2 DEF AdmitJob, EndJob, Move, CostInv, RowInv, AskedInv, InHand, BodyInv, SameBody, Talking
<1>3. ASSUME NEW r \in RolesOf(j), Ask(j, r) PROVE (CostInv(j) /\ RowInv(j) /\ AskedInv(j) /\ BodyInv(j))'
  BY <1>3 DEF Ask, Move, CostInv, RowInv, AskedInv, InHand, BodyInv, SameBody, Talking
<1>4. CASE Send(j)
  <2>1. PICK e \in Ending, charge \in Price : \E p \in Priced(e, charge) :
          /\ answer' = [answer EXCEPT ![j] = [ending |-> e, price |-> p]]
          /\ bill' = [bill EXCEPT ![j] = @ + charge]
    BY <1>4 DEF Send
  <2>2. PICK p \in Priced(e, charge) :
          /\ answer' = [answer EXCEPT ![j] = [ending |-> e, price |-> p]]
          /\ bill' = [bill EXCEPT ![j] = @ + charge]
    BY <2>1
  <2>3. answer'[j].price # NoPrice => answer'[j].price = charge
    BY <2>2 DEF Priced
  <2>4. bill'[j] = bill[j] + charge /\ charge \in Nat
    BY <2>2, CallAssumption
  <2>5. work[j] = "send" /\ work'[j] = "record" /\ cost' = cost
    BY <1>4 DEF Send, Move
  <2>6. CostInv(j)'
    BY <2>3, <2>4, <2>5 DEF CostInv
  <2>7. /\ sent'[j] = sent[j] + 1 /\ asked'[j] = asked[j] + 1 /\ rows' = rows
        /\ role' = role /\ attempt' = attempt /\ round' = round
    BY <1>4 DEF Send
  <2>8. (RowInv(j) /\ AskedInv(j))'
    BY <2>5, <2>7 DEF RowInv, AskedInv, InHand, Talking
  <2>9. BodyInv(j)'
    BY <2>5 DEF BodyInv
  <2> QED
    BY <2>6, <2>8, <2>9
<1>5. CASE RecordFails(j) \/ RunnerLost(j)
  <2>1. Forget(j) /\ work'[j] = "aborted" /\ sent' = sent
    BY <1>5 DEF RecordFails, RunnerLost, Move
  <2>2. (CostInv(j) /\ AskedInv(j))'
    BY <2>1, ForgetRow DEF CostInv, AskedInv, Talking
  <2>3. RowInv(j)'
    BY <1>5, <2>1 DEF RecordFails, RunnerLost, Stored, Move, RowInv, Talking
  <2>4. BodyInv(j)'
    BY <2>1 DEF BodyInv
  <2> QED
    BY <2>2, <2>3, <2>4
<1>6. ASSUME Recorded(j)
      PROVE  /\ rows'[j] = sent'[j]
             /\ cost'[j] # NoCost => cost'[j] = bill'[j]
  <2>1. rows'[j] = rows[j] + 1 /\ sent' = sent /\ bill' = bill /\ cost'[j] = Total(j) /\ work[j] = "record"
    BY <1>6 DEF Recorded, Stored
  <2> QED
    BY <2>1 DEF RowInv, CostInv, Total
<1>7. CASE Return(j) \/ Classified(j) \/ ClassifierFailed(j)
  <2>1. Recorded(j) /\ Forget(j) /\ work'[j] \in {"ready", "aborted"}
    BY <1>7 DEF Return, Classified, ClassifierFailed, Move
  <2>2. rows'[j] \in Nat /\ sent'[j] \in Nat
    BY <2>1, RecordedTypes
  <2>3. (CostInv(j) /\ RowInv(j))'
    BY <1>6, <2>1, <2>2 DEF CostInv, RowInv
  <2>4. AskedInv(j)'
    BY <2>1, ForgetRow DEF AskedInv, Talking
  <2>5. BodyInv(j)'
    BY <2>1 DEF BodyInv
  <2> QED
    BY <2>3, <2>4, <2>5
<1>8. CASE RetryLowered(j) \/ TranslateAgain(j) \/ ClassifyAgain(j)
  <2>1. Recorded(j) /\ work[j] = "record" /\ work'[j] = "send"
    BY <1>8 DEF RetryLowered, TranslateAgain, ClassifyAgain, Move
  <2>2. (CostInv(j) /\ RowInv(j))'
    BY <1>6, <2>1 DEF CostInv, RowInv
  <2>3. (AskedInv(j) /\ BodyInv(j))'
    <3>1. CASE RetryLowered(j)
      <4>1. attempt[j] = 1 /\ role[j] # "direction"
        BY <3>1 DEF RetryLowered, AskAgain, MaxAttempts
      <4>2. attempt'[j] = 2 /\ asked' = asked /\ round' = round /\ role' = role /\ answer' = answer
        BY <3>1, <4>1 DEF RetryLowered
      <4>3. lowered'[j] = (lowered[j] \/ TooLong(j))
        BY <3>1 DEF RetryLowered
      <4>4. AskedInv(j)'
        BY <2>1, <4>1, <4>2 DEF AskedInv, InHand, Talking
      <4>5. BodyInv(j)'
        BY <4>2, <4>3 DEF BodyInv, TooLong
      <4> QED
        BY <4>4, <4>5
    <3>2. CASE TranslateAgain(j)
      <4>1. role[j] \notin {"direction", "arbiter"} /\ round[j] = 1
        BY <3>2 DEF TranslateAgain, MayAskAnew
      <4>2. round'[j] = 2 /\ attempt'[j] = 1 /\ asked' = asked /\ role' = role
        BY <3>2 DEF TranslateAgain
      <4>3. attempt[j] \in {1, 2} /\ asked[j] = attempt[j]
        BY <2>1, <4>1 DEF AskedInv, InHand, Talking
      <4>4. AskedInv(j)'
        BY <2>1, <4>1, <4>2, <4>3 DEF AskedInv, InHand, Talking
      <4>5. ~SameBody(j)'
        BY <4>1, <4>2 DEF SameBody
      <4>6. BodyInv(j)'
        BY <4>5 DEF BodyInv
      <4> QED
        BY <4>4, <4>6
    <3>3. CASE ClassifyAgain(j)
      <4>1. role[j] = "direction" /\ round[j] = 1
        BY <3>3 DEF ClassifyAgain
      <4>2. round'[j] = 2 /\ asked' = asked /\ attempt' = attempt /\ role' = role /\ answer' = answer
        BY <3>3 DEF ClassifyAgain
      <4>3. lowered'[j] = Learned(j)
        BY <3>3 DEF ClassifyAgain
      <4>4. attempt[j] = 1 /\ asked[j] = 1
        BY <2>1, <4>1 DEF AskedInv, InHand, Talking
      <4>5. AskedInv(j)'
        BY <2>1, <4>1, <4>2, <4>4 DEF AskedInv, InHand, Talking
      <4>6. BodyInv(j)'
        BY <4>1, <4>2, <4>3 DEF BodyInv, Learned, TooLong
      <4> QED
        BY <4>5, <4>6
    <3> QED
      BY <1>8, <3>1, <3>2, <3>3
  <2> QED
    BY <2>2, <2>3
<1> QED
  BY <1>2, <1>3, <1>4, <1>5, <1>7, <1>8 DEF OneStep, CallStep

(* Every action is about one job.                                          *)
LEMMA OthersRest ==
  ASSUME CallTypeOK, NEW j \in Runner, OneStep(j)
  PROVE  Others(j)
<1>1. CASE AdmitJob(j) \/ EndJob(j) \/ RunnerLost(j) \/ RecordFails(j)
  BY <1>1 DEF CallTypeOK, Others, AdmitJob, EndJob, RunnerLost, RecordFails, Forget, Stored, Move
<1>2. ASSUME NEW r \in RolesOf(j), Ask(j, r) PROVE Others(j)
  BY <1>2 DEF CallTypeOK, Others, Ask, Move
<1>3. CASE Send(j)
  BY <1>3 DEF CallTypeOK, Others, Send, Move
<1>4. CASE Return(j) \/ Classified(j) \/ ClassifierFailed(j)
  BY <1>4 DEF CallTypeOK, Others, Return, Classified, ClassifierFailed, Recorded, Stored, Forget, Move
<1>5. CASE RetryLowered(j) \/ TranslateAgain(j) \/ ClassifyAgain(j)
  BY <1>5 DEF CallTypeOK, Others, RetryLowered, TranslateAgain, ClassifyAgain, Recorded, Stored, Move
<1> QED
  BY <1>1, <1>2, <1>3, <1>4, <1>5 DEF OneStep, CallStep

LEMMA CallStepInv == CallInv /\ [CallNext]_callVars => CallInv'
<1> SUFFICES ASSUME CallInv, [CallNext]_callVars PROVE CallInv'
  OBVIOUS
<1>1. CASE UNCHANGED callVars
  BY <1>1 DEF callVars, CallInv, CallTypeOK, CostInv, RowInv, AskedInv, InHand, BodyInv, SameBody
<1>2. ASSUME NEW j \in Runner, OneStep(j) PROVE CallInv'
  <2>1. CallTypeOK'
    BY <1>2, CallTypeStep DEF CallInv
  <2>2. ASSUME NEW k \in Runner, k # j
        PROVE  (CostInv(k) /\ RowInv(k) /\ AskedInv(k) /\ BodyInv(k))'
    <3>1. CostInv(k) /\ RowInv(k) /\ AskedInv(k) /\ BodyInv(k)
      BY DEF CallInv
    <3>2. Others(j)
      BY <1>2, OthersRest DEF CallInv
    <3> QED
      BY <2>2, <3>1, <3>2 DEF Others, CostInv, RowInv, AskedInv, InHand, BodyInv, SameBody
  <2> QED
    BY <1>2, <2>1, <2>2, MoverStep DEF CallInv
<1> QED
  BY <1>1, <1>2 DEF CallNext, OneStep

-----------------------------------------------------------------------------
(***************************************************************************)
(* The accounts of every job are in order, at every moment of a day.       *)
(***************************************************************************)
THEOREM CallInvariant == CallSpec => []CallInv
BY CallInitInv, CallStepInv, PTL DEF CallSpec

(* Every state of the jobs that call the models is well formed.            *)
THEOREM CallTyped == CallSpec => []CallTypeOK
<1>1. CallInv => CallTypeOK
  BY DEF CallInv
<1> QED
  BY <1>1, CallInvariant, PTL

(***************************************************************************)
(* What RecordedModels and the clients it records promise: a cost that is  *)
(* known is the whole bill, every call has its row before the next, a      *)
(* question costs two calls at most and a translation four, and a refused  *)
(* body is not sent again as it was.                                       *)
(***************************************************************************)
THEOREM BillsKept == CallSpec => BillIsKept
<1>1. CallInv => CostIsTheBill /\ CallsAreRecorded /\ FewCallsPerQuestion
  <2> SUFFICES ASSUME CallInv, NEW j \in Runner
               PROVE  /\ cost[j] # NoCost /\ work[j] \notin {"record", "aborted"} => cost[j] = bill[j]
                      /\ sent[j] - rows[j] \in (IF work[j] \in {"record", "aborted"} THEN {0, 1} ELSE {0})
                      /\ asked[j] <= (IF role[j] \in Translator THEN 4 ELSE 2)
    BY DEF CostIsTheBill, CallsAreRecorded, FewCallsPerQuestion
  <2>1. CallTypeOK /\ CostInv(j) /\ RowInv(j) /\ AskedInv(j)
    BY DEF CallInv
  <2>2. /\ cost[j] # NoCost /\ work[j] \notin {"record", "aborted"} => cost[j] = bill[j]
        /\ sent[j] - rows[j] \in (IF work[j] \in {"record", "aborted"} THEN {0, 1} ELSE {0})
    BY <2>1 DEF CallTypeOK, CostInv, RowInv, Work, Talking
  <2>3. asked[j] <= (IF role[j] \in Translator THEN 4 ELSE 2)
    <3>1. attempt[j] \in {1, 2} /\ round[j] \in {1, 2} /\ asked[j] \in Nat /\ role[j] \in Role
      BY <2>1 DEF CallTypeOK
    <3>2. CASE work[j] \in Talking
      BY <2>1, <3>1, <3>2 DEF AskedInv, InHand, Role, Translator
    <3> QED
      BY <2>1, <3>1, <3>2 DEF AskedInv
  <2> QED
    BY <2>2, <2>3
<1>2. CallInv /\ [CallNext]_callVars =>
        [\A j \in Runner :
           sent'[j] # sent[j] /\ SameBody(j) /\ answer[j].ending = "too long" => lowered[j]]_callVars
  <2> SUFFICES ASSUME CallInv, NEW i \in Runner, OneStep(i), NEW j \in Runner,
                      sent'[j] # sent[j], SameBody(j), answer[j].ending = "too long"
               PROVE  lowered[j]
    BY DEF CallNext, OneStep
  <2>1. i = j
    BY OthersRest DEF CallInv, Others
  <2>2. Send(j)
    BY <2>1 DEF OneStep, CallStep, RetryLowered, Return, TranslateAgain, Classified, ClassifyAgain, ClassifierFailed,
                Recorded, RecordFails, AdmitJob, EndJob, RunnerLost, Ask
  <2> QED
    BY <2>2 DEF CallInv, BodyInv, Send, Move
<1> QED
  BY <1>1, <1>2, CallInvariant, PTL DEF CallSpec, BillIsKept, RefusedBodyShrinks

-----------------------------------------------------------------------------
LoopInv ==
  /\ turns \in Nat
  /\ ~shown => unread # {}
  /\ result = "ok" => shown
  /\ result # "ok" => reviewed = <<>>
  /\ turns = 0 => lines = Original

LEMMA LoopInitInv == LoopInit => LoopInv
BY DEF LoopInit, LoopInv

(* A session that fails is forgotten before the second begins.             *)
LEMMA FailureInv ==
  ASSUME LoopInv, InSession, SessionFails
  PROVE  LoopInv'
BY DEF LoopInv, InSession, SessionFails, Restarted

LEMMA ReadInv ==
  ASSUME LoopInv, NEW file \in File, NEW w \in Window, Read(file, w)
  PROVE  LoopInv'
<1>1. turns' = turns + 1 /\ turns' \in Nat /\ turns' # 0 /\ result' = result /\ reviewed' = reviewed
  BY DEF Read, Spend, LoopInv
<1>2. shown' = TRUE \/ (shown' = shown /\ unread' = unread)
  BY DEF Read
<1>3. result # "ok"
  BY DEF Read, Turn, InSession
<1> QED
  BY <1>1, <1>2, <1>3 DEF LoopInv

LEMMA PatchInv ==
  ASSUME LoopInv, NEW hs, PatchAccepted(hs)
  PROVE  LoopInv'
<1>1. turns' = turns + 1 /\ turns' \in Nat /\ turns' # 0 /\ result' = result /\ reviewed' = reviewed
  BY DEF PatchAccepted, Spend, LoopInv
<1>2. unread' = TouchedBy(hs) /\ shown' = (TouchedBy(hs) = {})
  BY DEF PatchAccepted
<1>3. result # "ok"
  BY DEF PatchAccepted, Turn, InSession
<1> QED
  BY <1>1, <1>2, <1>3 DEF LoopInv

LEMMA LoopStepInv == LoopInv /\ [LoopNext]_loopVars => LoopInv'
<1> SUFFICES ASSUME LoopInv, [LoopNext]_loopVars PROVE LoopInv'
  OBVIOUS
<1>1. CASE UNCHANGED loopVars
  BY <1>1 DEF loopVars, LoopInv
<1>2. CASE BadTurn \/ OutOfTurns \/ PatchForbidden \/ Hasty \/ Invalid
  BY <1>2, FailureInv DEF BadTurn, OutOfTurns, PatchForbidden, Hasty, Invalid, Turn
<1>3. CASE Infrastructure
  BY <1>3 DEF Infrastructure, InSession, LoopInv
<1>4. CASE Look
  BY <1>4 DEF Look, Turn, InSession, Spend, LoopInv
<1>5. CASE FinishSession
  BY <1>5 DEF FinishSession, Turn, MayFinish, LoopInv
<1>6. ASSUME NEW f \in File, NEW w \in Window, Read(f, w) PROVE LoopInv'
  BY <1>6, ReadInv
<1>7. ASSUME NEW hs \in Patches, PatchAccepted(hs) PROVE LoopInv'
  BY <1>7, PatchInv
<1> QED
  BY <1>1, <1>2, <1>3, <1>4, <1>5, <1>6, <1>7 DEF LoopNext

(***************************************************************************)
(* The tool session of the critic keeps its promise: a result was read     *)
(* after its last patch, and a session that failed leaves neither a patch  *)
(* to the next nor bytes to the caller (CriticToolLoop.handle_turn and     *)
(* run_tool_critic_chunk).                                                 *)
(***************************************************************************)
THEOREM SessionClean == LoopSpec => []SessionIsClean
<1>1. LoopInv => SessionIsClean
  BY DEF LoopInv, SessionIsClean, ReadBeforeFinish, FailureLeavesNothing
<1> QED
  BY <1>1, LoopInitInv, LoopStepInv, PTL DEF LoopSpec

-----------------------------------------------------------------------------
LEMMA LoopInitTyped == LoopInit => LoopTypeOK
<1> SUFFICES ASSUME LoopInit PROVE LoopTypeOK
  OBVIOUS
<1>1. Original \in Seq(Line) /\ Len(Original) = DraftLines
  <2>1. Original \in [1..DraftLines -> Line]
    BY ToolLoopAssumption DEF Original, Line
  <2> QED
    BY <2>1, ToolLoopAssumption
<1> QED
  BY <1>1, ToolLoopAssumption DEF LoopInit, LoopTypeOK

LEMMA SplicedTyped ==
  ASSUME NEW h \in Hunk, NEW l \in Seq(Line), Located(h, l)
  PROVE  Spliced(h, l) \in Seq(Line)
<1>1. h.offset \in Nat /\ h.removed \in Nat /\ h.added \in Nat /\ Len(l) \in Nat
  BY ToolLoopAssumption DEF Hunk
<1>2. Added(h) \in Seq(Line)
  <2>1. Added(h) \in [1..h.added -> Line]
    BY ToolLoopAssumption DEF Added, Line, New
  <2> QED
    BY <1>1, <2>1
<1>3. SubSeq(l, 1, Least(h.offset, Len(l))) \in Seq(Line)
  BY <1>1 DEF Least
<1>4. SubSeq(l, h.offset + h.removed + 1, Len(l)) \in Seq(Line)
  BY <1>1
<1> QED
  BY <1>2, <1>3, <1>4 DEF Spliced

LEMMA TouchedTyped ==
  ASSUME NEW h \in Hunk, NEW l \in Seq(Line)
  PROVE  Numbers(Touched(h, l)) \subseteq 1..MaxLines + 3
<1>1. /\ h.offset \in 0..MaxLines + 1 /\ h.removed \in 0..2 /\ h.added \in 0..2 /\ Len(l) \in Nat
      /\ MaxLines \in Nat
  BY ToolLoopAssumption DEF Hunk
<1>2. CASE h.added > 0
  <2>1. Touched(h, l) = {<<h.offset + 1, h.offset + h.added>>}
    BY <1>2 DEF Touched
  <2> QED
    BY <1>1, <2>1 DEF Numbers
<1>3. CASE h.added = 0 /\ Len(l) > 0
  <2> DEFINE n == Least(Greatest(h.offset, 1), Len(l))
  <2>1. Touched(h, l) = {<<n, n>>}
    BY <1>3 DEF Touched
  <2>2. n \in 1..MaxLines + 3
    BY <1>1, <1>3 DEF Least, Greatest
  <2> HIDE DEF n
  <2> QED
    BY <1>1, <2>1, <2>2 DEF Numbers
<1>4. CASE ~(h.added > 0) /\ ~(h.added = 0 /\ Len(l) > 0)
  <2>1. Touched(h, l) = {}
    BY <1>4 DEF Touched
  <2> QED
    BY <2>1 DEF Numbers
<1> QED
  BY <1>2, <1>3, <1>4

LEMMA PatchTyped ==
  ASSUME LoopTypeOK, NEW hs \in Patches, PatchAccepted(hs)
  PROVE  LoopTypeOK'
<1>1. Len(hs) \in {1, 2} /\ hs[1] \in Hunk /\ (Len(hs) = 2 => hs[2] \in Hunk)
  BY DEF Patches
<1>2. Spliced(hs[1], lines) \in Seq(Line)
  BY <1>1, SplicedTyped DEF PatchAccepted, LoopTypeOK
<1>3. PatchedLines(hs) \in Seq(Line)
  BY <1>1, <1>2, SplicedTyped DEF PatchAccepted, PatchedLines
<1>4. TouchedBy(hs) \subseteq Window
  <2> DEFINE first == Touched(hs[1], Spliced(hs[1], lines))
             rest == IF Len(hs) = 1 THEN {} ELSE Touched(hs[2], PatchedLines(hs))
  <2>1. Numbers(first) \subseteq 1..MaxLines + 3
    BY <1>1, <1>2, TouchedTyped
  <2>2. Numbers(rest) \subseteq 1..MaxLines + 3
    <3>1. CASE Len(hs) = 1
      BY <3>1 DEF Numbers
    <3>2. CASE Len(hs) = 2
      BY <1>1, <1>3, <3>2, TouchedTyped
    <3> QED
      BY <1>1, <3>1, <3>2
  <2> HIDE DEF first, rest
  <2>3. Numbers(first \cup rest) \subseteq 1..MaxLines + 3
    BY <2>1, <2>2 DEF Numbers
  <2>4. Merged(first \cup rest) \subseteq Window
    BY <2>3 DEF Merged, Window
  <2> QED
    BY <2>4 DEF TouchedBy, first, rest
<1>5. turns' \in 0..MaxTurns
  BY ToolLoopAssumption DEF PatchAccepted, Turn, Spend, LoopTypeOK
<1> QED
  BY <1>3, <1>4, <1>5 DEF PatchAccepted, Spend, LoopTypeOK

LEMMA ReadTyped ==
  ASSUME LoopTypeOK, NEW f \in File, NEW w \in Window, Read(f, w)
  PROVE  LoopTypeOK'
<1>1. turns' \in 0..MaxTurns /\ UNCHANGED <<session, reviewed, result>>
  BY ToolLoopAssumption DEF Read, Turn, Spend, LoopTypeOK
<1>2. unread' \subseteq Window /\ shown' \in BOOLEAN
  BY DEF Read, LoopTypeOK
<1>3. lines' \in Seq(Line) /\ Len(lines') <= MaxLines
  <2> DEFINE seen == [n \in DOMAIN lines |-> IF f = "target" /\ n \in w[1]..w[2]
                                           THEN [lines[n] EXCEPT !.fresh = FALSE] ELSE lines[n]]
  <2>1. seen \in [1..Len(lines) -> Line] /\ Len(lines) \in Nat
    <3>1. Len(lines) \in Nat /\ DOMAIN lines = 1..Len(lines) /\ \A n \in 1..Len(lines) : lines[n] \in Line
      BY DEF LoopTypeOK
    <3>2. \A r \in Line : [r EXCEPT !.fresh = FALSE] \in Line
      BY DEF Line
    <3> QED
      BY <3>1, <3>2
  <2>2. seen \in Seq(Line) /\ Len(seen) = Len(lines)
    BY <2>1
  <2>3. lines' = seen \/ lines' = lines
    BY DEF Read
  <2> QED
    BY <2>2, <2>3 DEF LoopTypeOK
<1> QED
  BY <1>1, <1>2, <1>3 DEF LoopTypeOK

LEMMA FailureTyped ==
  ASSUME LoopTypeOK, InSession, SessionFails
  PROVE  LoopTypeOK'
<1>1. Original \in Seq(Line) /\ Len(Original) <= MaxLines
  <2>1. Original \in [1..DraftLines -> Line]
    BY ToolLoopAssumption DEF Original, Line
  <2> QED
    BY <2>1, ToolLoopAssumption
<1>2. CASE session = 1
  <2>1. session' = 2 /\ turns' = 0 /\ unread' = {} /\ shown' = TRUE /\ lines' = Original /\ result' = result
        /\ reviewed' = reviewed
    BY <1>2 DEF SessionFails, Restarted
  <2>2. 0 \in 0..MaxTurns
    BY ToolLoopAssumption
  <2> QED
    BY <1>1, <2>1, <2>2 DEF LoopTypeOK
<1>3. CASE session # 1
  BY <1>3 DEF SessionFails, LoopTypeOK
<1> QED
  BY <1>2, <1>3

(* Every state of a session is well formed: a file stays within its bound, *)
(* a turn is only spent while one is left, and what is still to be read    *)
(* are ranges of the file.                                                 *)
THEOREM LoopTyped == LoopSpec => []LoopTypeOK
<1>1. LoopTypeOK /\ [LoopNext]_loopVars => LoopTypeOK'
  <2> SUFFICES ASSUME LoopTypeOK, [LoopNext]_loopVars PROVE LoopTypeOK'
    OBVIOUS
  <2>1. CASE UNCHANGED loopVars
    BY <2>1 DEF loopVars, LoopTypeOK
  <2>2. CASE BadTurn \/ OutOfTurns \/ PatchForbidden \/ Hasty \/ Invalid
    BY <2>2, FailureTyped DEF BadTurn, OutOfTurns, PatchForbidden, Hasty, Invalid, Turn
  <2>3. CASE Infrastructure
    BY <2>3 DEF Infrastructure, LoopTypeOK
  <2>4. CASE Look \/ FinishSession
    <3>1. turns' \in 0..MaxTurns
      BY <2>4, ToolLoopAssumption DEF Look, FinishSession, Turn, Spend, LoopTypeOK
    <3> QED
      BY <2>4, <3>1 DEF Look, FinishSession, Spend, LoopTypeOK
  <2> QED
    BY <2>1, <2>2, <2>3, <2>4, ReadTyped, PatchTyped DEF LoopNext
<1> QED
  BY <1>1, LoopInitTyped, PTL DEF LoopSpec
===============================================================================
