------------------------- MODULE TranslationGroupProofs -------------------------
(***************************************************************************)
(* The promise of a group of pages for any set of pages, any strategies,   *)
(* any number of hunks and of jobs: GroupInv says what a checkpoint, the   *)
(* text of a job and the branch have in common at each stage.              *)
(***************************************************************************)
EXTENDS TranslationGroup, TLAPS

(* The shape of the state, a content being any number.                     *)
Contents == [Page -> Nat]
GroupShape ==
  /\ way \in [Page -> Way] /\ base \in Contents /\ branch \in Contents
  /\ recovery \in Recovery /\ job \in Nat /\ mode \in Mode /\ stage \in Stage
  /\ left \subseteq Page /\ doc \in Page \cup {NoPage} /\ step \in Step
  /\ tries \in {0, 1} /\ hunks \in Nat /\ calls \in Nat
  /\ text \in Contents /\ cand \in Contents
  /\ judged \in [Page -> Judgement] /\ noop \in BOOLEAN

(* A page is translated while its stage lasts, and only if it was left.    *)
DocInv ==
  /\ doc # NoPage => doc \in left /\ stage \in {"toc", "documents"}
  /\ doc = NoPage => calls = 0 /\ tries = 0
  /\ stage # "idle" => verdict = "none"

(* What a page has cost: two calls for every hunk that is done, the refused *)
(* answer of the present one, and nothing before the hunks.                *)
CostInv ==
  doc # NoPage =>
    /\ step \in HunkStep => way[doc] = "hunks" /\ hunks \in 1..MaxHunks /\ calls <= 2 * (MaxHunks - hunks) + tries
    /\ step = "thin" => calls <= (IF way[doc] = "hunks" THEN 2 * MaxHunks ELSE 0) + tries
    /\ step \in {"toc", "partial"} => calls <= tries
    /\ step = "none" => calls = 0

(* The branch has what was published, and the arbiter has seen it.         *)
BranchInv ==
  /\ stage = "conclude" \/ (stage = "review" /\ mode = "translate") =>
       \A p \in Publishable : branch[p] = cand[p]
  /\ stage = "conclude" \/ (stage = "publish" /\ mode # "translate") =>
       \A p \in Reviewable : cand[p] # Nothing => judged[p] \in {"GREEN", "YELLOW", "RED"}

(* A continuation holds, outside what is pending, the pages of the branch. *)
ResumeInv ==
  /\ recovery.stage = "direction" => ~recovery.target
  /\ mode = "continue" /\ recovery.target =>
       /\ stage # "toc"
       /\ stage = "documents" =>
            left \subseteq recovery.pending /\ \A p \in Document \ recovery.pending : text[p] = branch[p]
       /\ stage \in {"gate", "validate", "review", "publish"} =>
            \A p \in Document \ recovery.pending : cand[p] \in {branch[p], Nothing}

GroupInv == GroupShape /\ DocInv /\ CostInv /\ BranchInv /\ ResumeInv /\ HolesAreResumable

USE DEF docVars, planVars, gitVars, jobVars, judgeVars

LEMMA GroupInit == Init => GroupInv
<1> SUFFICES ASSUME Init PROVE GroupInv
  OBVIOUS
<1> USE DEF Init
<1>1. GroupShape
  <2>1. base \in [Page -> Nat]
    BY DEF Nothing, Base
  <2>2. recovery \in Recovery
    BY DEF Closed, Recovery
  <2> QED
    BY <2>1, <2>2 DEF GroupShape, Contents, Empty, Nothing, Mode, Stage, Step, Judgement
<1>2. DocInv /\ CostInv /\ BranchInv
  BY DEF DocInv, CostInv, BranchInv
<1>3. ResumeInv /\ HolesAreResumable
  BY DEF ResumeInv, HolesAreResumable, Closed
<1> QED
  BY <1>1, <1>2, <1>3 DEF GroupInv

-----------------------------------------------------------------------------
(* The translation of a page.                                              *)
Translating ==
  Deterministic \/ TocAnswered \/ PartialAnswered \/ ThinAnswered \/ ReplaceAnswered \/ InsertAnswered

(* An answer accepts a text, gives the page up, or costs one call more.    *)
Turn ==
  \/ \E c \in Nat : Accept(c)
  \/ GiveUp
  \/ step # "none" /\ Retry
  \/ step \in HunkStep /\ (FallBack \/ (hunks # 1 /\ NextHunk))

LEMMA TextTypes == GroupShape => Base \in Nat /\ Nothing \in Nat /\ Draft \in Nat /\ \A n \in Nat : Text(n) \in Nat
BY DEF Base, Nothing, Draft, Text

LEMMA AnswerTurns ==
  ASSUME GroupShape, Translating
  PROVE  InDocument /\ Turn
<1>1. Base \in Nat /\ Text(0) \in Nat /\ Text(job) \in Nat
  BY TextTypes DEF GroupShape
<1>2. CASE Deterministic
  BY <1>1, <1>2 DEF Deterministic, Patched, Turn
<1>3. CASE TocAnswered \/ PartialAnswered \/ ThinAnswered
  BY <1>1, <1>3 DEF TocAnswered, PartialAnswered, ThinAnswered, Attempt, Turn
<1>4. CASE ReplaceAnswered \/ InsertAnswered
  BY <1>1, <1>4 DEF ReplaceAnswered, InsertAnswered, HunkStep, NextHunk, Patched, Turn
<1> QED
  BY <1>2, <1>3, <1>4 DEF Translating

LEMMA TurnShape ==
  ASSUME GroupInv, InDocument, Turn
  PROVE  GroupShape'
<1> USE DEF GroupInv, GroupShape
<1>0. UNCHANGED <<planVars, gitVars, recovery, jobVars, stage, cand, judgeVars>> /\ doc \in Page
  BY DEF InDocument
<1>1. ASSUME NEW c \in Nat, Accept(c) PROVE GroupShape'
  BY <1>0, <1>1 DEF Accept, Leave, Step, Contents
<1>2. CASE GiveUp
  BY <1>0, <1>2 DEF GiveUp, Leave, Step, Contents
<1>3. CASE Retry
  BY <1>0, <1>3 DEF Retry, Again
<1>4. CASE step \in HunkStep /\ FallBack
  BY <1>0, <1>4 DEF FallBack, Again, Step
<1>5. CASE step \in HunkStep /\ hunks # 1 /\ NextHunk
  <2>1. hunks - 1 \in Nat
    <3>1. MaxHunks \in Nat /\ doc # NoPage
      BY GroupAssumption DEF InDocument
    <3>2. hunks \in 1..MaxHunks
      BY <1>5, <3>1 DEF CostInv
    <3> QED
      BY <3>1, <3>2
  <2>2. hunks' = hunks - 1 /\ step' \in HunkStep /\ tries' = 0 /\ Again
    BY <1>5 DEF NextHunk
  <2> QED
    BY <1>0, <2>1, <2>2 DEF HunkStep, Again, Step
<1> QED
  BY <1>1, <1>2, <1>3, <1>4, <1>5 DEF Turn

LEMMA TurnKept ==
  ASSUME GroupInv, InDocument, Turn
  PROVE  GroupInv'
<1>0. /\ UNCHANGED <<planVars, gitVars, recovery, jobVars, stage, cand, judgeVars>>
      /\ doc \in Page /\ doc # NoPage /\ GroupShape /\ GroupShape'
  BY TurnShape DEF InDocument, GroupInv, GroupShape
<1>1. MaxHunks \in Nat \ {0}
  BY GroupAssumption
<1>2. DocInv'
  BY <1>0 DEF GroupInv, GroupShape, DocInv, Turn, Accept, GiveUp, Leave, Retry, FallBack, NextHunk, Again, Patched
<1>3. CostInv'
  <2>1. CASE doc' = NoPage
    BY <2>1 DEF CostInv
  <2>2. CASE step # "none" /\ Retry
    BY <1>0, <1>1, <2>2 DEF GroupInv, GroupShape, CostInv, Retry, Again, HunkStep
  <2>3. CASE step \in HunkStep /\ FallBack
    <3>1. step' = "thin" /\ tries' = 0 /\ calls' = calls + 1 /\ doc' = doc
      BY <2>3 DEF FallBack, Again
    <3>2. way[doc] = "hunks" /\ hunks \in 1..MaxHunks /\ calls <= 2 * (MaxHunks - hunks) + tries
      BY <1>0, <2>3 DEF GroupInv, CostInv
    <3>3. calls' <= 2 * MaxHunks + tries'
      BY <1>0, <1>1, <3>1, <3>2 DEF GroupShape
    <3> QED
      BY <1>0, <3>1, <3>2, <3>3 DEF CostInv, HunkStep
  <2>4. CASE step \in HunkStep /\ hunks # 1 /\ NextHunk
    <3>1. step' \in HunkStep /\ hunks' = hunks - 1 /\ tries' = 0 /\ calls' = calls + 1 /\ doc' = doc
      BY <2>4 DEF NextHunk, Again
    <3>2. way[doc] = "hunks" /\ hunks \in 1..MaxHunks /\ calls <= 2 * (MaxHunks - hunks) + tries
      BY <1>0, <2>4 DEF GroupInv, CostInv
    <3>3. hunks' \in 1..MaxHunks /\ calls' <= 2 * (MaxHunks - hunks') + tries'
      BY <1>0, <1>1, <2>4, <3>1, <3>2 DEF GroupShape
    <3> QED
      BY <1>0, <3>1, <3>2, <3>3 DEF CostInv, HunkStep
  <2>5. CASE GiveUp \/ \E c \in Nat : Accept(c)
    BY <2>1, <2>5 DEF GiveUp, Accept, Leave
  <2> QED
    BY <2>2, <2>3, <2>4, <2>5 DEF Turn
<1>4. BranchInv' /\ HolesAreResumable'
  BY <1>0 DEF GroupInv, BranchInv, HolesAreResumable, Publishable
<1>5. ResumeInv'
  <2>1. left' \subseteq left /\ \A p \in Page : p # doc => text'[p] = text[p]
    BY <1>0 DEF GroupShape, Contents, Turn, Accept, GiveUp, Leave, Retry, FallBack, NextHunk, Again, Patched
  <2>2. doc \in left
    BY <1>0 DEF GroupInv, DocInv
  <2> QED
    BY <1>0, <2>1, <2>2 DEF GroupInv, ResumeInv, Document
<1> QED
  BY <1>0, <1>2, <1>3, <1>4, <1>5 DEF GroupInv

-----------------------------------------------------------------------------
(* The steps of the group as a whole.                                      *)
LEMMA Kinds ==
  /\ Document \subseteq Page /\ Dropped \subseteq Page /\ Toc \subseteq Page
  /\ Document \cap Dropped = {} /\ Document \cap Toc = {} /\ Document \subseteq Reviewable
BY DEF Document, Dropped, Toc, Reviewable

LEMMA EndKeeps ==
  ASSUME GroupInv, NEW v, End(v), doc = NoPage, UNCHANGED <<planVars, gitVars, jobVars, docVars, calls>>,
         recovery' \in Recovery, recovery'.stage = "direction" => ~recovery'.target, HolesAreResumable'
  PROVE  GroupInv'
<1>0. stage' = "idle" /\ left' = {} /\ text' = Empty /\ cand' = Empty /\ judged' = Unjudged /\ noop' = FALSE
  BY DEF End
<1>1. GroupShape'
  BY <1>0 DEF GroupInv, GroupShape, Empty, Unjudged, Contents, Nothing, Stage, Judgement
<1>2. DocInv' /\ CostInv' /\ BranchInv' /\ ResumeInv'
  BY <1>0 DEF GroupInv, DocInv, CostInv, BranchInv, ResumeInv
<1> QED
  BY <1>1, <1>2 DEF GroupInv

LEMMA AbortKeeps ==
  ASSUME GroupInv, Abort, doc = NoPage, UNCHANGED <<planVars, gitVars, jobVars, docVars, calls>>
  PROVE  GroupInv'
<1>1. End("failed") /\ UNCHANGED recovery
  BY DEF Abort
<1>2. HolesAreResumable'
  BY <1>1 DEF GroupInv, HolesAreResumable
<1>3. recovery \in Recovery /\ (recovery.stage = "direction" => ~recovery.target)
  BY DEF GroupInv, GroupShape, ResumeInv
<1> QED
  BY <1>1, <1>2, <1>3, EndKeeps

LEMMA SelectKeeps ==
  ASSUME GroupInv, stage = "idle", doc = NoPage, SelectTranslation, UNCHANGED <<planVars, docVars, calls>>,
         job' \in Nat, mode' \in Mode, branch' \in Contents, recovery' \in Recovery, ~recovery'.target
  PROVE  GroupInv'
<1>0. /\ text' \in Contents /\ left' \subseteq Page /\ stage' = "toc" /\ verdict' = "none"
      /\ UNCHANGED <<cand, failed, judged, noop>>
  BY TextTypes DEF GroupInv, SelectTranslation, Contents, Toc
<1>1. GroupShape'
  BY <1>0 DEF GroupInv, GroupShape, Stage
<1>2. DocInv' /\ CostInv' /\ BranchInv' /\ ResumeInv' /\ HolesAreResumable'
  BY <1>0 DEF GroupInv, DocInv, CostInv, BranchInv, ResumeInv, HolesAreResumable
<1> QED
  BY <1>1, <1>2 DEF GroupInv

LEMMA IdleRests == ASSUME GroupInv, stage = "idle" PROVE doc = NoPage /\ calls = 0 /\ tries = 0
BY DEF GroupInv, DocInv

LEMMA StartKeeps ==
  ASSUME GroupInv, Translate \/ ResumeDirection \/ Verify
  PROVE  GroupInv'
<1>0. stage = "idle" /\ UNCHANGED <<planVars, docVars, calls>> /\ job' \in Nat
  BY DEF Translate, ResumeDirection, Verify, StartJob, GroupInv, GroupShape
<1>1. doc = NoPage
  BY <1>0, IdleRests
<1>2. CASE Translate
  <2>1. recovery' = Closed /\ mode' = "translate" /\ branch' = base /\ SelectTranslation
    BY <1>2 DEF Translate, StartJob
  <2>2. Closed \in Recovery /\ ~Closed.target /\ base \in Contents
    BY DEF Closed, Recovery, GroupInv, GroupShape
  <2> QED
    BY <1>0, <1>1, <2>1, <2>2, SelectKeeps DEF Mode
<1>3. CASE ResumeDirection
  <2>1. UNCHANGED <<gitVars, recovery>> /\ mode' = "continue" /\ SelectTranslation /\ recovery.stage = "direction"
    BY <1>3 DEF ResumeDirection, StartJob
  <2>2. branch \in Contents /\ recovery \in Recovery /\ ~recovery.target
    BY <2>1 DEF GroupInv, GroupShape, ResumeInv
  <2> QED
    BY <1>0, <1>1, <2>1, <2>2, SelectKeeps DEF Mode
<1>4. CASE Verify
  <2>1. /\ cand' = branch /\ stage' = "validate" /\ verdict' = "none" /\ mode' = "verify"
        /\ UNCHANGED <<gitVars, recovery, left, text, failed, judged, noop>>
    BY <1>4 DEF Verify, StartJob
  <2>2. GroupShape'
    BY <1>0, <2>1 DEF GroupInv, GroupShape, Mode, Stage
  <2>3. DocInv' /\ CostInv' /\ BranchInv' /\ ResumeInv' /\ HolesAreResumable'
    BY <1>0, <1>1, <2>1, IdleRests DEF GroupInv, DocInv, CostInv, BranchInv, ResumeInv, HolesAreResumable
  <2> QED
    BY <2>2, <2>3 DEF GroupInv
<1> QED
  BY <1>2, <1>3, <1>4

LEMMA ResumeKeeps == ASSUME GroupInv, ResumeReview PROVE GroupInv'
<1>0. stage = "idle" /\ doc = NoPage /\ calls = 0 /\ tries = 0 /\ UNCHANGED <<planVars, docVars, gitVars, calls>>
  BY IdleRests DEF ResumeReview, StartJob
<1>1. job' \in Nat /\ mode' = "continue" /\ recovery.stage = "review"
  BY DEF ResumeReview, StartJob, GroupInv, GroupShape
<1>2. CASE ~ReplayAdmitted
  <2>1. End("failed") /\ UNCHANGED recovery
    BY <1>2 DEF ResumeReview, Abort
  <2>2. GroupShape'
    BY <1>0, <1>1, <2>1 DEF GroupInv, GroupShape, End, Empty, Unjudged, Contents, Nothing, Stage, Judgement, Mode
  <2>3. DocInv' /\ CostInv' /\ BranchInv' /\ ResumeInv' /\ HolesAreResumable'
    BY <1>0, <1>1, <2>1 DEF GroupInv, DocInv, CostInv, BranchInv, ResumeInv, HolesAreResumable, End
  <2> QED
    BY <2>2, <2>3 DEF GroupInv
<1>3. CASE ReplayAdmitted
  <2>1. /\ text' = Replayed /\ left' = Wanted /\ stage' = "documents" /\ verdict' = "none"
        /\ UNCHANGED <<recovery, cand, failed, judged, noop>>
    BY <1>3 DEF ResumeReview
  <2>2. Accepted \in Contents /\ Replayed \in Contents
    BY TextTypes DEF GroupInv, GroupShape, Accepted, Replayed, FixedToc, Contents
  <2>3. Wanted \subseteq Page
    BY Kinds DEF GroupInv, GroupShape, Wanted, Recovery
  <2>4. recovery.target =>
          left' \subseteq recovery.pending /\ \A p \in Document \ recovery.pending : text'[p] = branch[p]
    <3> SUFFICES ASSUME recovery.target
                 PROVE  left' \subseteq recovery.pending /\ \A p \in Document \ recovery.pending : text'[p] = branch[p]
      OBVIOUS
    <3>1. left' = recovery.pending
      BY <2>1 DEF Wanted
    <3>2. ASSUME NEW p \in Document \ recovery.pending PROVE text'[p] = branch[p]
      <4>1. p \in Page /\ p \notin Toc /\ p \notin Dropped
        BY Kinds
      <4>2. Accepted[p] = branch[p]
        BY <4>1 DEF Accepted
      <4> QED
        BY <2>1, <4>1, <4>2 DEF Replayed
    <3> QED
      BY <3>1, <3>2
  <2>5. GroupShape'
    BY <1>0, <1>1, <2>1, <2>2, <2>3 DEF GroupInv, GroupShape, Stage, Mode
  <2>6. DocInv' /\ CostInv' /\ BranchInv' /\ HolesAreResumable'
    BY <1>0, <2>1 DEF GroupInv, DocInv, CostInv, BranchInv, HolesAreResumable
  <2>7. ResumeInv'
    BY <1>0, <2>1, <2>4 DEF GroupInv, ResumeInv
  <2> QED
    BY <2>5, <2>6, <2>7 DEF GroupInv
<1> QED
  BY <1>2, <1>3

LEMMA PickKeeps == ASSUME GroupInv, Pick PROVE GroupInv'
<1>0. /\ stage \in {"toc", "documents"} /\ doc = NoPage /\ left # {} /\ left \subseteq Page
      /\ doc' \in left /\ step' \in FirstStep(way[doc'])
      /\ hunks' = IF way[doc'] = "hunks" THEN MaxHunks ELSE 0
      /\ UNCHANGED <<planVars, gitVars, recovery, jobVars, stage, left, tries, text, cand, failed, calls, judgeVars>>
  BY DEF Pick, GroupInv, GroupShape
<1>1. MaxHunks \in Nat \ {0} /\ NoPage \notin Page
  BY GroupAssumption
<1>2. calls = 0 /\ tries = 0
  BY <1>0 DEF GroupInv, DocInv
<1>3. step' \in Step /\ (step' \in HunkStep => way[doc'] = "hunks")
  BY <1>0 DEF FirstStep, HunkStep, Step
<1>4. GroupShape'
  BY <1>0, <1>1, <1>3 DEF GroupInv, GroupShape
<1>5. DocInv' /\ BranchInv' /\ ResumeInv' /\ HolesAreResumable'
  BY <1>0, <1>1 DEF GroupInv, DocInv, BranchInv, ResumeInv, HolesAreResumable, Publishable
<1>6. CostInv'
  BY <1>0, <1>1, <1>2, <1>3 DEF CostInv, HunkStep
<1> QED
  BY <1>4, <1>5, <1>6 DEF GroupInv

LEMMA EnterKeeps == ASSUME GroupInv, EnterDocuments PROVE GroupInv'
<1>0. /\ stage = "toc" /\ doc = NoPage /\ stage' = "documents" /\ left' = Document
      /\ UNCHANGED <<planVars, gitVars, recovery, jobVars, docVars, text, cand, failed, calls, judgeVars>>
  BY DEF EnterDocuments, InGroup, Keep
<1>1. GroupShape'
  BY <1>0, Kinds DEF GroupInv, GroupShape, Stage
<1>2. DocInv' /\ CostInv' /\ BranchInv' /\ ResumeInv' /\ HolesAreResumable'
  BY <1>0 DEF GroupInv, DocInv, CostInv, BranchInv, ResumeInv, HolesAreResumable
<1> QED
  BY <1>1, <1>2 DEF GroupInv

LEMMA AssembleKeeps == ASSUME GroupInv, Assemble PROVE GroupInv'
<1>0. /\ stage = "documents" /\ doc = NoPage /\ stage' = "gate" /\ text' = Empty
      /\ cand' = [p \in Page |-> IF p \in Dropped THEN Nothing ELSE text[p]]
      /\ left' = {p \in Page : cand'[p] # Nothing}
      /\ UNCHANGED <<planVars, gitVars, recovery, jobVars, docVars, failed, calls, judgeVars>>
  BY DEF Assemble, InGroup, Keep
<1>1. cand' \in Contents /\ text' \in Contents
  BY <1>0 DEF GroupInv, GroupShape, Contents, Empty, Nothing
<1>2. GroupShape'
  BY <1>0, <1>1 DEF GroupInv, GroupShape, Stage
<1>3. DocInv' /\ CostInv' /\ BranchInv' /\ HolesAreResumable'
  BY <1>0 DEF GroupInv, DocInv, CostInv, BranchInv, HolesAreResumable
<1>4. ResumeInv'
  <2>1. \A p \in Document : cand'[p] = text[p]
    BY <1>0, Kinds
  <2> QED
    BY <1>0, <2>1 DEF GroupInv, ResumeInv
<1> QED
  BY <1>2, <1>3, <1>4 DEF GroupInv

LEMMA GateKeeps == ASSUME GroupInv, NEW q \in Page, Gate(q) PROVE GroupInv'
<1>0. /\ stage = "gate" /\ stage' = "gate" /\ left' = left \ {q} /\ doc = NoPage
      /\ cand' = IF Unresolved(q) THEN [cand EXCEPT ![q] = Nothing] ELSE cand
      /\ UNCHANGED <<planVars, gitVars, recovery, jobVars, docVars, text, failed, calls, judgeVars>>
  BY DEF Gate, Keep, GroupInv, DocInv
<1>1. cand' \in Contents /\ \A p \in Page : cand'[p] \in {cand[p], Nothing}
  BY <1>0 DEF GroupInv, GroupShape, Contents, Nothing
<1>2. GroupShape'
  BY <1>0, <1>1 DEF GroupInv, GroupShape
<1>3. DocInv' /\ CostInv' /\ BranchInv' /\ HolesAreResumable'
  BY <1>0 DEF GroupInv, DocInv, CostInv, BranchInv, HolesAreResumable
<1>4. ResumeInv'
  <2>1. \A p \in Document : cand'[p] \in {cand[p], Nothing}
    BY <1>1, Kinds
  <2> QED
    BY <1>0, <2>1 DEF GroupInv, ResumeInv
<1> QED
  BY <1>2, <1>3, <1>4 DEF GroupInv

LEMMA CheckKeeps == ASSUME GroupInv, GateDone \/ Validate PROVE GroupInv'
<1>0. /\ stage \in {"gate", "validate"} /\ doc = NoPage
      /\ UNCHANGED <<planVars, gitVars, jobVars, docVars, calls>>
  BY DEF GateDone, Validate, InGroup
<1>1. \/ Abort
      \/ End("unneeded") /\ UNCHANGED recovery
      \/ /\ stage' = "validate" \/ stage' = IF mode = "translate" THEN "publish" ELSE "review"
         /\ UNCHANGED <<left, text, cand, recovery, failed, judgeVars>>
  BY DEF GateDone, Validate, Keep
<1>2. CASE Abort
  BY <1>0, <1>2, AbortKeeps
<1>3. CASE End("unneeded") /\ UNCHANGED recovery
  <2>1. recovery \in Recovery /\ (recovery.stage = "direction" => ~recovery.target) /\ HolesAreResumable'
    BY <1>0, <1>3 DEF GroupInv, GroupShape, ResumeInv, HolesAreResumable
  <2> QED
    BY <1>0, <1>3, <2>1, EndKeeps
<1>4. CASE /\ stage' = "validate" \/ stage' = IF mode = "translate" THEN "publish" ELSE "review"
           /\ UNCHANGED <<left, text, cand, recovery, failed, judgeVars>>
  <2>1. GroupShape'
    BY <1>0, <1>4 DEF GroupInv, GroupShape, Stage
  <2>2. DocInv' /\ CostInv' /\ BranchInv' /\ ResumeInv' /\ HolesAreResumable'
    BY <1>0, <1>4 DEF GroupInv, DocInv, CostInv, BranchInv, ResumeInv, HolesAreResumable
  <2> QED
    BY <2>1, <2>2 DEF GroupInv
<1> QED
  BY <1>1, <1>2, <1>3, <1>4

(* A publication leaves on the branch every page it has a text for, and no *)
(* page of the group is erased for want of one.                            *)
LEMMA Published ==
  ASSUME GroupInv, Publish
  PROVE  /\ branch' \in Contents
         /\ \A p \in Publishable : branch'[p] = cand[p]
         /\ \A p \in Page \ Dropped : branch[p] # Nothing => branch'[p] # Nothing
         /\ \A p \in Page : branch'[p] \in {branch[p], cand[p]}
<1>0. branch' = [p \in Page |-> IF p \in Changed THEN cand[p] ELSE branch[p]]
  BY DEF Publish
<1>1. Publishable \subseteq Page /\ \A p \in Publishable : p \in Changed <=> cand[p] # branch[p]
  BY DEF Publishable, Changed
<1>2. \A p \in Page \ Dropped : p \in Changed => cand[p] # Nothing
  BY DEF Publishable, Changed
<1>3. branch' \in Contents
  BY <1>0 DEF GroupInv, GroupShape, Contents
<1> QED
  BY <1>0, <1>1, <1>2, <1>3

LEMMA PublishKeeps == ASSUME GroupInv, Publish PROVE GroupInv'
<1>0. /\ stage = "publish" /\ doc = NoPage /\ noop' \in BOOLEAN
      /\ stage' = IF mode = "translate" THEN "review" ELSE "conclude"
      /\ UNCHANGED <<planVars, recovery, jobVars, left, docVars, text, cand, failed, calls, judged, verdict>>
  BY DEF Publish
<1>1. GroupShape'
  BY <1>0, Published DEF GroupInv, GroupShape, Stage
<1>2. DocInv' /\ CostInv' /\ ResumeInv'
  BY <1>0 DEF GroupInv, DocInv, CostInv, ResumeInv
<1>3. BranchInv'
  <2>1. \A p \in Publishable' : branch'[p] = cand'[p]
    BY <1>0, Published DEF Publishable
  <2>2. stage' = "conclude" => \A p \in Reviewable : cand'[p] # Nothing => judged'[p] \in {"GREEN", "YELLOW", "RED"}
    BY <1>0 DEF GroupInv, BranchInv
  <2>3. stage' # "publish"
    BY <1>0
  <2> QED
    BY <2>1, <2>2, <2>3 DEF BranchInv
<1>4. HolesAreResumable'
  <2>1. \A p \in Document : p \in Page \ Dropped
    BY Kinds
  <2> QED
    BY <1>0, <2>1, Published DEF GroupInv, HolesAreResumable
<1> QED
  BY <1>1, <1>2, <1>3, <1>4 DEF GroupInv

LEMMA ReviewKeeps == ASSUME GroupInv, Review PROVE GroupInv'
<1>0. /\ stage = "review" /\ doc = NoPage
      /\ stage' = IF mode = "translate" THEN "conclude" ELSE "publish"
      /\ UNCHANGED <<planVars, gitVars, jobVars, docVars, calls, recovery, left, text, cand, failed, noop, verdict>>
  BY DEF Review, InGroup
<1>1. PICK answer \in Answers :
        judged' = [p \in Page |-> IF p \in DOMAIN answer THEN answer[p] ELSE "none"]
  BY DEF Review
<1>2. DOMAIN answer = Reviewable \ Missing /\ \A p \in Reviewable \ Missing : answer[p] \in {"GREEN", "YELLOW", "RED"}
  BY DEF Answers
<1>3. judged' \in [Page -> Judgement]
  BY <1>1, <1>2 DEF Judgement
<1>4. \A p \in Reviewable : cand[p] # Nothing => judged'[p] \in {"GREEN", "YELLOW", "RED"}
  BY <1>1, <1>2 DEF Missing, Reviewable
<1>5. GroupShape'
  BY <1>0, <1>3 DEF GroupInv, GroupShape, Stage
<1>6. DocInv' /\ CostInv' /\ ResumeInv' /\ HolesAreResumable'
  BY <1>0 DEF GroupInv, DocInv, CostInv, ResumeInv, HolesAreResumable
<1>7. BranchInv'
  <2>1. stage' = "conclude" => \A p \in Publishable' : branch'[p] = cand'[p]
    BY <1>0 DEF GroupInv, BranchInv, Publishable
  <2> QED
    BY <1>0, <1>4, <2>1 DEF BranchInv
<1> QED
  BY <1>5, <1>6, <1>7 DEF GroupInv

LEMMA ConcludeKeeps == ASSUME GroupInv, Conclude PROVE GroupInv'
<1>0. /\ stage = "conclude" /\ doc = NoPage /\ UNCHANGED <<planVars, gitVars, jobVars, docVars, calls>>
  BY DEF Conclude, InGroup
<1>1. Pending \subseteq Document /\ Findings \subseteq Page /\ Pending \subseteq Findings
  BY Kinds DEF Pending, Findings, Missing, Judged, Reviewable
<1>2. \A p \in Document \ Pending : branch[p] # Nothing
  <2>1. \A p \in Document \ Pending : p \in Publishable /\ cand[p] # Nothing
    BY Kinds DEF Pending, Publishable
  <2> QED
    BY <1>0, <2>1 DEF GroupInv, BranchInv
<1>3. \A S \in SUBSET Page : Capture(S) \in Recovery /\ Capture(S).stage = "review"
  <2>1. noop \in BOOLEAN /\ recovery.target \in BOOLEAN
    BY DEF GroupInv, GroupShape, Recovery
  <2> QED
    BY <1>1, <2>1, Kinds DEF Capture, Recovery
<1>4. ASSUME Idle, End("RED"), NEW marker \in Page, recovery' = Capture({marker}) PROVE GroupInv'
  <2>1. ~recovery'.target
    BY <1>4 DEF Idle, Capture
  <2>2. HolesAreResumable'
    BY <2>1 DEF HolesAreResumable
  <2>3. {marker} \in SUBSET Page
    OBVIOUS
  <2> QED
    BY <1>0, <1>3, <1>4, <2>1, <2>2, <2>3, EndKeeps
<1>5. ASSUME End(Worst), recovery' = Capture(Findings) PROVE GroupInv'
  <2>1. recovery'.pending = Pending /\ recovery'.review = Findings
    BY <1>5 DEF Capture
  <2>2. HolesAreResumable'
    BY <1>0, <1>1, <1>2, <2>1 DEF HolesAreResumable
  <2> QED
    BY <1>0, <1>1, <1>3, <1>5, <2>2, EndKeeps
<1>6. ASSUME End(Worst), recovery' = Closed PROVE GroupInv'
  <2>1. Closed \in Recovery /\ HolesAreResumable' /\ ~recovery'.target
    BY <1>6 DEF Closed, Recovery, HolesAreResumable
  <2> QED
    BY <1>0, <1>6, <2>1, EndKeeps
<1> QED
  BY <1>4, <1>5, <1>6 DEF Conclude

LEMMA StopKeeps == ASSUME GroupInv, StopUndecided PROVE GroupInv'
<1>0. /\ End("undecided") /\ recovery' = Undecided /\ doc = NoPage
      /\ UNCHANGED <<planVars, gitVars, jobVars, docVars, calls>>
  BY DEF StopUndecided
<1>1. Undecided \in Recovery /\ ~Undecided.target
  BY DEF Undecided, Closed, Recovery
<1>2. HolesAreResumable'
  BY <1>0, <1>1 DEF HolesAreResumable
<1> QED
  BY <1>0, <1>1, <1>2, EndKeeps

LEMMA RemoveKeeps == ASSUME GroupInv, NEW q \in Page, Remove(q) PROVE GroupInv'
<1>0. /\ stage = "idle" /\ recovery' = Closed /\ branch' = [branch EXCEPT ![q] = Nothing]
      /\ UNCHANGED <<planVars, opened, jobVars, stage, left, docVars, text, cand, failed, calls, judgeVars>>
  BY DEF Remove
<1>1. branch' \in Contents /\ Closed \in Recovery
  BY <1>0 DEF GroupInv, GroupShape, Contents, Nothing, Closed, Recovery
<1>2. GroupShape'
  BY <1>0, <1>1 DEF GroupInv, GroupShape
<1>3. DocInv' /\ CostInv' /\ BranchInv' /\ ResumeInv' /\ HolesAreResumable'
  BY <1>0 DEF GroupInv, DocInv, CostInv, BranchInv, ResumeInv, HolesAreResumable, Closed
<1> QED
  BY <1>2, <1>3 DEF GroupInv

-----------------------------------------------------------------------------
LEMMA NextCases ==
  ASSUME Next
  PROVE  \/ Translate \/ ResumeDirection \/ Verify \/ ResumeReview \/ (\E p \in Page : Remove(p))
         \/ Translating \/ Pick \/ EnterDocuments \/ Assemble \/ (\E p \in Page : Gate(p))
         \/ GateDone \/ Validate \/ Publish \/ Review \/ Conclude \/ StopUndecided
BY DEF Next, JobStep, Translating

LEMMA GroupStep == ASSUME GroupInv, [Next]_vars PROVE GroupInv'
<1>1. CASE Translate \/ ResumeDirection \/ Verify
  BY <1>1, StartKeeps
<1>2. CASE ResumeReview
  BY <1>2, ResumeKeeps
<1>3. CASE \E p \in Page : Remove(p) \/ Gate(p)
  BY <1>3, RemoveKeeps, GateKeeps
<1>4. CASE Translating
  <2>1. GroupShape
    BY DEF GroupInv
  <2> QED
    BY <1>4, <2>1, AnswerTurns, TurnKept
<1>5. CASE Pick \/ EnterDocuments \/ Assemble
  BY <1>5, PickKeeps, EnterKeeps, AssembleKeeps
<1>6. CASE GateDone \/ Validate \/ Publish
  BY <1>6, CheckKeeps, PublishKeeps
<1>7. CASE Review \/ Conclude \/ StopUndecided
  BY <1>7, ReviewKeeps, ConcludeKeeps, StopKeeps
<1>8. CASE UNCHANGED vars
  BY <1>8 DEF vars, GroupInv, GroupShape, DocInv, CostInv, BranchInv, ResumeInv, HolesAreResumable, Publishable
<1> QED
  BY <1>1, <1>2, <1>3, <1>4, <1>5, <1>6, <1>7, <1>8, NextCases

(* What a checkpoint, the text of a job, the branch and the bill of a page *)
(* have in common at each stage of a job.                                  *)
THEOREM GroupInvariant == Spec => []GroupInv
BY GroupInit, GroupStep, PTL DEF Spec

(* Only a publication changes the branch at its stage, and only the end of *)
(* the review gives a verdict.                                             *)
LEMMA StageSteps ==
  ASSUME GroupInv, Next, stage \in {"publish", "conclude"}
  PROVE  (stage = "publish" /\ Publish) \/ (stage = "conclude" /\ Conclude)
<1>1. ~Translating /\ doc = NoPage
  <2>1. doc = NoPage
    BY DEF GroupInv, DocInv
  <2> QED
    BY <2>1, AnswerTurns DEF InDocument, GroupInv
<1>2. ~(Translate \/ ResumeDirection \/ Verify \/ ResumeReview \/ Pick \/ EnterDocuments \/ Assemble
        \/ GateDone \/ Validate \/ Review \/ StopUndecided \/ \E p \in Page : Remove(p) \/ Gate(p))
  BY DEF Translate, ResumeDirection, Verify, ResumeReview, StartJob, Pick, EnterDocuments, Assemble, GateDone,
         Validate, Review, StopUndecided, Remove, Gate
<1>3. (Publish => stage = "publish") /\ (Conclude => stage = "conclude")
  BY DEF Publish, Conclude
<1> QED
  BY <1>1, <1>2, <1>3, NextCases

LEMMA GoodStep ==
  ASSUME GroupInv, [Next]_vars, stage = "conclude", verdict' \in {"GREEN", "YELLOW"}, NEW p \in Reviewable
  PROVE  branch[p] # Nothing /\ branch[p] = cand[p] /\ judged[p] \in {"GREEN", "YELLOW"}
<1>1. verdict = "none"
  BY DEF GroupInv, DocInv
<1>2. Conclude
  BY <1>1, StageSteps DEF vars
<1>3. verdict' = Worst
  BY <1>2 DEF Conclude, End
<1>4. Missing \cup Judged({"RED"}) = {}
  BY <1>3 DEF Worst
<1>5. p \in Page /\ cand[p] # Nothing /\ judged[p] # "RED"
  BY <1>4 DEF Missing, Judged, Reviewable
<1>6. branch[p] = cand[p]
  BY <1>5 DEF GroupInv, BranchInv, Publishable
<1>7. judged[p] \in {"GREEN", "YELLOW", "RED"}
  BY <1>5 DEF GroupInv, BranchInv
<1> QED
  BY <1>5, <1>6, <1>7

LEMMA PublishStep ==
  ASSUME GroupInv, [Next]_vars, stage = "publish"
  PROVE  /\ \A p \in Page \ Dropped : branch[p] # Nothing => branch'[p] # Nothing
         /\ mode = "continue" /\ recovery.target =>
              \A p \in Document \ recovery.pending : branch'[p] = branch[p]
<1>1. CASE UNCHANGED vars
  BY <1>1 DEF vars
<1>2. CASE Publish
  <2>1. ASSUME mode = "continue", recovery.target, NEW p \in Document \ recovery.pending
        PROVE  branch'[p] = branch[p]
    <3>1. cand[p] \in {branch[p], Nothing}
      BY <2>1 DEF GroupInv, ResumeInv
    <3>2. p \in Page \ Dropped
      BY Kinds
    <3> QED
      BY <1>2, <3>1, <3>2, Published DEF Publishable, Publish, Changed
  <2> QED
    BY <1>2, <2>1, Published
<1> QED
  BY <1>1, <1>2, StageSteps

LEMMA CostBounds == GroupInv => CallsBounded
<1> SUFFICES ASSUME GroupInv, doc # NoPage
             PROVE  calls < IF way[doc] = "hunks" THEN 2 * MaxHunks + 2 ELSE 2
  BY DEF CallsBounded
<1>1. MaxHunks \in Nat \ {0} /\ calls \in Nat /\ tries \in {0, 1} /\ step \in Step
  BY GroupAssumption DEF GroupInv, GroupShape
<1>2. CASE step \in HunkStep
  BY <1>1, <1>2 DEF GroupInv, CostInv
<1>3. CASE step = "thin"
  BY <1>1, <1>3 DEF GroupInv, CostInv
<1>4. CASE step \in {"toc", "partial", "none"}
  BY <1>1, <1>4 DEF GroupInv, CostInv
<1> QED
  BY <1>1, <1>2, <1>3, <1>4 DEF Step, HunkStep

(* For any set of pages, however they are translated, and any number of    *)
(* jobs: what a checkpoint does not name is on the branch, a good verdict  *)
(* is about every page, nothing is erased or translated again that was     *)
(* accepted, and the calls for a page are bounded.                         *)
THEOREM GroupKept == Spec => GroupIsKept
<1>1. GroupInv => HolesAreResumable /\ CallsBounded
  BY CostBounds DEF GroupInv
<1> DEFINE Good == stage = "conclude" /\ verdict' \in {"GREEN", "YELLOW"} =>
                     \A p \in Reviewable : branch[p] # Nothing /\ branch[p] = cand[p]
                                           /\ judged[p] \in {"GREEN", "YELLOW"}
           Kept == \A p \in Page \ Dropped : stage = "publish" /\ branch[p] # Nothing => branch'[p] # Nothing
           Safe == stage = "publish" /\ mode = "continue" /\ recovery.target =>
                     \A p \in Document \ recovery.pending : branch'[p] = branch[p]
<1>2. GroupInv /\ [Next]_vars => Good
  BY GoodStep
<1>3. GroupInv /\ [Next]_vars => Kept /\ Safe
  BY PublishStep
<1>4. Spec => [](HolesAreResumable /\ CallsBounded)
  BY <1>1, GroupInvariant, PTL
<1>5. Spec => GoodIsWhole
  BY <1>2, GroupInvariant, PTL DEF Spec, GoodIsWhole
<1>6. Spec => NothingErased
  BY <1>3, GroupInvariant, PTL DEF Spec, NothingErased
<1>7. Spec => AcceptedSurvives
  BY <1>3, GroupInvariant, PTL DEF Spec, AcceptedSurvives
<1> QED
  BY <1>4, <1>5, <1>6, <1>7, PTL DEF GroupIsKept

-----------------------------------------------------------------------------
(* The bounds of the state: no text is newer than the job, and a job has   *)
(* its number.                                                             *)
LEMMA ContentBounds ==
  /\ Nothing \in Content /\ Base \in Content /\ Draft \in Content
  /\ \A n \in 0..MaxJobs : Text(n) \in Content
BY GroupAssumption DEF Content, Nothing, Base, Draft, Text

LEMMA EmptyText == Empty \in [Page -> Content]
BY ContentBounds DEF Empty

LEMMA EndTyped ==
  ASSUME NEW v \in Verdict, End(v)
  PROVE  /\ stage' \in Stage /\ verdict' \in Verdict /\ left' \subseteq Page /\ failed' \subseteq Page
         /\ text' \in [Page -> Content] /\ cand' \in [Page -> Content]
         /\ judged' \in [Page -> Judgement] /\ noop' \in BOOLEAN
BY EmptyText DEF End, Unjudged, Judgement, Stage

LEMMA GroupInitTyped == Init => TypeOK
<1> SUFFICES ASSUME Init PROVE TypeOK
  OBVIOUS
<1>1. base \in [Page -> Content]
  BY ContentBounds DEF Init
<1>2. recovery \in Recovery
  BY DEF Init, Closed, Recovery
<1>3. 0 \in 0..MaxJobs /\ 0 \in 0..MaxHunks /\ 0 \in 0..1 /\ 0 \in Nat
  BY GroupAssumption
<1>4. way \in [Page -> Way]
  BY DEF Init
<1>5. judged \in [Page -> Judgement]
  BY DEF Init, Judgement
<1>6. "translate" \in Mode /\ "idle" \in Stage /\ "none" \in Step /\ "none" \in Verdict
  BY DEF Mode, Stage, Step, Verdict
<1>7. /\ branch = base /\ opened = FALSE /\ job = 0 /\ mode = "translate" /\ stage = "idle" /\ left = {}
      /\ doc = NoPage /\ step = "none" /\ tries = 0 /\ hunks = 0 /\ calls = 0
      /\ text = Empty /\ cand = Empty /\ failed = {} /\ noop = FALSE /\ verdict = "none"
  BY DEF Init
<1> QED
  BY <1>1, <1>2, <1>3, <1>4, <1>5, <1>6, <1>7, EmptyText, Zenon DEF TypeOK

LEMMA StartTyped ==
  ASSUME TypeOK, Translate \/ ResumeDirection \/ Verify \/ ResumeReview
  PROVE  TypeOK'
<1>1. ASSUME NEW m \in Mode, StartJob(m)
      PROVE  job' \in 0..MaxJobs /\ mode' \in Mode /\ UNCHANGED <<planVars, docVars, calls>>
  BY <1>1, GroupAssumption DEF StartJob, TypeOK
<1>2. SelectTranslation => /\ text' \in [Page -> Content] /\ left' \subseteq Page
                           /\ stage' \in Stage /\ verdict' \in Verdict
                           /\ UNCHANGED <<cand, failed, judged, noop>>
  BY ContentBounds, GroupAssumption DEF SelectTranslation, Toc, Stage, Verdict
<1>3. "translate" \in Mode /\ "continue" \in Mode /\ "verify" \in Mode
  BY DEF Mode
<1>4. CASE Translate
  <2>1. recovery' \in Recovery
    BY <1>4 DEF Translate, Closed, Recovery
  <2> QED
    BY <1>1, <1>2, <1>3, <1>4, <2>1 DEF Translate, TypeOK
<1>5. CASE ResumeDirection
  BY <1>1, <1>2, <1>3, <1>5 DEF ResumeDirection, TypeOK
<1>6. CASE Verify
  BY <1>1, <1>3, <1>6 DEF Verify, TypeOK, Stage, Verdict
<1>7. CASE ResumeReview
  <2>0. StartJob("continue") /\ UNCHANGED gitVars
    BY <1>7 DEF ResumeReview
  <2>1. CASE ReplayAdmitted
    <3>1. Accepted \in [Page -> Content]
      BY ContentBounds DEF Accepted, TypeOK
    <3>2. Replayed \in [Page -> Content]
      BY <3>1, ContentBounds, GroupAssumption DEF Replayed, FixedToc
    <3>3. Wanted \subseteq Page
      BY DEF Wanted, Document, TypeOK, Recovery
    <3>4. /\ text' = Replayed /\ left' = Wanted /\ stage' = "documents" /\ verdict' = "none"
          /\ UNCHANGED <<recovery, cand, failed, judged, noop>>
      BY <1>7, <2>1 DEF ResumeReview
    <3> QED
      BY <1>1, <1>3, <2>0, <3>2, <3>3, <3>4 DEF TypeOK, Stage, Verdict
  <2>2. CASE ~ReplayAdmitted
    <3>1. Abort
      BY <1>7, <2>2 DEF ResumeReview
    <3>2. "failed" \in Verdict
      BY DEF Verdict
    <3> QED
      BY <1>1, <1>3, <2>0, <3>1, <3>2, EndTyped DEF Abort, TypeOK
  <2> QED
    BY <2>1, <2>2
<1> QED
  BY <1>4, <1>5, <1>6, <1>7

(* What an answer writes is a text of this job, or was computed.           *)
LEMMA AnswerTyped ==
  ASSUME TypeOK, GroupInv, Translating
  PROVE  TypeOK'
<1>0. /\ UNCHANGED <<planVars, gitVars, recovery, jobVars, stage, cand, judgeVars>> /\ doc \in Page
      /\ Turn
  BY AnswerTurns DEF InDocument, GroupInv, TypeOK
<1>1. GroupShape'
  BY AnswerTurns, TurnShape DEF GroupInv
<1>2. Base \in Content /\ Text(0) \in Content /\ Text(job) \in Content
  BY ContentBounds, GroupAssumption DEF TypeOK
<1>3. (\E c \in Content : Accept(c)) \/ GiveUp \/ Retry \/ FallBack \/ (hunks # 1 /\ step \in HunkStep /\ NextHunk)
  BY <1>2 DEF Translating, Deterministic, TocAnswered, PartialAnswered, ThinAnswered, Attempt,
              ReplaceAnswered, InsertAnswered, Patched, HunkStep, NextHunk
<1>4. text' \in [Page -> Content] /\ failed' \subseteq Page
  <2>1. ASSUME NEW c \in Content, Accept(c) PROVE text' \in [Page -> Content] /\ failed' = failed
    BY <2>1 DEF Accept, TypeOK
  <2>2. CASE GiveUp
    BY <1>0, <2>2 DEF GiveUp, TypeOK
  <2>3. CASE Retry \/ FallBack \/ (hunks # 1 /\ NextHunk)
    BY <2>3 DEF Retry, FallBack, NextHunk, Again, TypeOK
  <2> QED
    BY <1>3, <2>1, <2>2, <2>3 DEF TypeOK
<1>5. hunks' \in 0..MaxHunks
  <2>1. CASE hunks' \in {hunks, 0}
    BY <2>1, GroupAssumption DEF TypeOK
  <2>2. CASE hunks # 1 /\ step \in HunkStep /\ NextHunk
    BY <1>1, <2>2, GroupAssumption DEF NextHunk, TypeOK, GroupShape
  <2>3. Retry \/ FallBack \/ GiveUp \/ (\E c \in Content : Accept(c)) => hunks' \in {hunks, 0}
    BY DEF Retry, FallBack, GiveUp, Accept, Leave, Again
  <2> QED
    BY <1>3, <2>1, <2>2, <2>3
<1> QED
  BY <1>0, <1>1, <1>4, <1>5 DEF TypeOK, GroupShape

LEMMA GroupWorkTyped ==
  ASSUME TypeOK, GroupInv, GroupInv',
         Pick \/ EnterDocuments \/ Assemble \/ (\E p \in Page : Remove(p) \/ Gate(p)) \/ Publish \/ Review
  PROVE  TypeOK'
<1>0. GroupShape'
  BY DEF GroupInv
<1>1. CASE Pick
  <2>1. hunks' \in 0..MaxHunks
    BY <1>1, GroupAssumption DEF Pick
  <2> QED
    BY <1>0, <1>1, <2>1 DEF Pick, TypeOK, GroupShape
<1>2. CASE EnterDocuments
  BY <1>0, <1>2 DEF EnterDocuments, InGroup, Keep, TypeOK, GroupShape
<1>3. CASE Assemble
  <2>1. cand' \in [Page -> Content] /\ text' \in [Page -> Content]
    BY <1>3, ContentBounds, EmptyText DEF Assemble, TypeOK
  <2> QED
    BY <1>0, <1>3, <2>1 DEF Assemble, InGroup, Keep, TypeOK, GroupShape
<1>4. ASSUME NEW p \in Page, Remove(p) PROVE TypeOK'
  <2>1. branch' \in [Page -> Content]
    BY <1>4, ContentBounds DEF Remove, TypeOK
  <2> QED
    BY <1>0, <1>4, <2>1 DEF Remove, TypeOK, GroupShape
<1>5. ASSUME NEW p \in Page, Gate(p) PROVE TypeOK'
  <2>1. cand' \in [Page -> Content]
    BY <1>5, ContentBounds DEF Gate, TypeOK
  <2> QED
    BY <1>0, <1>5, <2>1 DEF Gate, Keep, TypeOK, GroupShape
<1>6. CASE Publish
  <2>1. branch' \in [Page -> Content] /\ opened' \in BOOLEAN
    BY <1>6 DEF Publish, TypeOK
  <2> QED
    BY <1>0, <1>6, <2>1 DEF Publish, TypeOK, GroupShape
<1>7. CASE Review
  BY <1>0, <1>7 DEF Review, InGroup, TypeOK, GroupShape
<1> QED
  BY <1>1, <1>2, <1>3, <1>4, <1>5, <1>6, <1>7

LEMMA GroupEndTyped ==
  ASSUME TypeOK, GroupInv, GroupInv', GateDone \/ Validate \/ Conclude \/ StopUndecided
  PROVE  TypeOK'
<1>0. GroupShape' /\ {"failed", "unneeded", "RED", "undecided", Worst} \subseteq Verdict
  BY DEF GroupInv, Verdict, Worst
<1>1. UNCHANGED <<planVars, gitVars, jobVars, docVars, calls>>
  BY DEF GateDone, Validate, Conclude, StopUndecided, InGroup
<1>2. (\E v \in Verdict : End(v)) \/ (UNCHANGED <<left, text, cand>> /\ Keep)
  BY <1>0 DEF GateDone, Validate, Conclude, StopUndecided, Abort
<1> QED
  BY <1>0, <1>1, <1>2, EndTyped DEF Keep, TypeOK, GroupShape

(* Every state is well formed: in particular no text is newer than the     *)
(* last job, and no page has more hunks to go than it was cut into.        *)
THEOREM GroupTyped == Spec => []TypeOK
<1>1. TypeOK /\ GroupInv /\ GroupInv' /\ [Next]_vars => TypeOK'
  <2> SUFFICES ASSUME TypeOK, GroupInv, GroupInv', [Next]_vars PROVE TypeOK'
    OBVIOUS
  <2>1. CASE UNCHANGED vars
    BY <2>1 DEF vars, TypeOK
  <2>2. CASE Next
    BY <2>2, NextCases, StartTyped, AnswerTyped, GroupWorkTyped, GroupEndTyped
  <2> QED
    BY <2>1, <2>2
<1> QED
  BY <1>1, GroupInitTyped, GroupInvariant, PTL DEF Spec
=============================================================================
