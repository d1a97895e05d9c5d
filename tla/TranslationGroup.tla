--------------------------- MODULE TranslationGroup ---------------------------
(***************************************************************************)
(* The target files of one source pull request on their way through        *)
(* runtime_content.py: each is translated, the group is assembled, gated,  *)
(* published and reviewed, and what is missing or refused is captured in a *)
(* checkpoint from which a continuation rebuilds the group.                *)
(*                                                                         *)
(* Jobs run one after another here (Workflows.tla interleaves them).  What *)
(* a model answers is nondeterminism; a text is known by the job that      *)
(* wrote it, so that a second translation differs from the first.          *)
(***************************************************************************)
EXTENDS Integers, FiniteSets

CONSTANTS
  Page,      \* target paths of the translation plan
  Kind,      \* [Page -> PageKind]
  Ways,      \* [Page -> SUBSET Way]: how each may turn out to be translated
  Include,   \* pairs <<p, q>>: page p has {% include %} of page q
  MaxHunks,  \* hunks of a surgical update
  MaxJobs

(* A page is translated, moved and translated, a TOC, or planned to go.    *)
PageKind == {"page", "moved", "toc", "dropped"}

(* "same" and "unique" need no model; "new" has no target to start from.   *)
Way == {"partial", "same", "unique", "hunks", "new", "strings", "structure", "delete"}

NoPage == "no page"

ASSUME GroupAssumption ==
  /\ IsFiniteSet(Page) /\ NoPage \notin Page
  /\ Kind \in [Page -> PageKind]
  /\ Ways \in [Page -> SUBSET Way]
  /\ Include \subseteq Page \X Page
  /\ MaxHunks \in Nat \ {0} /\ MaxJobs \in Nat

(* What a path holds: nothing (JSON null), the text of the base, a TOC     *)
(* whose new strings are still in the source language, or a translation:   *)
(* Text(0) is computed, Text(n) was written by a model for job n.          *)
Nothing == 0
Base    == 1
Draft   == 2
Text(n) == 3 + n
Content == Nothing .. Text(MaxJobs)

Document == {p \in Page : Kind[p] \in {"page", "moved"}}
Toc      == {p \in Page : Kind[p] = "toc"}
Dropped  == {p \in Page : Kind[p] = "dropped"}

VARIABLES
  way,       \* [Page -> Way]
  base,      \* [Page -> Content]: the pinned base
  branch,    \* [Page -> Content]: head of the translation branch
  opened,    \* has a commit been pushed to it?
  recovery,  \* the open checkpoint
  job,       \* number of the current or last job
  mode,      \* its mode
  stage,     \* where it is
  left,      \* pages still to translate, or to pass the gate
  doc,       \* the page being translated, and
  step,      \*   by which strategy,
  tries,     \*   with how many answers refused,
  hunks,     \*   with how many hunks to go
  text,      \* [Page -> Content]: accepted so far
  cand,      \* [Page -> Content]: the assembled candidate
  failed,    \* pages whose translation failed in this job
  calls,     \* model calls spent on that page
  judged,    \* [Page -> Judgement]: answers of the arbiter
  noop,      \* did the publication change nothing?
  verdict    \* of the last job

docVars  == <<doc, step, tries, hunks>>
planVars == <<way, base>>
gitVars  == <<branch, opened>>
jobVars  == <<job, mode>>
judgeVars == <<judged, noop, verdict>>
vars == <<planVars, gitVars, recovery, jobVars, stage, left, docVars, text, cand,
          failed, calls, judgeVars>>

Mode  == {"translate", "continue", "verify"}
Stage == {"idle", "toc", "documents", "gate", "validate", "publish", "review", "conclude"}
Step  == {"none", "toc", "partial", "replace", "insert", "thin"}
Judgement == {"none", "GREEN", "YELLOW", "RED"}
Verdict == {"none", "GREEN", "YELLOW", "RED", "unneeded", "undecided", "failed"}
Recovery == [stage : {"closed", "direction", "review"}, target : BOOLEAN,
             pending : SUBSET Page, review : SUBSET Page]

Closed    == [stage |-> "closed", target |-> FALSE, pending |-> {}, review |-> {}]
Undecided == [Closed EXCEPT !.stage = "direction"]
Empty     == [p \in Page |-> Nothing]

TypeOK ==
  /\ way \in [Page -> Way] /\ base \in [Page -> Content] /\ branch \in [Page -> Content]
  /\ opened \in BOOLEAN /\ recovery \in Recovery
  /\ job \in 0..MaxJobs /\ mode \in Mode /\ stage \in Stage
  /\ left \subseteq Page /\ doc \in Page \cup {NoPage} /\ step \in Step
  /\ tries \in 0..1 /\ hunks \in 0..MaxHunks
  /\ text \in [Page -> Content] /\ cand \in [Page -> Content]
  /\ failed \subseteq Page /\ calls \in Nat
  /\ judged \in [Page -> Judgement] /\ noop \in BOOLEAN /\ verdict \in Verdict

(* A strategy that edits a target needs one; a moved page edits the target *)
(* it is moved from, and its own path is new.                              *)
InBase(p, w) ==
  CASE w \in {"partial", "same", "unique", "hunks"} ->
         IF Kind[p] = "moved" THEN {Nothing} ELSE {Base}
    [] w = "new" -> {Nothing}
    [] OTHER     -> {Nothing, Base}

Init ==
  /\ way \in [Page -> Way] /\ \A p \in Page : way[p] \in Ways[p]
  /\ base \in [Page -> {Nothing, Base}] /\ \A p \in Page : base[p] \in InBase(p, way[p])
  /\ branch = base /\ opened = FALSE /\ recovery = Closed
  /\ job = 0 /\ mode = "translate" /\ stage = "idle" /\ left = {}
  /\ doc = NoPage /\ step = "none" /\ tries = 0 /\ hunks = 0
  /\ text = Empty /\ cand = Empty /\ failed = {} /\ calls = 0
  /\ judged = [p \in Page |-> "none"] /\ noop = FALSE /\ verdict = "none"

-----------------------------------------------------------------------------
(* The end of a job.  A job that raises leaves the checkpoint as it was.   *)
Unjudged == [p \in Page |-> "none"]

End(v) ==
  /\ stage' = "idle" /\ verdict' = v /\ left' = {} /\ text' = Empty /\ cand' = Empty
  /\ judged' = Unjudged /\ noop' = FALSE /\ failed' = {}

Abort == End("failed") /\ UNCHANGED recovery

StartJob(m) ==
  /\ stage = "idle" /\ job < MaxJobs
  /\ job' = job + 1 /\ mode' = m
  /\ UNCHANGED <<planVars, docVars, calls>>

(* select_source for a translation: a TOC whose delta brings new strings   *)
(* asks the model for them, any other is computed.                         *)
Computed(p) == Kind[p] = "toc" /\ way[p] = "structure"

SelectTranslation ==
  /\ text' = [p \in Page |-> IF Computed(p) THEN Text(0) ELSE Nothing]
  /\ left' = {p \in Toc : ~Computed(p)} /\ stage' = "toc" /\ verdict' = "none"
  /\ UNCHANGED <<cand, failed, judged, noop>>

(* doc_translate drops the translation branch and what could be resumed.   *)
Translate ==
  /\ StartJob("translate") /\ SelectTranslation
  /\ branch' = base /\ opened' = FALSE /\ recovery' = Closed

(* No direction could be told from the changes: the operator must say.     *)
StopUndecided ==
  /\ stage = "toc" /\ mode = "translate" /\ doc = NoPage
  /\ left = {p \in Toc : ~Computed(p)} /\ failed = {}
  /\ recovery' = Undecided /\ End("undecided")
  /\ UNCHANGED <<planVars, gitVars, jobVars, docVars, calls>>

(* replay_continue: what the branch holds is accepted, pending pages apart. *)
Accepted ==
  [p \in Page |-> IF recovery.target /\ p \notin recovery.pending \cup Dropped
                  THEN branch[p] ELSE Nothing]

(* The replay computes the TOCs again and asks for no strings.             *)
FixedToc(p) == IF Computed(p) THEN Text(0) ELSE Draft

Replayed ==
  [p \in Page |-> IF p \in Toc /\ Accepted[p] = Nothing THEN FixedToc(p) ELSE Accepted[p]]

ReplayAdmitted ==
  recovery.target =>
    \A p \in Document \ recovery.pending : Accepted[p] = Nothing => p \in recovery.review

(* prepare_continuation: pages a REVIEW checkpoint has translated again.   *)
WantedAgain == Document                               \* faulty
Wanted ==
  IF recovery.target THEN recovery.pending
  ELSE IF recovery.review \cap Document # {} THEN recovery.review \cap Document
  ELSE Document

ResumeDirection ==
  /\ recovery.stage = "direction"
  /\ StartJob("continue") /\ SelectTranslation
  /\ UNCHANGED <<gitVars, recovery>>

ResumeReview ==
  /\ recovery.stage = "review"
  /\ StartJob("continue")
  /\ IF ReplayAdmitted
     THEN /\ text' = Replayed /\ left' = Wanted /\ stage' = "documents" /\ verdict' = "none"
          /\ UNCHANGED <<recovery, cand, failed, judged, noop>>
     ELSE Abort
  /\ UNCHANGED gitVars

(* load_verification_candidate: the files of the translation branch.       *)
Verify ==
  /\ opened /\ StartJob("verify")
  /\ cand' = branch /\ stage' = "validate" /\ verdict' = "none"
  /\ UNCHANGED <<gitVars, recovery, left, text, failed, judged, noop>>

(* A maintainer takes a file off the translation branch: the checkpoint    *)
(* names an older head and can no longer be continued.                     *)
Remove(p) ==
  /\ stage = "idle" /\ opened /\ job < MaxJobs /\ p \notin Dropped /\ branch[p] # Nothing
  /\ branch' = [branch EXCEPT ![p] = Nothing] /\ recovery' = Closed
  /\ UNCHANGED <<planVars, opened, jobVars, stage, left, docVars, text, cand, failed, calls, judgeVars>>

-----------------------------------------------------------------------------
(* Translating one page: _translate_document and _translate_toc_strings.   *)
InDocument == /\ doc # NoPage
              /\ UNCHANGED <<planVars, gitVars, recovery, jobVars, stage, cand, judgeVars>>

Leave == calls' = 0 /\ left' = left \ {doc} /\ doc' = NoPage /\ step' = "none" /\ tries' = 0 /\ hunks' = 0

Accept(c) == text' = [text EXCEPT ![doc] = c] /\ failed' = failed /\ Leave
GiveUp    == failed' = failed \cup {doc} /\ text' = text /\ Leave
Again     == calls' = calls + 1 /\ UNCHANGED <<left, doc, text, failed>>
RetryTwice == tries < 2 /\ tries' = tries + 1 /\ Again /\ UNCHANGED <<step, hunks>>   \* faulty
RetryStuck == tries' = 1 /\ calls < 9 /\ Again /\ UNCHANGED <<step, hunks>>            \* faulty
Retry     == tries = 0 /\ tries' = 1 /\ Again /\ UNCHANGED <<step, hunks>>

HunkStep == {"replace", "insert"}
FirstStep(w) ==
  CASE w = "strings" -> {"toc"}
    [] w = "partial" -> {"partial"}
    [] w = "hunks"   -> HunkStep
    [] w = "new"     -> {"thin"}
    [] OTHER         -> {"none"}

(* One page after the other, in the order of the plan.                     *)
Pick ==
  /\ stage \in {"toc", "documents"} /\ doc = NoPage /\ left # {}
  /\ doc' = CHOOSE p \in left : TRUE
  /\ step' \in FirstStep(way[doc'])
  /\ hunks' = IF way[doc'] = "hunks" THEN MaxHunks ELSE 0
  /\ UNCHANGED <<planVars, gitVars, recovery, jobVars, stage, left, tries, text, cand,
                 failed, calls, judgeVars>>

(* The gates of the publication refuse a patched page for good.            *)
Patched(c) == Accept(c) \/ GiveUp

(* The source says the target is right, or names the very bytes to change. *)
Deterministic ==
  /\ InDocument /\ step = "none"
  /\ Patched(IF way[doc] = "same" THEN Base ELSE Text(0))

(* One answer of a strategy that asks twice and then leaves a hole; the    *)
(* evidence of a partial update may be too large to ask at all.            *)
Attempt(s) ==
  /\ InDocument /\ step = s
  /\ \/ Accept(Text(job))
     \/ Retry
     \/ (tries = 1 \/ s = "partial") /\ GiveUp

TocAnswered     == Attempt("toc")
PartialAnswered == Attempt("partial")
ThinAnswered    == Attempt("thin")

NextHunk ==
  IF hunks = 1 THEN Patched(Text(job))
  ELSE /\ hunks' = hunks - 1 /\ step' \in HunkStep /\ tries' = 0 /\ Again

(* One hunk that cannot be had sends the whole page to the thin path.      *)
FallBackRestarts ==                                   \* faulty: the hunks begin again
  step' \in HunkStep /\ tries' = 0 /\ hunks' = MaxHunks /\ calls' = 1 /\ UNCHANGED <<left, doc, text, failed>>
FallBack == step' = "thin" /\ tries' = 0 /\ hunks' = 0 /\ Again

(* A hunk that replaces text: a refused answer is asked for once more, a   *)
(* failed call, a second refusal or a failed reassembly ends the hunks.    *)
ReplaceAnswered ==
  /\ InDocument /\ step = "replace"
  /\ NextHunk \/ Retry \/ FallBack

(* A hunk that only inserts is a small page of its own.                    *)
InsertAnswered ==
  /\ InDocument /\ step = "insert"
  /\ NextHunk \/ Retry \/ (tries = 1 /\ FallBack)

-----------------------------------------------------------------------------
(* The group: assemble_documents, validate_candidate, publish.             *)
InGroup == doc = NoPage /\ left = {} /\ UNCHANGED <<planVars, gitVars, jobVars, docVars, calls>>
Keep == UNCHANGED <<recovery, failed, judgeVars>>

EnterDocuments ==
  /\ stage = "toc" /\ InGroup
  /\ stage' = "documents" /\ left' = Document
  /\ UNCHANGED <<text, cand>> /\ Keep

Assemble ==
  /\ stage = "documents" /\ InGroup
  /\ cand' = [p \in Page |-> IF p \in Dropped THEN Nothing ELSE text[p]] /\ text' = Empty
  /\ left' = {p \in Page : cand'[p] # Nothing} /\ stage' = "gate"
  /\ Keep

(* The include gate passes over the files once, in the order of a set.     *)
Unresolved(p) == \E q \in Page : <<p, q>> \in Include /\ cand[q] = Nothing

Gate(p) ==
  /\ stage = "gate" /\ p \in left
  /\ left' = left \ {p}
  /\ cand' = IF Unresolved(p) THEN [cand EXCEPT ![p] = Nothing] ELSE cand
  /\ UNCHANGED <<planVars, gitVars, jobVars, stage, docVars, text, calls>> /\ Keep

(* A continuation with nothing to translate must meet the branch exactly.  *)
Rebuilt == mode = "continue" /\ recovery.target /\ recovery.pending = {}

GateDone ==
  /\ stage = "gate" /\ InGroup
  /\ IF Rebuilt /\ cand # branch
     THEN Abort
     ELSE stage' = "validate" /\ UNCHANGED <<left, text, cand>> /\ Keep

(* publication_plan: nulls stay out of Git, planned deletes apart.         *)
Everything  == Page                                  \* faulty: a hole is a deletion
Publishable == {p \in Page : cand[p] # Nothing \/ p \in Dropped}
Changed == {p \in Publishable : cand[p] # branch[p]}

(* reconcile_candidate_outputs                                             *)
Reconciled ==
  \A p \in Page : (Kind[p] = "moved" => cand[p] # Nothing) /\ (p \in Dropped => cand[p] = Nothing)

(* translation_already_satisfied: no null in the candidate, nothing to do. *)
Satisfied == mode = "translate" /\ Changed = {} /\ \A p \in Page : cand[p] # Nothing

Validate ==
  /\ stage = "validate" /\ InGroup
  /\ CASE ~Reconciled -> Abort
       [] Reconciled /\ Satisfied -> End("unneeded") /\ UNCHANGED recovery
       [] OTHER       -> /\ stage' = IF mode = "translate" THEN "publish" ELSE "review"
                         /\ UNCHANGED <<left, text, cand>> /\ Keep

Publish ==
  /\ stage = "publish" /\ doc = NoPage
  /\ branch' = [p \in Page |-> IF p \in Changed THEN cand[p] ELSE branch[p]]
  /\ opened' = (opened \/ Changed # {}) /\ noop' = (Changed = {})
  /\ stage' = IF mode = "translate" THEN "review" ELSE "conclude"
  /\ UNCHANGED <<planVars, recovery, jobVars, left, docVars, text, cand, failed, calls,
                 judged, verdict>>

-----------------------------------------------------------------------------
(* review_pr: the arbiter judges every pair that has a target.             *)
Reviewable == Page \ Dropped
Missing    == {p \in Reviewable : cand[p] = Nothing}
Answers    == [Reviewable \ Missing -> {"GREEN", "YELLOW", "RED"}]

(* RED is also what becomes of a pair the arbiter could not judge: the     *)
(* call failed, the answer broke its contract, or the pair is too large.   *)
Review ==
  /\ stage = "review" /\ InGroup
  /\ \E answer \in Answers :
       judged' = [p \in Page |-> IF p \in DOMAIN answer THEN answer[p] ELSE "none"]
  /\ stage' = IF mode = "translate" THEN "conclude" ELSE "publish"
  /\ UNCHANGED <<recovery, left, text, cand, failed, noop, verdict>>

Judged(answers) == {p \in Page : judged[p] \in answers}
Findings == Missing \cup Judged({"YELLOW", "RED"})
WorstJudged ==                                       \* faulty: holes are forgotten
  IF Judged({"RED"}) # {} THEN "RED" ELSE IF Judged({"YELLOW"}) # {} THEN "YELLOW" ELSE "GREEN"
Worst ==
  IF Missing \cup Judged({"RED"}) # {} THEN "RED"
  ELSE IF Judged({"YELLOW"}) # {} THEN "YELLOW" ELSE "GREEN"

(* A translation that has committed nothing cannot be anything but RED.    *)
Idle == mode = "translate" /\ noop /\ Worst # "RED"

(* review_checkpoint: what a continuation starts from.                     *)
PendingFailed == Document \cap failed                \* faulty: the gate is forgotten
Pending == {p \in Document : cand[p] = Nothing}
Capture(found) ==
  [stage |-> "review", pending |-> Pending, review |-> found,
   target |-> IF ~noop \/ mode = "verify" THEN TRUE
              ELSE mode = "continue" /\ recovery.target]

Conclude ==
  /\ stage = "conclude" /\ InGroup
  /\ \/ Idle /\ End("RED") /\ \E marker \in Page : recovery' = Capture({marker})
     \/ ~Idle /\ End(Worst) /\ recovery' = IF Worst = "RED" THEN Capture(Findings) ELSE Closed

JobStep ==
  \/ StopUndecided \/ Deterministic
  \/ TocAnswered \/ PartialAnswered \/ ThinAnswered \/ ReplaceAnswered \/ InsertAnswered
  \/ EnterDocuments \/ Assemble \/ GateDone \/ Validate \/ Publish \/ Review \/ Conclude
  \/ Pick \/ \E p \in Page : Gate(p)

Next ==
  \/ Translate \/ ResumeDirection \/ ResumeReview \/ Verify
  \/ \E p \in Page : Remove(p)
  \/ JobStep

Spec == Init /\ [][Next]_vars

(* A job runs on while its runner does; nobody is obliged to start one.    *)
FairSpec == Spec /\ WF_vars(JobStep)

-----------------------------------------------------------------------------
(* A good verdict covers the whole group: every file the pull request must *)
(* have is on the branch, and the arbiter saw those very bytes.            *)
GoodIsWhole ==
  [][stage = "conclude" /\ verdict' \in {"GREEN", "YELLOW"} =>
       \A p \in Reviewable : branch[p] # Nothing /\ branch[p] = cand[p]
                             /\ judged[p] \in {"GREEN", "YELLOW"}]_vars

(* No hole is lost: of a checkpoint with a branch, every document that is  *)
(* not to be translated again is on the branch, and every other is named   *)
(* in the report too.                                                      *)
HolesAreResumable ==
  recovery.stage = "review" /\ recovery.target =>
    /\ \A p \in Document \ recovery.pending : branch[p] # Nothing
    /\ recovery.pending \subseteq recovery.review

(* A null is "not assembled", never a deletion: only a planned delete or a *)
(* maintainer takes a file away.                                           *)
NothingErased ==
  [][\A p \in Page \ Dropped : stage = "publish" /\ branch[p] # Nothing => branch'[p] # Nothing]_vars

(* A continuation from a branch rewrites only what was pending or is a TOC: *)
(* the reader's page that was accepted is not translated again.            *)
AcceptedSurvives ==
  [][stage = "publish" /\ mode = "continue" /\ recovery.target =>
       \A p \in Document \ recovery.pending : branch'[p] = branch[p]]_vars

(* The bill of a page is bounded whatever the model answers: two calls,    *)
(* and two more for each hunk tried before the page is taken whole.        *)
CallsBounded ==
  doc # NoPage => calls < IF way[doc] = "hunks" THEN 2 * MaxHunks + 2 ELSE 2

(* The promise of a group that is translated over several jobs: what is    *)
(* missing can be resumed, what is there is neither erased nor translated  *)
(* again, a good verdict is about all of it, and no page costs without end. *)
GroupIsKept ==
  [](HolesAreResumable /\ CallsBounded) /\ GoodIsWhole /\ NothingErased /\ AcceptedSurvives

=============================================================================
