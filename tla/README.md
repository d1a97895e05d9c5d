# ydbdoc-review-ng in TLA+

ydbdoc-review-ng keeps the Russian and English documentation of YDB in step. It is a set of
Python programs that GitHub Actions start on pull requests; they talk to GitHub, to YDB (where
they keep their audit) and to paid language models. Nothing of it stays in memory between two
runs, so whatever must hold across runs is held by tables in YDB and by Git references, written
by processes that may be cancelled, repeated or lost at any line. That is what this project is about.

Paths below are relative to the repository; `ng/` stands for `src/ydbdoc_review_ng/`.

## 1. Inventory

### The system and how its parts interact

There are two programs.

* The **documentation policy review** (`ng/policy_review/`, launched by `scripts/run_policy_review.py` from
  `examples/ydbdoc-policy-review.yml`) reviews a pull request against a policy with at most two paid model
  calls. A workflow run passes a *gate*, waits in a concurrency group, *prepares* (debounce, snapshot,
  claim) and starts a *worker* in a container; a second workflow, the *finalizer*, runs after every
  completed run and gives back what a dead run left. All of them call the same store.
* The **translation workflows** (`ng/application/workflows.py`, entered from `ng/cli.py` and wired in
  `ng/runtime.py`): `doc_translate` writes a translation branch and its pull request, `doc_verify`
  reviews one, and `doc_continue` resumes a job that stopped because a human decision is needed or
  because the review was RED. They meet in the tables `jobs` and `continuations`, and in the head of the
  translation branch.

| component | source | state | operations | interacts with |
|---|---|---|---|---|
| review ledger | `policy_review/store.py`, `docs/doc-review-schema.sql` | five tables: approvals, claims, leases, runs (with their reports), attempts | approve, queue, claim, configure, reserve, settle, finish, recover | every process of a review run; queries retried by the YDB SDK |
| review run | `commands.py`, `runtime.py`, `admission.py`, `debounce.py`, launcher script | stages of the processes; GitHub's head, draft flag and labels | gate, prepare, launch, guard, call, settle, report, recover, finalize | ledger, GitHub, concurrency group, container |
| review budget | `budget.py`, `model.py`, `engine.py` | spent, pending, unknown, stopped; the attempts table | reserve, settle, stop_reason, invoke | ledger, model client |
| review publication | `github.py` | one check run, one comment | publish, supersede | GitHub |
| review snapshot, formal rules | `formal.py`, `policy.py`, `types.py` | none | pure functions | engine |
| translation workflows | `application/workflows.py`, `runtime.py`, `runtime_continue.py` | stage of a job, pinned snapshot, publication context | translate, verify, continue, handoff, abandon, fail | job store, GitHub, content |
| job and continuation store | `persistence/ydb.py`, `continuation.py` | tables jobs, attempts, continuations | start, bind, finish, save, activate, consume, close, load | workflows |
| publication, Git references | `publication.py`, `runtime_github.py` | a branch head, a pull request | commit, push, ensure_pr | workflows, content (chunk commits) |
| content orchestration | `runtime_content.py` | per-job caches and accepted maps | prepare, review, correct, capture | workflows, all below |
| quality | `quality/` | tool-loop turns, workspace, repair rounds | review, repair, tools | model clients |
| model clients | `models/` | recorded costs, retries | invoke | providers, attempts table |
| translation of a document | `translation/` | batches, accepted fields | translate, assemble, gate | model clients, parser |
| scope, direction, plan | `scope.py`, `direction.py`, `plan.py`, `pair_classification.py`, `translation_plan.py`, `toc_delta.py`, `dependencies.py` | none | pure decisions over pairs of files | content |
| parser, locales, links, terminology | `parser/`, `locales.py`, `links.py`, `terminology.py`, `diplodoc.py` | none | pure functions of text | all |
| provenance, reports | `provenance.py`, `reporting.py` | markers, one QA comment | render, update | workflows |
| repository, metadata, assets, CLI, configuration | remaining modules of `ng/` | none | I/O behind ports | all |

`PROJECT.json` lists each with its status; the prototype `pr_translation_smoke/`, images and CI files are listed
there too and not modelled.

### What is hard here

* **Interleavings.** Runs of one pull request overlap (the old one is cancelled, not stopped); two jobs may
  be admitted to one checkpoint; a maintainer pushes while a job publishes.
* **Lost answers.** The SDK repeats a query that had committed; a write commits and its answer is lost;
  a model call may be billed although no answer came.
* **Crashes.** A runner vanishes between any two calls; its container may live on; the finalizer or the next
  job finds what is left.
* **Stale reads.** The head, labels and lease are read long before they are used; `push` reads the head
  and then writes it; `recover` reads two tables in two transactions.
* **Partial failure.** One page of a group, one part of a pair, one hunk of a page or one string of a table of contents fails, and the
  job goes on with what it has: a hole must be neither published as a deletion nor forgotten.
* **Models.** An answer may be anything: too long, filtered, without the pieces that must stay, about another direction. What is asked again,
  how often, and at whose cost is code.
* **Documents that moved apart.** A change of the source is carried over to a target page or table of contents which differs from the source in more than language.
* **Boundaries.** Spending at the limit, bills above their estimate, prices that are missing, counts of a group beside counts of its scope.

What makes each component correct:

* ledger: one paid review per pull request; an unpriced attempt is never unlocked; settled is final;
* review run: no call forgotten, none paid for an unapproved head, at most one after the head was replaced,
  duplicates harmless, leases and tickets come back;
* budget: billed within the limit; a reported cost is the bill;
* job and continuation store, workflows: one success per checkpoint, a closed lineage stays closed, a stop
  stays resumable until it is resolved, no lineage outlives its fourteen days, the audit of every job closes;
* publication and reports: only the head that was seen is replaced; one report, the newest one, and a check run for it;
* content of a job: a good verdict means the whole group, a hole is resumable, nothing is erased for want of a translation, accepted pages stay;
* clients: at most two calls for a question, four for a translation, every call recorded, the reported cost is the bill;
* scope and direction: exactly the pages the links reach, limits before models, every change judged once, failure is no licence to translate;
* a page, a table of contents: new text arrives, what the pull request left alone stays, every protected piece is kept once, and in its place as far as an answer is Markdown;
* critic: what was patched is read before it is accepted, a failed session leaves nothing.

`PROJECT.json` "hazards" lists these at their lines with the properties that would catch them.

## 2. Modules

| module | models | extends / instantiates |
|---|---|---|
| `PaidLease` | the abstract promise of the review ledger: a pull request is lent to one owner, who spends and settles before it is lent again | |
| `ReviewStore` | every query of the review store that writes | instance of `PaidLease` with a refinement mapping |
| `PolicyReview` | the processes of review runs over `ReviewStore`, and GitHub | `ReviewStore` |
| `RunBudget` | the money of one worker | |
| `CheckpointStore` | jobs and continuations, with the lookup of the resumable checkpoint | |
| `Lineage` | the abstract promise of the checkpoints: staged by a job that stops, opened as its recorded end, taken by one continuation after another until one succeeds | |
| `Workflows` | translate, verify and continue jobs over `CheckpointStore`, and the translation branch | `CheckpointStore`; instance of `Lineage` with a refinement mapping |
| `ReviewPublication` | check run and comment of a review, by launchers and finalizers | |
| `ReportComments` | every comment the translation jobs list, post or rewrite | |
| `TranslationScope` | what a translation covers: discovery, links, groups, limits, decisions, plan | |
| `PairClassification` | the judgement of one pair of articles, in parts | |
| `TranslationGroup` | the pages of one job from translation to verdict and through its continuation | |
| `ModelCalls` | the paid calls of the translation jobs and their records | |
| `SurgicalUpdate` | the change of an article carried over to its target line by line | |
| `DocumentResponse` | one hunk before its translator: tokens, acceptance, restoration | |
| `TocDelta` | the change of a table of contents carried over to its target | |
| `CriticToolLoop` | the tool session of the critic over its workspace | |
| `ReviewStoreProofs`, `PolicyReviewProofs`, `WorkflowsProofs`, `RunBudgetProofs`, `TranslationGroupProofs` | theorems | their component and `TLAPS` |
| `SelectionProofs` | theorems | `PairClassification`, `TranslationScope`, facts about finite sets and `TLAPS` |
| `ConversationProofs` | theorems | `ModelCalls`, `CriticToolLoop` and `TLAPS` |
| `CommentProofs` | theorems | `ReportComments`, `ReviewPublication` and `TLAPS` |
| `MCReviewStore`, `MCPolicyReview`, `MCWorkflows` | small instances | their component |
| `MCReviews` | three stories of two review runs | `PolicyReview` |
| `MCContent` | four scenes of a translation job | `TranslationGroup`, `ModelCalls`, `TranslationScope`, `PairClassification` |
| `MCParts` | seven parts that keep to themselves | `ReportComments`, `ReviewPublication`, `RunBudget`, `CriticToolLoop`; instances of `TocDelta`, `SurgicalUpdate`, `DocumentResponse` |

Operators marked *faulty* are the operator next to them with a plausible bug. No specification uses one; the mutants
of `PROJECT.json` substitute them to show that each property can fail.

### ReviewStore and PaidLease

A YQL query of the store runs in one serializable transaction, so it is one operator (`Queue`, `ClaimLease`, `Reserve`, `Settle`,
`Finish`, ...), written from its `UPSERT`s and the `SELECT` that decides *accepted*. The operator is
total: a refused query leaves the tables alone, as the code's `WHERE $accepted` does. `StoreSpec` lets every
owner issue every query at any time, which contains all retries, repetitions and late calls. `PaidLease` sees
only the holder of each pull request and the attempts that are unpriced; `ReviewStore` implements it.

### PolicyReview

One owner is one workflow run attempt. `host[o]` is the stage of the job (gate, preparation, launcher, publisher),
`worker[o]` that of its container, `recovery[o]` that of the publisher's or the finalizer's recovery. Every store call
has three outcomes: *answered*, *lost* (committed, and the caller gets an exception or, after an SDK repeat, an
`accepted = false`) and *failed*. `Interrupt` is the SIGTERM of a cancelled run, `Vanish` a lost runner; `Orphans` are the owners whose container may survive it.
`EnterGroup` and `DropPending` are GitHub's concurrency group: a new run signals the one at work and
replaces the one waiting. GitHub's part, `Push`, `Toggle`, `Deliver`, is external, written from how
`admission.py` and the workflow files use it. A push always makes a head that was not there before; a force-push back to an earlier one is outside the model. Left out: report text and token counts; publication is a module of its own.

### RunBudget

`spent`, `pending`, `unknown` and `stopped` are the fields of `RunBudget` (`budget.py`), `ledger` is the attempts table as its audit
callback writes it, `bill` what the provider charges. An audit write fails before or after it took effect. Money is in natural units:
the code computes with `Decimal`, and only sums and comparisons matter.

### CheckpointStore and Workflows

`CheckpointStore` is `jobs` and `continuations` of one source pull request. `continuation_id` is the job that
produced the row, so rows are indexed by job; `created_at` is the job whose start gave it (`root`), and `expired` the jobs older
than fourteen days. `Lookup` is `load_checkpoint` with `_resolve_consumed`: from open rows along consumer and successor,
refusing whatever is ambiguous; `FoundBySource` and `FoundByHead` are its two callers.

In `Workflows` a job is a sequential program; `pc[j]` names the call it makes next and every query and every request about the branch
is a step. `OnError` is the exception structure: where an exception leads from each call. The publication context (`expected`, `current`,
`pushed`) is kept as in `publication.py`, because the force flag of a push is computed from it. Decisions of models and
validators are nondeterminism: a job may be refused, may stop for want of a decision, may push chunk commits, may end RED or GREEN.

Abstractions, all of them deliberate:

* the several `SELECT`s of one `load_checkpoint` are one read. A job that starts between them changes rows the lookup
  checks again (`Admit`, `ConsumeCheck`), and the check-then-act of consumption and activation is split;
* one translation branch and at most one open pull request for it, closed when the branch is deleted, as GitHub does;
* columns equal in every row of a lineage (source and base SHA, inventory and scope digests) and the refusals for their
  mismatch are left out, as is the stage *translation* of a continuation, which no code path produces;
* a SHA of the base branch as the target of an ended job is recorded as none: the lookup compares targets with branch heads only;
* a checkpoint expires only when its job has ended (a job has a 6-hour limit, a checkpoint 14 days);
* labels, comments and permissions of `doc_continue` are a refusal at `load`;
* building the row of a checkpoint (`capture.record`, `ng/application/workflows.py:728`) touches nothing outside the job and is taken to succeed. An exception of it after a review would end the job as failed (712);
  raised from a stop, in an `except` clause (495, 711), it would leave the job without a terminal audit, as a lost runner does. `AuditCloses` does not cover that.

### ReviewPublication and ReportComments

A step is one request to GitHub; the client repeats a GET and never a mutation, so a write is *answered*, *lost* or *failed* and not sent again.
In `ReviewPublication` a publisher is the launcher or the finalizer of a run: it asks for the head, posts the check run, lists the comments,
asks for the head again and writes. In `ReportComments` a job goes through `QAReporter.update_current_pr`: find the translation pull request,
write the report there, then rewrite what it left on the source pull request, group by group (links, links of older builds, a report); or it writes a notice and does nothing else. A *blind*
listing is one that could not read who the publisher is and so recognises none of its comments. The properties
count what overlapping publications and blind listings may cause (`overlaps` and `blind` of the reports, `meetings` and `guesses` of the review) and say that nothing
else causes it.

### TranslationScope and PairClassification

A page has a file in each locale. `TranslationScope` is `prepare_source` and `_select_pairs`: for each direction the changed pages get an
operation, the links of the translated ones are followed to pages whose counterpart is missing, the needs are spread over the edges, the groups measured
against the limits; the pairs are judged (a nondeterministic decision here), and the scope of each chosen direction is built
again, planned and merged; a verification has its direction and takes the prepared scope (`Frozen`). `PairClassification` is that decision for one pair: the changes of both locales in one request, cut in two as long as it is too
long, each part asked at most twice, the parts put together and doubt, but not failure, decided for Russian.

### TranslationGroup and ModelCalls

`TranslationGroup` follows the target files of one source pull request: every strategy of a page (partial, surgical without a model, hunks, whole page, TOC
strings) with its calls and refusals; assembly, the include gate, reconciliation with the plan, publication, review, verdict, the capture of a
checkpoint and its replay by a continuation. `text`, `cand` and `branch` say which job wrote what a path holds; null is a hole. Jobs run one after another;
their interleaving is `Workflows`. A call there is an invocation, which is what `CallsBounded` counts. `ModelCalls` is what an invocation becomes: the calls of the client, their recording, its own
repetition with a lowered output cap, and around it the second attempt of the caller. Who asks decides about that one: the classifier of direction asks again after a failure or a text
it cannot parse, and its client never does; the translators of a thin page, of the labels of a TOC and of a bilingual update repeat a failed invocation and an unusable text
(`ng/runtime_content.py:2278-2311`, `2547-2583`, `ng/translation/partial.py:135-168`); that of a hunk only an unusable text (`2413-2420`); the arbiter nothing. A job has its mode: a verification asks no translator, and only a translation is
held to the daily limit.

### SurgicalUpdate, DocumentResponse, TocDelta

A line of an article is its prose and its anchor; a target line is known by the line it stands for. `SurgicalUpdate` is the
planner (`plan_surgical_update`) with its modes, the translation of the hunks and the splice. `DocumentResponse` is one hunk: protected pieces leave the text as
numbered tokens, and the answer is judged by `validate_chunk_response` (`Fits`: same tokens, same order, same places) with the bitmask recurrence written as
a recursive function and compared with its declarative meaning (`Grouped`). How much is looked at depends on the form of the answer, because the caller lets `structure_mismatch` by
(`ng/runtime_content.py:2443-2461`): of a JSON object nothing (`ng/translation/document.py:966`), of a text the Markdown parser fails on all but the places (`1000`); the restoration asks the same
again and counts the tokens in any case (`1088-1111`). A map of segments, which an older build asked for, is refused. `TocDelta` is `apply_toc_delta` for two levels, deletions, renames, moves,
additions and the scaffold of a missing table. Each of these three starts from every input of a bounded set. The operators were compared with the
Python functions on thousands of such inputs and gave the same results.

### CriticToolLoop

The session of `CriticToolLoop` over `CriticWorkspace`: reads, patches with their offsets and the ranges to be read again, finish, a second session
after a breach. The present wiring gives the critic no chunks (`quality/repair.py:416-424`), so this code is kept and tested there but not reached by a job.

## 3. Runs

All runs finish below four minutes on two cores. Bounds are constants, not hidden constraints, and `MaxFaults`, `MaxCommits` and `MaxJobs`
appear in guards. `CHECK_DEADLOCK FALSE` is set where every process ends; `ledger` checks deadlock. `reviews`, `content` and `parts` hold several *scenes*: the initial state
chooses one, what belongs to the others rests, and the state spaces add up instead of multiplying.
In `content` and `parts` the promise of a module is one property, the conjunction of the named parts that the table lists; each part has a mutant of its own.

| run | instance | what it shows |
|---|---|---|
| `ledger` | 1 pull request, 3 owners (two with one request), 2 attempts | all safety properties of the ledger, and that it implements `PaidLease` |
| `reviews` | a push that replaces the head, the container of either run may survive it; 2 runs of one request with 2 faults; an outsider's ok-to-test and doc_review with 1 fault | `OneCallInFlight`, `AtMostOneLateCall`; types, `NoCallForgotten`, `StoredCostIsTrue`, `DuplicateIsHarmless`; `PaidHeadAdmitted` |
| `closed` | closing run during a review, fair, one call may fail | `LeaseReturned`, `TicketResolved` |
| `handover` | 3 jobs in turn asked for on the source pull request, 1 commit, 1 fault, time passes | types, `SuccessSeals`, `StopStaysResumable`, `NoneOutlivesOrigin` |
| `race` | 3 translations or continuations, 2 at a time, 1 fault | `OneSuccessPerCheckpoint`, `ClosedStaysClosed`, and that the jobs implement `Lineage` (`LineageKept`) |
| `branch` | 2 fair jobs of any mode and a maintainer, 3 commits, no faults | `UpdatesFollowHead`, `AuditCloses` |
| `content` | scope: 3 pages, up to 2 changes, three link graphs, redirects, limit 2 | `ScopeIsRight`: `ReachIsClosure`, `LinksLand`, `LimitBeforeModels` |
| | pair: up to 3 changes of either locale | `JudgementIsSound`: `EveryChangeIsJudged`, `FailureIsNoLicence`, `DirectionHasChange`, `SkipIsUnanimous` |
| | group: 5 pages (one including another, one moved, a TOC, a deletion), 2 jobs, 2 hunks | `GroupIsKept`: `GoodIsWhole`, `HolesAreResumable`, `NothingErased`, `AcceptedSurvives`, `CallsBounded` |
| | calls: a translation and a verification with one conversation each, daily limit 1 | `BillIsKept`: `CostIsTheBill`, `CallsAreRecorded`, `FewCallsPerQuestion`, `RefusedBodyShrinks` |
| | all four, fair | `ContentTypeOK`, `WorkEnds` |
| `parts` | comments: 3 jobs, 2 at a time, 2 commits, 2 translation pull requests, 1 fault | `ReportsAreCurrent`: `OneReport`, `AckedIsShown`, `ContinuationIsCurrent`, `OthersStay` |
| | publication: 2 runs, 2 heads, 1 fault | `ReviewIsCurrent`: `OneComment`, `CommentHasCheck`, `PublishedIsShown`, `NeverBack` |
| | money: limit 4, bounds {1,2,4}, bills {0,1,2,4,5} | `BillWithinLimit`, `StopIsFinal`, `AccountsAgree`: `LedgerCoversBill`, `ReportedCostIsBill`, `MemoryIsLedger` |
| | session: 2 lines, growing to 3, 3 turns, patches of 2 hunks | `SessionIsClean`: `ReadBeforeFinish`, `FailureLeavesNothing` |
| | toc: all tables of 2 entries over 2 pages, a page only the target has, and a group | `TocFollows`: `OwnEntriesKept`, `AdditionsArrive`, `DeletionsLeave`, `NoneTwice` |
| | update: articles of 3 lines with 2 anchors, targets that lack some lines | `ChangesCarried`: `NewTextArrives`, `AnchorsFollow`, `ChangesInPlace` |
| | hunk: five hunks of 5 to 7 marks, answers of up to 6 marks | `AnswerFits`: `MergesAreGroupings`, `NothingCrosses`, `PiecesKept` |
| | all seven | `PartsTypeOK` |
| `reopened` | close and reopen | **violation** of `RefusedOnlyAfterReview` |
| `forced` | 2 jobs at a time, 3 commits | **violation** of `TranslationReplacesCapturedHead` |
| `counts` | the instance of `content` | **violation** of `CountsWithinScope` |
| `untouched` | the instance of `parts` | **violation** of `UntouchedSurvives` |

Why the bounds are enough. A hazard of the review involves the run that is replaced and the run that replaces it: two owners, and
three for the ledger, where one request may be shared. A worker has two attempts in the code. Two faults
cover a lost answer followed by a failed recovery. A lineage needs a stop, a continuation that stops or fails,
and a second continuation: three jobs; races are between two of them. One commit tells a branch from none and lets a second job move
the head on (a translation deletes it); with three, two jobs and a maintainer may each push. `race` has no commits: the checkpoint of a stop without a branch takes
the same path through the tables, and that keeps it small. In a group the pages matter by kind and by what they include: one of each kind, and one
include. Two jobs are a job and its continuation, and two jobs that talk to the providers at once share only the sum of the day; between them they ask every kind of question. A scope needs three pages for a chain, a cycle or a fork of links, and a
pair two changes of one locale beside one of the other for two cuts. Two publishers make every race of publications; a third job of
`ReportComments` is one that comes after two have left their comments half done. Two entries and one group of a table of contents meet every branch of
the delta; three lines give an edit something before, after and between. Five hunks hold every kind of protected piece, two or three blocks, cells and a link.

Fairness. `FairSpec` of `PolicyReview` assumes that a job which can go on does, that a call in flight ends (the client has a timeout)
and that the finalizer runs after a completed run (`workflow_run: completed`). Pushes, deliveries, cancellations and faults are
never assumed. `LeaseReturned` and `TicketResolved` promise nothing once a call has failed, and `LeaseReturned` is checked without orphans: the finalizer
runs once and repeats nothing (its hazard says so). `ContentSpec` assumes that a job at work goes on and that a call
ends; nobody has to start a job, ask a question or push. `FairSpec` of `Workflows` assumes that a runner goes on with its job; all other steps are free.

### What the violation runs show

* `reopened`: a head whose run claimed its ticket and stopped before the first model call is refused as a duplicate ever after.
* `forced`: the first push of a translation over an existing branch is forced, so what was pushed between the reading of the head
  and the write is lost. Verifications and continuations are safe (`pushes`): GitHub refuses an unforced move that is not a fast-forward.
* `counts`: an article renamed without a change, whose translation exists at the old path, is not counted in the scope but in the group of another
  changed article that links to its new path; the assertion at `ng/scope.py:391-397` then stops the job. The Python functions do the same.
* `untouched`: among several hunks one that only inserts is located by the anchors of its own new text (`before_hunk or after_hunk`, `ng/translation/surgical.py:266`)
  and replaces the one line of the target that carries them. The Python function does the same.

`PROJECT.json` "findings" quotes the lines each disagrees with.

`handover` asks for continuations on the source pull request only. When they may also be asked for on the translation pull request and one call
may fail, `SuccessSeals` and `StopStaysResumable` do not hold: a runner lost between the terminal audit and the consumption leaves an open ancestor beside a pending
successor, and the lookup by exact head opens the successor (`ng/persistence/ydb.py:564-583`). If the continuation of the successor is GREEN, the ancestor
can still be resumed; if it fails, both are applicable and no lookup is unambiguous. To see it, check `SuccessSeals` in `MCHandover.cfg`
with `Modes <- Resumptions`.

### What the models refuted besides

These were found while modelling; no run is kept for them. Each can be seen by checking the formula named.

* **Workflows.** A verification that stops on a pair changed in both locales skips `close_open_checkpoints` and opens a second checkpoint beside the
  first, after which no lookup from the source pull request is unambiguous (`StopStaysResumable` in `MCHandover.cfg` with `MixedPairs = TRUE` and verifications among
  the modes; the comment at `ng/application/workflows.py:684-685` expects it unique).
* **TranslationGroup.** A page to be renamed and translated that fails is published as null, and `reconcile_candidate_outputs`
  (`ng/translation_plan.py:733-743`) refuses the whole job, while the comment at `ng/runtime_content.py:2161-2167` means it to be one hole. The include
  gate is a single pass (2968-2996), so a page may be published that includes one withheld in that pass. TOC strings that failed are not asked again by a continuation (1741-1746).
  `doc_verify` runs none of the gates of publication. `repaired` (3409) is true whenever a target is null.
* **CriticToolLoop.** After two hunks a range to be read again may end before lines the second hunk added.
* **TocDelta.** Applying a delta to its own result does not always leave it alone (`REQUIREMENTS_RU.md:264` asks for it); a rename into an href the target
  already has makes two entries; a page moved out of a group deleted by the same delta leaves the others behind; overlapping deletions are made in
  the order of a Python set (`ng/toc_delta.py:441`), which `hash` chooses.
* **PairClassification.** A call that fails on the first attempt uses up the one repetition with whole sections.
* **TranslationScope.** A link through a redirect of the target to a page that the plan deletes counts as existing (an exception in `LinksLand`), and a verification passes over a changed page that the other side redirects to nothing (the other exception). A pull request that
  deletes a page and adds a redirect for it always fails; so does a renamed page whose translation exists nowhere, although `REQUIREMENTS_RU.md:128` has it translated. An error in
  the direction that is not chosen stops the job.
* **SurgicalUpdate.** A hunk of several lines replaces only the line it was pinned to; the other old lines stay in the target.
* **DocumentResponse.** Mobile pieces (inline code) may change places when two blocks are merged. When a hunk is one fenced block and the answer
  has another line break before the closing fence, `_normalize_provider_wrapping` (`ng/translation/document.py:66`) takes the block's own fence for an envelope.
  An answer that is a JSON object is published as it is, its tokens replaced, in whatever order and place they stand: only how often each occurs is looked at (`PiecesKept` without its
  `form # "object"`); the docstring of `restore_document` (`ng/translation/document.py:1053-1056`) calls failures of the placeholders hard.
* **ModelCalls.** A translator that asks anew after its client gave up on a refusal for length sends the full output cap again, for only the classifier's client remembers the lowered one
  (`RefusedBodyShrinks` with every second round in `SameBody`). A question to a translator may cost four calls.
* **ReportComments.** A link of an older build without a marker is left beside the new one if there is a marked one. Two overlapping translations without a commit
  may leave a QA comment on the source pull request. A failure to classify replaces the notice that no translation is needed.
* **ReviewPublication.** The finalizer of an earlier run of the same head replaces the report of a later run, for it publishes outside the concurrency group.

## 4. Proofs

Theorems hold for every value of the constants that satisfies the named assumptions: any set of pull requests, heads, requests and
owners, any number of faults, any limit, bounds and bills.

* `ReviewStoreProofs` (from `OwnerAssumption`: each owner belongs to one pull request, head and request). `LedgerInv` adds two facts to
  `PendingHoldsLease` and `PaidByClaimant`: the holder of a lease has the running claim, and types. `PendingHoldsLease` alone is not
  inductive: an owner whose lease was dropped could reserve if it could get it back, and it cannot because a running claim is never
  waiting again. From it: `PendingKeepsLease`, `ClaimantPays`, `ExclusivePaidReview`, `LedgerMonotone`, and `LedgerImplementsLease`, the refinement, with
  one step per query.
* `PolicyReviewProofs` (also from `ReviewAssumption`). First `SystemImplementsStore`: every step of the system is a query of the store or
  leaves its tables alone, so that everything proved of the ledger holds in the system. Then two invariants: `WorkInv`, the control
  state of workers (how many tries a stage has had, how many of them late), and `ReviewInv`, per owner: *Ledgered*, an open or unanswered call is
  unpriced on the ledger; *Sanctioned*, who is past the gate was admitted; *Timely*, a late call was reserved before its head was replaced;
  *Ticketed*, who waits to review holds the ticket. They give `NoCallForgotten`, `OneCallInFlight` (through the ledger's exclusion), `PaidHeadAdmitted`,
  `AtMostOneLateCall` and `DuplicateIsHarmless`. The steps of one owner leave the facts of another alone, except through the ledger: lemma `OthersKeep`.
  A third, `CostInv`, follows the price of the calls into the report, for owners whose container ends with their run: *Told*, the flag of the worker's budget is
  set or every call is priced; *Sealed*, a recovery never runs beside the container, and what it calls known is known. It gives `StoredCosts`;
  a container that survives its run may settle after the recovery has read the ledger, which is why orphans are excepted.
* `RunBudgetProofs` (from `MoneyAssumption`). `BudgetInv` describes the ledger row by row relative to the stage: rows before the last
  are settled at their bill, rows after it untouched, the last is what `pending` says. Types (`BudgetTyping`), `BillTheorem`, `AccountsTheorem` and `StopTheorem` follow.
* `ConversationProofs` (from `CallAssumption`). `CallInv` relates, for each job, cost to bill and rows to calls while one is in hand (`CostInv`, `RowInv`), the calls of
  a question to role, attempt and round (`AskedInv`: those of the invocation in hand and, in a second round, the one or two of the first), and the next body to the refusal it follows (`BodyInv`). A step is of one job
  (`OthersRest`), so one case per action suffices. `BillsKept` is all of `BillIsKept`, invariants and action property. For the critic's session, `LoopInv`: who has not
  read since a patch has a range left to read, and bytes leave only with *ok*. `SessionClean` follows, for patches of any shape. `CallTyped` and `LoopTyped` are the types.
* `WorkflowsProofs` (from `BoundAssumption` and `WorkflowAssumption`). A step of a job is first reduced to its effect on the two tables (`StepEffect`, `StoreStep`:
  one job's status moves, every row is kept, staged by its own job or taken by a guarded consume). `WorkInv` then follows the way of a
  continuation: *Way*, what its next call says of mode, status, verdict and expected head; *Settled*, a success or an attempt at one names
  the job as the consumer of its checkpoint, and a failed GREEN continuation is over; *Written*, a row is staged once and a consumer somebody
  has seen is a continuation that failed for good. `OneSuccessPerCheckpoint` alone is not inductive: a consumer that may still succeed is not
  replaced only because the one who loads the row reads its failure first, and that failure is final. From it: `OneSuccess`, `ClosedStays`, `UpdatesFollow`.
  `LineageInv` is what the refinement needs besides. *Passed*: a continuation at work has an audit, one with a good verdict leaves no checkpoint, and who is about to
  open a row has read that its job failed (`activate_checkpoint` reads the audit before its UPDATE, and a continuation's failure is final). *Taken*: a row names only a job that was
  admitted to it and is past its UPDATE, so that none takes two. `LineageImplemented` then maps each effect on the tables to a step of `Lineage` or to none (`LineageMove`); that
  a recorded success is never overwritten is part of it, as no step of `Lineage` leaves the end *succeeded*.
  `OriginInv` says of every function that meets the equation of `Origin`'s recursion that the root of a stored row is its value; the step that admits a job makes such a
  function from one of the state before, so no induction over the lineage is needed for `NoneOutlives`. `BoundInv` adds the SHAs (*Bounded*: all are pushed commits, and only a job that has pushed
  nothing still works on the base branch) and the room of the pushes under way (*Places*) to `WorkInv`; from both, `WorkflowTyping`.
  `SuccessSealed` states `SuccessSeals` from two conditions on the constants, `MaxRunning = 1` and no `continue_translation` among `Modes`: without either it is false (section 3).
  Any number of jobs, faults and pushes from outside is left. A lookup follows chains of consumers of any length. The recursive functions it is written with exist because a
  consumer is later than the job whose checkpoint it took (`Recurrence`), and what is said of them (`EndStops`, `VisitedPasses`, `IncludedSelected`) holds for want of a
  counterexample nearest to the end of a chain (`Descent`), so that no induction scheme is needed. `SuccessSeals` is not inductive: the success of a continuation says nothing of the other checkpoints.
  What does is the lookup that admitted it, which fails unless every other open row has been handed on or is taken by a success (`PassedOver`). Such a row is *Stale*; once the job it belongs to
  has ended and nobody at work holds it, it is *Dead*, and stays so whoever moves (`DeadStep`). *Clear*: a continuation at work or in success has only dead rows before it, but for its own.
  `StopResumable` states `StopStaysResumable`, from `MaxRunning = 1`, no `continue_translation`, and `MixedPairs = FALSE` (section 3). It is the other half: the lookup finds exactly one row, though it looks at all
  rows of the pull request, passes over those that were handed on, and gives up when two remain. What it includes is the least set closed under consumers (`IncludedLeast`, `IncludedCloses`). A row is *Straight* if every open row is the
  recorded end of its job and every included row but this one has been handed on, ends in a success, or is closed and free again; from that the lookup finds this row and no other (`StraightFound`), and what it found is Straight (`FoundStraight`), which
  is where a continuation begins. *Follow*: what a continuation at work was admitted to is Straight but for itself, through staging, terminal audit, consumption and activation, whichever of them is the last
  (`StraightAtWork`); when it ends in a failure the old row is Straight again or its own has become so (`StraightReturns`, `StraightAdvances`). *Tip*: a stop that was handed over has an heir of its lineage, as new as the stop or newer, that is Straight unless
  somebody is at work on it. `StopInv` adds the order of SHAs (*Heads*), what a translation or verification has closed before it stages its own row (*Cleared*), and that a consumed row of a continuation is acknowledged (*Consumed*).
* `TranslationGroupProofs` (from `GroupAssumption`). `GroupInv` joins four facts to the shape of the state. *Doc*: a page in hand is one that was left to do. *Cost*: its
  calls are bounded by the hunks done and the try in hand, which makes `CallsBounded` inductive. *Branch*: the verdict is reached with the published pages on the branch and every
  candidate judged. *Resume*: while a job continues from a branch, a candidate outside its pending pages is the branch's own or is not assembled, so that
  `AcceptedSurvives` holds at the publication and `HolesAreResumable` through the job. `GroupKept` is all of `GroupIsKept`, invariants and action properties. `GroupTyped` adds the bounds: no text is newer than the last job.
* `CommentProofs`, the reports (from `CommentAssumption`, and `ThreadAssumption`: the source pull request begins with at most one report of each kind). `SoundInv`: a line that a
  job is about to rewrite is a comment of the publisher that is there; every step writes one such line or none (`CommentWritten`), which is `OthersStay`. `CrowdInv`: a job that works alone is the
  only one, and all but one of those at work were counted as overlaps when they began. `OneReport` is not inductive: a job that found no report adds one
  whoever adds another meanwhile, and one that found a report makes a report again of a line that another job made a link. `ReportInv` bounds the lines
  that are reports or will be made reports (*Kept*) together with the jobs that will add one (*Adding*); where a listing finds none, these are at most
  the jobs at work. `LeadInv`: what a lone job found is still the first report, and a comment that leads elsewhere is still to be rewritten. `CurrentReports`
  is all of `ReportsAreCurrent`, invariant and action properties. That there is a first line at all (`Least`) comes from the well-foundedness of `<` on `Nat`: the library states
  it without an operator parameter, so the least element of a set of numbers is within the prover's reach. `CommentTyped`: what a job is about to rewrite are lines that are there, and every overlap has a job that began.
* `CommentProofs`, the review (from `PublicationAssumption`). `PublicationInv` has five parts. `ShapeInv`: types, and a comment that was found is the first. `BackedInv`: whoever lists, rereads or writes has
  its check run, and so has every comment, of a head no newer than the present one. `MeetingInv`: all but one of those at work were counted as meetings when they began, and one that met nobody
  works alone. `RoomInv`, which makes `OneComment` inductive: the comments and the publishers about to add one together are at most one more than meetings and guesses.
  `KnownInv`: where nobody met and nothing was guessed, what a publisher knows of the comments is still so. `CurrentReview` is all of `ReviewIsCurrent`; `PublicationTyped` its types.
* `SelectionProofs`, the pair (from `ChangeAssumption`). `PairInv`: every change has been judged, is being judged or waits (`Covered`), in one place only (`Apart`), and what failed is in doubt and a
  direction has its change (`Founded`). Parts are of any number and cut as often as a request is too long. `SoundJudgement` is all of `JudgementIsSound`, `PairTyped` the types.
* `SelectionProofs`, the scope (from `ScopeAssumption`: the pull requests, link graphs and redirects are about the articles). `ScopeInv` has seven parts. *Input* and *Flow*: the snapshot, and the order
  in which directions are built, with the pairs each is built for. *Scan* and *Reach*: what has been read has all its edges, and an article that a changed page
  reaches is one it needs; when no edge is behind, reach is the closure, because a set closed under the edges contains the least one. *Sound*: a finished scope
  has the operation of each of its own pages, and each page that a translated article lacks is one of them or a dependency needed for at least as much; this is what survives the
  choice of pairs. *Room*: each direction that may be chosen is still to be built or has the sizes of its closures among the counts, and after the limit they are small.
  *Land*: where the links of what is planned so far lead. `LinksLand` by itself says nothing before the plan is made, and `LimitBeforeModels` holds in the second pass
  only because a closure depends on the snapshot and not on the pairs that were chosen. `ScopeRight` is all of `ScopeIsRight`. `ScopeTyped` needs that redirects lead to articles however long they are followed (`FollowStays`):
  no number of steps is the first to which no walk leads, so the recursive function of `Follow` exists, and none of its values is the first to leave the articles.

The proof of `LinksLand` failed at first, and for a good reason: a verification does not compare the pages it passes over with their operation, so a
changed page that the other side redirects to a page that is not there stays without a counterpart. It takes four articles, one more than the run has. The exception
is now part of the property (`PassedOver`); a translation refuses the same pull request (`Mismatch`).

Only model-checked:

* `LeaseReturned`, `TicketResolved`, `AuditCloses`, `WorkEnds`: liveness, which the prover does not reach;
* `ChangesCarried` and `AnswerFits`: folds and recurrences over a document, again induction over data. The recurrences of `DocumentResponse` and `Lookup` of `CheckpointStore` are
  recursive functions all the same, so that what is proved around them may name them;
* `TocFollows`: `TocDelta` has recursive operators, which the prover's arithmetic backend does not accept;
* `ContentTypeOK` and `PartsTypeOK`: the types of all scenes together. Each of their parts has a theorem of its own, except those of `SurgicalUpdate` and `DocumentResponse`.

## 5. Not modelled, and why

* **Text.** Scanning, rendering, the syntax of links, terminology and the language heuristics are data: a page is a sequence of marks, lines or blocks. The few
  places where text decides control are listed among the hazards.
* **Formal rules of the policy review** (`formal.py`, `policy.py`): pure functions of text that decide nothing about a run.
* **HTTP transport**, the retries below the YDB SDK, token prices and counts: below the level of a step.
* **Repository, metadata and assets, configuration, command line, ports**: I/O and value types without a protocol of their own.
* **Findings and repair of the critic**: with the present wiring no chunk reaches them.
* The **daily budget** is a check before the work, not a reservation; `ModelCalls` has it, and there is nothing to hold.

## 6. Plan

Done: `PaidLease`/`ReviewStore`, `PolicyReview`, `RunBudget`, `CheckpointStore`/`Lineage`/`Workflows`, the modules of translation and publication above, and the proofs about the ledger, the review run and its publication, the money, the calls, the tool session, the scope and the pairs, the pages of a group, the jobs and their reports.

| next | what | why |
|---|---|---|
| 1 | chunk commits and merges of `publication.py` | the last part of publication that is nondeterminism in `Workflows` |
