----------------------------- MODULE ReportComments -----------------------------
(***************************************************************************)
(* What the translation jobs say on GitHub: QAReporter of reporting.py and *)
(* RuntimeReporter of runtime.py, over the comments of a source pull       *)
(* request and of the translation pull requests opened for it.             *)
(*                                                                         *)
(* A comment is known by its author and by its marker.  Every request to   *)
(* GitHub is a step; a write may fail, or be done with the answer lost,    *)
(* and is never sent again; a listing that cannot read the identity of the *)
(* publisher recognises no comment of a personal token.  How the jobs      *)
(* decide what to say is nondeterminism (Workflows.tla models their order).*)
(***************************************************************************)
EXTENDS Integers, FiniteSets
LOCAL INSTANCE Sequences

CONSTANTS
  MaxJobs,     \* jobs, numbered in the order they begin
  MaxCommits,  \* commits of the translation branch
  MaxPulls,    \* translation pull requests
  Threads,     \* what the source pull request may hold at first
  MaxRunning,  \* jobs at work at the same time
  MaxFaults    \* faults in one behaviour

ASSUME CommentAssumption ==
  /\ MaxJobs \in Nat /\ MaxCommits \in Nat /\ MaxPulls \in Nat
  /\ MaxRunning \in Nat /\ MaxFaults \in Nat

Job    == 1..MaxJobs
Source == 0
Pull   == 1..MaxPulls
Issue  == {Source} \cup Pull
Mode   == {"translate", "continue", "verify"}

(* QA_MARKER, TRANSLATION_LINK_MARKER, SCOPE_FAILURE_MARKER, the two texts *)
(* under CLASSIFICATION_MARKER, and the links of older builds without one. *)
Mark == {"qa", "link", "failure", "needless", "unclassified", "legacy"}
Comment == [own : BOOLEAN, mark : Mark \ {"link", "legacy"}, says : 0..MaxCommits]
             \cup [own : BOOLEAN, mark : {"link", "legacy"}, says : Pull]

VARIABLES
  comments,  \* [Issue -> Seq(Comment)], in the order GitHub lists them
  head,      \* head of the translation branch, 0 is none
  commits,   \* commits pushed so far
  open,      \* the open translation pull request, 0 is none
  pulls,     \* translation pull requests opened so far
  job,       \* [Job -> Process]: what a job knows; an ended one knows nothing
  overlaps,  \* jobs that began while another was at work
  blind,     \* listings of a personal token without its identity
  faults     \* faults so far

branchVars == <<head, commits>>
pullVars   == <<open, pulls>>
commentVars == <<comments, branchVars, pullVars, job, overlaps, blind, faults>>

Notices == {"needless", "unclassified", "failure"}
Stop == {"idle", "work", "open", "report", "pull", "list", "write", "source", "rewrite", "last",
         "list_notice", "write_notice", "acked", "ended"}

(* at: the next request; pinned: snapshot.target_sha; sha: the commit      *)
(* reported; pushed: the publisher is no noop; place: where the report     *)
(* goes; notice: what a translation that does not start says; found: the   *)
(* comment the listing found, 0 is none; todo: the source comments still   *)
(* to rewrite, group by group, 0 is a new one; alone: no other job was at  *)
(* work with it.                                                           *)
Fresh(at) ==
  [at |-> at, mode |-> "translate", pinned |-> 0, sha |-> 0, pushed |-> FALSE, place |-> Source,
   notice |-> "needless", found |-> 0, todo |-> <<{}, {}, {}>>, alone |-> TRUE]

Ended(j) == job[j].at \in {"acked", "ended"}
AtWork   == {j \in Job : job[j].at # "idle" /\ ~Ended(j)}

(* The state is well formed.                                               *)
CommentTypeOK ==
  /\ \A i \in Issue : \A n \in DOMAIN comments[i] : comments[i][n] \in Comment
  /\ head \in 0..MaxCommits /\ commits \in 0..MaxCommits
  /\ open \in 0..MaxPulls /\ pulls \in 0..MaxPulls
  /\ \A j \in Job :
       LET r == job[j]
       IN  /\ r.at \in Stop /\ r.mode \in Mode /\ r.notice \in Notices /\ r.place \in Issue
           /\ r.pinned \in 0..MaxCommits /\ r.sha \in 0..MaxCommits
           /\ r.pushed \in BOOLEAN /\ r.alone \in BOOLEAN
           /\ r.found \in 0..Len(comments[r.place])
           /\ r.todo \in [1..3 -> SUBSET (0..Len(comments[Source]))]
  /\ overlaps \in 0..MaxJobs /\ blind \in 0..MaxFaults /\ faults \in 0..MaxFaults

CommentInit ==
  /\ comments \in {[i \in Issue |-> IF i = Source THEN t ELSE <<>>] : t \in Threads}
  /\ head = 0 /\ commits = 0 /\ open = 0 /\ pulls = 0
  /\ job = [j \in Job |-> Fresh("idle")] /\ overlaps = 0 /\ blind = 0 /\ faults = 0

-----------------------------------------------------------------------------
Become(j, r) == job' = [job EXCEPT ![j] = r]
GoOn(j, to)  == Become(j, [job[j] EXCEPT !.at = to])
End(j, how)  == Become(j, Fresh(how))

(* The requests that change GitHub: GitHubHTTP repeats reads only.         *)
Outcome == {"answered", "lost", "failed"}
Counted(out) ==
  IF out = "answered" THEN UNCHANGED faults ELSE faults < MaxFaults /\ faults' = faults + 1

Upsert(i, n, c) ==
  IF n = 0 THEN [comments EXCEPT ![i] = Append(@, c)] ELSE [comments EXCEPT ![i][n] = c]

SentTwice(i, n, c, out) ==                         \* faulty: writes are repeated too
  /\ Counted(out)
  /\ comments' = CASE out = "failed" -> comments
                   [] out = "lost" /\ n = 0 -> [comments EXCEPT ![i] = @ \o <<c, c>>]
                   [] OTHER -> Upsert(i, n, c)
Sent(i, n, c, out) ==
  /\ Counted(out)
  /\ comments' = IF out = "failed" THEN comments ELSE Upsert(i, n, c)

(* list_comments: authored_by_publisher.  A GitHub App cannot read /user   *)
(* and is known by its login; a personal token then finds nothing.         *)
ByAnyone(thread, marks) == {n \in DOMAIN thread : thread[n].mark \in marks}  \* faulty
OwnIn(thread, marks) == {n \in DOMAIN thread : thread[n].own /\ thread[n].mark \in marks}
Own(i, marks) == OwnIn(comments[i], marks)
First(lines) == IF lines = {} THEN 0 ELSE CHOOSE n \in lines : \A k \in lines : n <= k

(* The source pull request begins with at most one report of each kind.    *)
ASSUME ThreadAssumption ==
  \A t \in Threads :
    t \in Seq(Comment) /\ \A m \in {"qa", "failure"} : Cardinality(OwnIn(t, {m})) <= 1

Listing(known) ==
  IF known THEN UNCHANGED <<blind, faults>>
  ELSE faults < MaxFaults /\ faults' = faults + 1 /\ blind' = blind + 1
Seen(known, i, marks) == IF known THEN Own(i, marks) ELSE {}

-----------------------------------------------------------------------------
(* A translation deletes the branch first, and GitHub closes its pull      *)
(* request; a continuation needs an earlier job, a verification the pull   *)
(* request.                                                                *)
Begin(j, m) ==
  /\ job[j].at = "idle" /\ \A i \in 1..j - 1 : job[i].at # "idle"
  /\ Cardinality(AtWork) < MaxRunning
  /\ m = "continue" => \E i \in Job : Ended(i)
  /\ m = "verify" => head # 0 /\ open # 0
  /\ IF m = "translate" THEN head' = 0 /\ open' = 0 ELSE UNCHANGED <<head, open>>
  /\ job' = [i \in Job |->
       IF i = j THEN [Fresh("work") EXCEPT !.mode = m, !.pinned = head', !.alone = AtWork = {}]
       ELSE IF i \in AtWork THEN [job[i] EXCEPT !.alone = FALSE] ELSE job[i]]
  /\ overlaps' = IF AtWork = {} THEN overlaps ELSE overlaps + 1
  /\ UNCHANGED <<comments, commits, pulls, blind, faults>>

(* publish: nothing to change, or a commit on the pinned head.  Only a     *)
(* translation and a continuation have something to push.                  *)
Publish(j) ==
  /\ job[j].at = "work"
  /\ \/ /\ Become(j, [job[j] EXCEPT !.at = "report", !.sha = job[j].pinned])
        /\ UNCHANGED branchVars
     \/ /\ job[j].mode # "verify" /\ commits < MaxCommits
        /\ IF head = job[j].pinned
           THEN /\ commits' = commits + 1 /\ head' = commits'
                /\ Become(j, [job[j] EXCEPT !.at = "open", !.sha = commits', !.pushed = TRUE])
           ELSE End(j, "ended") /\ UNCHANGED branchVars
  /\ UNCHANGED <<comments, pullVars, overlaps, blind, faults>>

(* ensure_pr: find the open pull request of the branch or open one.        *)
Ensured(out) ==
  /\ Counted(out)
  /\ IF open = 0 /\ out # "failed"
     THEN pulls < MaxPulls /\ pulls' = pulls + 1 /\ open' = pulls'
     ELSE UNCHANGED pullVars

Open(j) ==
  /\ job[j].at = "open"
  /\ \E out \in Outcome :
       Ensured(out) /\ IF out = "answered" THEN GoOn(j, "report") ELSE End(j, "ended")
  /\ UNCHANGED <<comments, branchVars, overlaps, blind>>

(* RuntimeReporter.update_current_pr: nothing was published.               *)
NoCommit(j) ==
  /\ ~job[j].pushed
  /\ \/ job[j].mode = "translate"
     \/ job[j].mode = "continue" /\ job[j].pinned = 0 /\ head = 0

Report(j) ==
  /\ job[j].at = "report"
  /\ IF NoCommit(j)
     THEN \/ job[j].mode = "translate" /\ End(j, "acked")          \* the verdict is not RED
          \/ Become(j, [job[j] EXCEPT !.at = "list", !.place = Source])
     ELSE IF head # job[j].sha THEN End(j, "ended") ELSE GoOn(j, "pull")
  /\ UNCHANGED <<comments, branchVars, pullVars, overlaps, blind, faults>>

(* current_head is read for a continuation only.                           *)
NeverMoved(j) == FALSE                             \* faulty: the head is not read again
Moved(j) == job[j].mode = "continue" /\ head # job[j].sha

(* QAReporter.update_current_pr: the pull request of the report.           *)
Chosen(j) == Become(j, [job[j] EXCEPT !.at = "list", !.place = open'])

FindPull(j) ==
  /\ job[j].at = "pull"
  /\ IF job[j].pushed /\ ~Moved(j)
     THEN \E out \in Outcome :
            Ensured(out) /\ IF out = "answered" THEN Chosen(j) ELSE End(j, "ended")
     ELSE /\ UNCHANGED <<pullVars, faults>>
          /\ IF job[j].pushed \/ open = 0 THEN End(j, "ended") ELSE Chosen(j)
  /\ UNCHANGED <<comments, branchVars, overlaps, blind>>

(* The first comment of the publisher with the marker of the report.       *)
List(j) ==
  /\ job[j].at = "list"
  /\ \E known \in BOOLEAN :
       /\ Listing(known)
       /\ Become(j, [job[j] EXCEPT !.at = "write", !.found = First(Seen(known, job[j].place, {"qa"}))])
  /\ UNCHANGED <<comments, branchVars, pullVars, overlaps>>

QA(j) == [own |-> TRUE, mark |-> "qa", says |-> job[j].sha]

WriteReport(j) ==
  /\ job[j].at = "write"
  /\ LET here == job[j].place = Source
     IN  IF ~here /\ Moved(j) THEN End(j, "ended") /\ UNCHANGED <<comments, faults>>
         ELSE \E out \in Outcome :
                /\ Sent(job[j].place, job[j].found, QA(j), out)
                /\ IF out # "answered" THEN End(j, "ended")
                   ELSE IF here THEN End(j, "acked") ELSE GoOn(j, "source")
  /\ UNCHANGED <<branchVars, pullVars, overlaps, blind>>

(* The comments of the source that are to lead to the pull request: the    *)
(* marked links, then the unmarked ones, then the report.                  *)
ToRewriteFirst(links, legacy, qa) ==               \* faulty: one of several links
  <<{First(IF links # {} THEN links ELSE qa)}, {}, {}>>
ToRewrite(links, legacy, qa) ==
  LET report == IF qa = {} THEN {} ELSE {First(qa)}
  IN  IF links = {} /\ qa # {} THEN <<{}, {}, report>>
      ELSE IF links = {} /\ legacy = {} THEN <<{0}, {}, {}>>
      ELSE <<links, legacy, report>>

ListSource(j) ==
  /\ job[j].at = "source"
  /\ \E known \in BOOLEAN :
       /\ Listing(known)
       /\ Become(j, [job[j] EXCEPT !.at = "rewrite",
                       !.todo = ToRewrite(Seen(known, Source, {"link"}), Seen(known, Source, {"legacy"}),
                                          Seen(known, Source, {"qa"}))])
  /\ UNCHANGED <<comments, branchVars, pullVars, overlaps>>

LinkToOpen(j) == [own |-> TRUE, mark |-> "link", says |-> open]  \* faulty: read once more
Link(j) == [own |-> TRUE, mark |-> "link", says |-> job[j].place]

(* The first of the first group that is not done.                          *)
Group(todo) == First({k \in DOMAIN todo : todo[k] # {}})
NextLine(todo) == First(todo[Group(todo)])
Lines(todo) == UNION {todo[k] : k \in DOMAIN todo}
Left(todo)  == [todo EXCEPT ![Group(todo)] = @ \ {First(@)}]

Rewrite(j) ==
  /\ job[j].at = "rewrite"
  /\ \E out \in Outcome :
       /\ Sent(Source, NextLine(job[j].todo), Link(j), out)
       /\ IF out # "answered" THEN End(j, "ended")
          ELSE Become(j, [job[j] EXCEPT
                            !.at = IF Lines(Left(job[j].todo)) = {} THEN "last" ELSE @,
                            !.todo = Left(@)])
  /\ UNCHANGED <<branchVars, pullVars, overlaps, blind>>

(* The head is compared once more before the report counts as made.        *)
Acknowledge(j) ==
  /\ job[j].at = "last" /\ End(j, IF Moved(j) THEN "ended" ELSE "acked")
  /\ UNCHANGED <<comments, branchVars, pullVars, overlaps, blind, faults>>

-----------------------------------------------------------------------------
(* A translation that does not start: report_classification appends what   *)
(* needs no translation, and replaces one comment of a failure to classify *)
(* (whatever it finds under that marker), as report_failure does with a    *)
(* scope or a plan refused.                                                *)
Marked(m) == IF m = "failure" THEN {"failure"} ELSE {"needless", "unclassified"}

Refuse(j) ==
  /\ job[j].at = "work" /\ job[j].mode = "translate"
  /\ \E m \in Notices :
       Become(j, [job[j] EXCEPT !.notice = m,
                                !.at = IF m = "needless" THEN "write_notice" ELSE "list_notice"])
  /\ UNCHANGED <<comments, branchVars, pullVars, overlaps, blind, faults>>

ListNotices(j) ==
  /\ job[j].at = "list_notice"
  /\ \E known \in BOOLEAN :
       /\ Listing(known)
       /\ Become(j, [job[j] EXCEPT !.at = "write_notice",
                                   !.found = First(Seen(known, Source, Marked(job[j].notice)))])
  /\ UNCHANGED <<comments, branchVars, pullVars, overlaps>>

WriteNotice(j) ==
  /\ job[j].at = "write_notice"
  /\ \E out \in Outcome :
       /\ Sent(Source, job[j].found, [own |-> TRUE, mark |-> job[j].notice, says |-> 0], out)
       /\ End(j, IF out = "answered" /\ job[j].notice = "needless" THEN "acked" ELSE "ended")
  /\ UNCHANGED <<branchVars, pullVars, overlaps, blind>>

(* Others push to the branch and close the pull request.                   *)
OutsidePush ==
  /\ head # 0 /\ commits < MaxCommits /\ commits' = commits + 1 /\ head' = commits'
  /\ UNCHANGED <<comments, pullVars, job, overlaps, blind, faults>>
OutsideClose ==
  /\ open # 0 /\ open' = 0
  /\ UNCHANGED <<comments, branchVars, pulls, job, overlaps, blind, faults>>

Work(j) ==
  \/ Publish(j) \/ Open(j) \/ Report(j) \/ FindPull(j) \/ List(j) \/ WriteReport(j)
  \/ ListSource(j) \/ Rewrite(j) \/ Acknowledge(j) \/ Refuse(j) \/ ListNotices(j) \/ WriteNotice(j)

CommentNext ==
  \/ \E j \in Job : Work(j) \/ \E m \in Mode : Begin(j, m)
  \/ OutsidePush \/ OutsideClose

CommentSpec == CommentInit /\ [][CommentNext]_commentVars

-----------------------------------------------------------------------------
Told(thread) == thread[First(OwnIn(thread, {"qa"}))].says
Reports(i, m) == Cardinality(Own(i, {m}))
Acks(j) == job[j].at \in {"write", "last"} /\ job'[j].at = "acked"
Shown(j) ==
  /\ Told(comments'[job[j].place]) = job[j].sha
  /\ job[j].place # Source =>
       /\ Own(Source, {"link"})' # {}
       /\ \A n \in Own(Source, {"link"})' : comments'[Source][n].says = job[j].place
       /\ overlaps = 0 => Own(Source, {"qa"})' = {}

(* Writes whose answer is lost never make two reports: a second one on one *)
(* pull request is due to two jobs at work together or to a listing that   *)
(* did not know the publisher.                                             *)
OneReport ==
  \A i \in Issue : \A m \in {"qa", "failure"} : Reports(i, m) <= 1 + overlaps + blind

(* A job that no other job overlapped and whose report was acknowledged    *)
(* leaves the first report telling its commit and, if that is on a         *)
(* translation pull request, every marked link of the source leading there *)
(* and, if no listing was blind and no jobs ever overlapped, no report on  *)
(* the source: whatever earlier jobs left there half done.                 *)
AckedIsShown ==
  [][\A j \in Job : Acks(j) /\ job[j].alone /\ blind = 0 => Shown(j)]_commentVars

(* An acknowledged continuation reports the head of the branch, whoever    *)
(* pushed while it wrote.                                                  *)
ContinuationIsCurrent ==
  [][\A j \in Job : Acks(j) /\ job[j].mode = "continue" /\ job[j].place # Source => job[j].sha = head]_commentVars

(* Comments of others, which may quote a marker, stay as they are.         *)
OthersStay ==
  [][\A i \in Issue : \A n \in DOMAIN comments[i] :
       ~comments[i][n].own => comments'[i][n] = comments[i][n]]_commentVars

(* The promise of the reporters: a reader of either pull request finds one *)
(* report, the last one, and a way to it.                                  *)
ReportsAreCurrent == []OneReport /\ AckedIsShown /\ ContinuationIsCurrent /\ OthersStay

=================================================================================
