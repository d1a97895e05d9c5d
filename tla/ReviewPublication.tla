--------------------------- MODULE ReviewPublication ---------------------------
(***************************************************************************)
(* ReviewGitHub.publish and the two that call it: the launcher of a run,   *)
(* which publishes what its gate, preparation or worker reported, and the  *)
(* finalizer of the completed run, which publishes the recovered report    *)
(* once more.  The pull request moves on meanwhile.  Every request to      *)
(* GitHub is a step; none is repeated.  What the report says is its run.   *)
(***************************************************************************)
EXTENDS Integers, FiniteSets, FiniteSetsExt
LOCAL INSTANCE Sequences

CONSTANTS
  MaxRuns,     \* runs, numbered in the order they reported
  MaxHeads,    \* heads of the pull request
  MaxTroubles  \* faults in one behaviour

ASSUME PublicationAssumption == MaxRuns \in Nat /\ MaxHeads \in Nat \ {0} /\ MaxTroubles \in Nat

RunNo     == 1..MaxRuns
Sha       == 1..MaxHeads
Who       == {"launcher", "finalizer"}
Publisher == RunNo \X Who

VARIABLES
  prHead,    \* head of the pull request
  of,        \* [RunNo -> Sha or 0]: the head a run reported on, 0 is no report yet
  checks,    \* check runs posted, pairs <<head, run>>
  reviews,   \* Seq([head, run]): the comments of the review
  at,        \* [Publisher -> NextRequest]
  found,     \* [Publisher -> Nat]: the comment the listing found, 0 is none
  alone,     \* [Publisher -> BOOLEAN]: no other has published meanwhile
  meetings,  \* publications begun while another was under way
  guesses,   \* listings that did not know the publisher
  troubles   \* faults so far

publicationVars == <<prHead, of, checks, reviews, at, found, alone, meetings, guesses, troubles>>

NextRequest == {"idle", "ask", "read", "check", "list", "reread", "write", "published", "ended"}
Over(p) == at[p] \in {"published", "ended"}
Busy     == {p \in Publisher : at[p] # "idle" /\ ~Over(p)}

(* The state is well formed.                                               *)
PublicationTypeOK ==
  /\ prHead \in Sha /\ of \in [RunNo -> Sha \cup {0}]
  /\ checks \subseteq Sha \X RunNo
  /\ \A n \in DOMAIN reviews : reviews[n] \in [head : Sha, run : RunNo]
  /\ at \in [Publisher -> NextRequest] /\ alone \in [Publisher -> BOOLEAN]
  /\ \A p \in Publisher : found[p] \in 0..Len(reviews)
  /\ meetings \in 0..2 * MaxRuns /\ guesses \in 0..MaxTroubles /\ troubles \in 0..MaxTroubles

PublicationInit ==
  /\ prHead = 1 /\ of = [r \in RunNo |-> 0] /\ checks = {} /\ reviews = <<>>
  /\ at = [p \in Publisher |-> "idle"] /\ found = [p \in Publisher |-> 0]
  /\ alone = [p \in Publisher |-> TRUE] /\ meetings = 0 /\ guesses = 0 /\ troubles = 0

-----------------------------------------------------------------------------
Reply == {"answered", "lost", "failed"}
Troubled(out) ==
  IF out = "answered" THEN UNCHANGED troubles ELSE troubles < MaxTroubles /\ troubles' = troubles + 1

MoveOn(p, to) == at' = [at EXCEPT ![p] = to]

Push ==
  /\ prHead < MaxHeads /\ prHead' = prHead + 1
  /\ UNCHANGED <<of, checks, reviews, at, found, alone, meetings, guesses, troubles>>

(* A run has something to say of the head it was started for.              *)
ReportRun(r) ==
  /\ of[r] = 0 /\ \A q \in 1..r - 1 : of[q] # 0
  /\ \E h \in 1..prHead : of' = [of EXCEPT ![r] = h]
  /\ UNCHANGED <<prHead, checks, reviews, at, found, alone, meetings, guesses, troubles>>

(* The launcher publishes before its run is complete, if it lives to; the  *)
(* finalizer after that, and it asks for the head itself.                  *)
Completed(r) == at[<<r, "launcher">>] \in {"idle", "published", "ended"}
BeginPublishing(p) ==
  /\ at[p] = "idle" /\ of[p[1]] # 0
  /\ IF p[2] = "launcher" THEN at[<<p[1], "finalizer">>] = "idle" ELSE Completed(p[1])
  /\ MoveOn(p, IF p[2] = "launcher" THEN "read" ELSE "ask")
  /\ alone' = [q \in Publisher |-> IF q = p THEN Busy = {} ELSE alone[q] /\ q \notin Busy]
  /\ meetings' = IF Busy = {} THEN meetings ELSE meetings + 1
  /\ UNCHANGED <<prHead, of, checks, reviews, found, guesses, troubles>>

(* read_pr: a report on another head is superseded.                        *)
SupersededNever(p) == FALSE                        \* faulty: the head is not compared
Superseded(p) == prHead # of[p[1]]

ReadHead(p, from, to) ==
  /\ at[p] = from
  /\ \/ MoveOn(p, IF Superseded(p) THEN "ended" ELSE to) /\ UNCHANGED troubles
     \/ Troubled("failed") /\ MoveOn(p, "ended")
  /\ UNCHANGED <<prHead, of, checks, reviews, found, alone, meetings, guesses>>

PostCheckTolerant(p) ==                            \* faulty: a check refused is passed over
  /\ at[p] = "check" /\ MoveOn(p, "list")
  /\ \E out \in Reply :
       /\ Troubled(out)
       /\ checks' = IF out = "failed" THEN checks ELSE checks \cup {<<of[p[1]], p[1]>>}
  /\ UNCHANGED <<prHead, of, reviews, found, alone, meetings, guesses>>
PostCheck(p) ==
  /\ at[p] = "check"
  /\ \E out \in Reply :
       /\ Troubled(out) /\ MoveOn(p, IF out = "answered" THEN "list" ELSE "ended")
       /\ checks' = IF out = "failed" THEN checks ELSE checks \cup {<<of[p[1]], p[1]>>}
  /\ UNCHANGED <<prHead, of, reviews, found, alone, meetings, guesses>>

(* The oldest comment of the publisher, who is taken for the bot of GitHub *)
(* Actions when its identity cannot be read.                               *)
NewestOf(ns) == IF ns = {} THEN 0 ELSE Max(ns)     \* faulty: the last of them
NextOf(ns)   == IF ns = {} THEN 0 ELSE Max(ns) + 1 \* faulty: the one after the last
OldestOf(ns) == IF ns = {} THEN 0 ELSE Min(ns)

FindComment(p) ==
  /\ at[p] = "list"
  /\ \/ /\ MoveOn(p, "reread") /\ found' = [found EXCEPT ![p] = OldestOf(DOMAIN reviews)]
        /\ UNCHANGED <<guesses, troubles>>
     \/ /\ MoveOn(p, "reread") /\ found' = [found EXCEPT ![p] = 0]
        /\ guesses' = guesses + 1 /\ Troubled("failed")
     \/ MoveOn(p, "ended") /\ Troubled("failed") /\ UNCHANGED <<found, guesses>>
  /\ UNCHANGED <<prHead, of, checks, reviews, alone, meetings>>

PostAlways(p, c) == Append(reviews, c)             \* faulty: never an update
Put(p, c) ==
  IF found[p] = 0 THEN Append(reviews, c) ELSE [reviews EXCEPT ![found[p]] = c]

Write(p) ==
  /\ at[p] = "write"
  /\ \E out \in Reply :
       /\ Troubled(out) /\ MoveOn(p, IF out = "answered" THEN "published" ELSE "ended")
       /\ reviews' = IF out = "failed" THEN reviews ELSE Put(p, [head |-> of[p[1]], run |-> p[1]])
  /\ UNCHANGED <<prHead, of, checks, found, alone, meetings, guesses>>

PublishStep(p) ==
  \/ ReadHead(p, "ask", "read") \/ ReadHead(p, "read", "check") \/ PostCheck(p)
  \/ FindComment(p) \/ ReadHead(p, "reread", "write") \/ Write(p)

PublicationNext ==
  \/ Push
  \/ \E r \in RunNo : ReportRun(r)
  \/ \E p \in Publisher : BeginPublishing(p) \/ PublishStep(p)

PublicationSpec == PublicationInit /\ [][PublicationNext]_publicationVars

-----------------------------------------------------------------------------
(* What the comment says of a run, a check on the same head says as well:  *)
(* no report is only in the comment.                                       *)
CommentHasCheck == \A n \in DOMAIN reviews : <<reviews[n].head, reviews[n].run>> \in checks

(* A second comment is due to two publications at once, or to one that did *)
(* not know itself; a lost answer makes none.                              *)
OneComment == Len(reviews) <= 1 + meetings + guesses

(* A publication that met no other leaves its report in the oldest comment *)
(* (in one of the comments, if it did not find its own).                   *)
PublishedIsShown ==
  [][\A p \in Publisher :
       at[p] = "write" /\ at'[p] = "published" /\ alone[p] /\ guesses = 0 =>
         reviews'[1] = [head |-> of[p[1]], run |-> p[1]]]_publicationVars

(* Publications that meet no other never put an older head in the place of *)
(* a newer one.                                                            *)
NeverBack ==
  [][meetings = 0 => \A n \in DOMAIN reviews : reviews'[n].head >= reviews[n].head]_publicationVars

(* The promise of the publication: one comment, backed by a check, that    *)
(* tells the report made last and never goes back to an older head.        *)
ReviewIsCurrent == [](OneComment /\ CommentHasCheck) /\ PublishedIsShown /\ NeverBack

=============================================================================
