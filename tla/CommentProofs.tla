------------------------------ MODULE CommentProofs ------------------------------
(***************************************************************************)
(* The promises of the two that comment on pull requests: of the reporters *)
(* of translation jobs, for any number of jobs at work at the same time,   *)
(* of commits, pull requests and faults, and whatever the source pull      *)
(* request holds at first; and of the publication of reviews, for any      *)
(* number of runs, heads and faults.                                       *)
(***************************************************************************)
EXTENDS ReportComments, ReviewPublication, Sequences, FiniteSetTheorems, SequenceTheorems,
        WellFoundedInduction, TLAPS

-----------------------------------------------------------------------------
(***************************************************************************)
(* Lines of a thread.  A set of numbers that is not empty has a least      *)
(* element, so First finds a line where there is one.                      *)
(***************************************************************************)
LEMMA Least ==
  ASSUME NEW S \in SUBSET Nat, S # {}
  PROVE  \E n \in S : \A k \in S : n <= k
<1> DEFINE R == {p \in Nat \X Nat : p[1] < p[2]}
<1>1. IsWellFoundedOn(R, Nat)
  BY NatLessThanWellFounded DEF OpToRel
<1>2. ASSUME NEW n \in S, NEW k \in S, ~(<<k, n>> \in R)
      PROVE  n <= k
  <2>1. <<k, n>> \in Nat \X Nat
    OBVIOUS
  <2> QED
    BY <1>2, <2>1
<1> HIDE DEF R
<1>3. \E n \in S : \A k \in S : ~(<<k, n>> \in R)
  BY <1>1, WFMin
<1> QED
  BY <1>2, <1>3

LEMMA FirstOfLines ==
  ASSUME NEW S \in SUBSET Nat
  PROVE  /\ S = {} => First(S) = 0
         /\ S # {} => First(S) \in S /\ \A k \in S : First(S) <= k
<1>1. CASE S = {}
  BY <1>1 DEF First
<1>2. CASE S # {}
  <2>1. \E n \in S : \A k \in S : n <= k
    BY <1>2, Least
  <2> QED
    BY <1>2, <2>1 DEF First
<1> QED
  BY <1>1, <1>2

LEMMA FirstOfOne ==
  ASSUME NEW n \in Nat
  PROVE  First({n}) = n
BY FirstOfLines, {n} \in SUBSET Nat, {n} # {}

Threadful == comments \in [Issue -> Seq(Comment)]

(* The line a comment is written to.                                       *)
PutAt(i, n) == IF n = 0 THEN Len(comments[i]) + 1 ELSE n

LEMMA OneLineWritten ==
  ASSUME Threadful, NEW i \in Issue, NEW n \in 0..Len(comments[i]), NEW c \in Comment
  PROVE  /\ Upsert(i, n, c) \in [Issue -> Seq(Comment)]
         /\ PutAt(i, n) \in DOMAIN Upsert(i, n, c)[i]
         /\ DOMAIN Upsert(i, n, c)[i] = DOMAIN comments[i] \cup {PutAt(i, n)}
         /\ Upsert(i, n, c)[i][PutAt(i, n)] = c
         /\ \A k \in DOMAIN comments[i] : k # PutAt(i, n) => Upsert(i, n, c)[i][k] = comments[i][k]
         /\ \A k \in Issue : k # i => Upsert(i, n, c)[k] = comments[k]
         /\ n = 0 => PutAt(i, n) \notin DOMAIN comments[i]
         /\ n # 0 => PutAt(i, n) \in DOMAIN comments[i]
         /\ Len(Upsert(i, n, c)[i]) >= Len(comments[i])
<1>1. comments[i] \in Seq(Comment) /\ Len(comments[i]) \in Nat
  BY DEF Threadful
<1>2. CASE n = 0
  <2>1. Upsert(i, n, c) = [comments EXCEPT ![i] = Append(@, c)]
    BY <1>2 DEF Upsert
  <2>2. Upsert(i, n, c)[i] = Append(comments[i], c)
    BY <2>1 DEF Threadful
  <2>3. Append(comments[i], c) \in Seq(Comment)
    BY <1>1
  <2>4. /\ Len(Append(comments[i], c)) = Len(comments[i]) + 1
        /\ DOMAIN Append(comments[i], c) = 1..Len(comments[i]) + 1
        /\ DOMAIN comments[i] = 1..Len(comments[i])
        /\ Append(comments[i], c)[Len(comments[i]) + 1] = c
        /\ \A k \in DOMAIN comments[i] : Append(comments[i], c)[k] = comments[i][k]
    BY <1>1
  <2>5. PutAt(i, n) = Len(comments[i]) + 1
    BY <1>2 DEF PutAt
  <2>6. Upsert(i, n, c) \in [Issue -> Seq(Comment)] /\ \A k \in Issue : k # i => Upsert(i, n, c)[k] = comments[k]
    BY <2>1, <2>3 DEF Threadful
  <2> QED
    BY <1>1, <1>2, <2>2, <2>4, <2>5, <2>6
<1>3. CASE n # 0
  <2>1. Upsert(i, n, c) = [comments EXCEPT ![i][n] = c]
    BY <1>3 DEF Upsert
  <2>2. Upsert(i, n, c)[i] = [comments[i] EXCEPT ![n] = c]
    BY <2>1 DEF Threadful
  <2>3. n \in 1..Len(comments[i]) /\ DOMAIN comments[i] = 1..Len(comments[i])
    BY <1>1, <1>3
  <2>4. [comments[i] EXCEPT ![n] = c] \in Seq(Comment)
    BY <1>1, <2>3, ExceptSeq
  <2>7. /\ Len([comments[i] EXCEPT ![n] = c]) = Len(comments[i])
        /\ DOMAIN [comments[i] EXCEPT ![n] = c] = DOMAIN comments[i]
        /\ [comments[i] EXCEPT ![n] = c][n] = c
        /\ \A k \in DOMAIN comments[i] : k # n => [comments[i] EXCEPT ![n] = c][k] = comments[i][k]
    BY <1>1, <2>3, ExceptSeq
  <2>5. PutAt(i, n) = n
    BY <1>3 DEF PutAt
  <2>6. Upsert(i, n, c) \in [Issue -> Seq(Comment)] /\ \A k \in Issue : k # i => Upsert(i, n, c)[k] = comments[k]
    BY <2>1, <2>2, <2>4 DEF Threadful
  <2> QED
    BY <1>1, <1>3, <2>2, <2>3, <2>4, <2>5, <2>6, <2>7
<1> QED
  BY <1>2, <1>3

(* What the publisher finds after a comment of its own was written.        *)
LEMMA OwnWritten ==
  ASSUME Threadful, NEW i \in Issue, NEW n \in 0..Len(comments[i]), NEW c \in Comment, c.own,
         NEW marks
  PROVE  /\ c.mark \in marks => OwnIn(Upsert(i, n, c)[i], marks) = Own(i, marks) \cup {PutAt(i, n)}
         /\ c.mark \notin marks => OwnIn(Upsert(i, n, c)[i], marks) = Own(i, marks) \ {PutAt(i, n)}
         /\ \A k \in Issue : k # i => OwnIn(Upsert(i, n, c)[k], marks) = Own(k, marks)
<1>1. \A k \in DOMAIN Upsert(i, n, c)[i] :
        Upsert(i, n, c)[i][k] = IF k = PutAt(i, n) THEN c ELSE comments[i][k]
  BY OneLineWritten
<1>2. DOMAIN Upsert(i, n, c)[i] = DOMAIN comments[i] \cup {PutAt(i, n)}
  BY OneLineWritten
<1>3. \A k \in Issue : k # i => Upsert(i, n, c)[k] = comments[k]
  BY OneLineWritten
<1> QED
  BY <1>1, <1>2, <1>3 DEF OwnIn, Own

LEMMA OwnLines ==
  ASSUME Threadful, NEW i \in Issue, NEW marks
  PROVE  /\ Own(i, marks) \in SUBSET Nat
         /\ Own(i, marks) \subseteq 1..Len(comments[i])
         /\ IsFiniteSet(Own(i, marks))
         /\ \A n \in Own(i, marks) :
              n \in DOMAIN comments[i] /\ comments[i][n].own /\ comments[i][n].mark \in marks
<1>1. comments[i] \in Seq(Comment) /\ Len(comments[i]) \in Nat /\ DOMAIN comments[i] = 1..Len(comments[i])
  BY DEF Threadful
<1>2. Own(i, marks) \subseteq 1..Len(comments[i])
  BY <1>1 DEF Own, OwnIn
<1>3. IsFiniteSet(Own(i, marks))
  <2>1. IsFiniteSet(1..Len(comments[i]))
    BY <1>1, FS_Interval
  <2> QED
    BY <1>2, <2>1, FS_Subset
<1> QED
  BY <1>1, <1>2, <1>3 DEF Own, OwnIn

-----------------------------------------------------------------------------
(***************************************************************************)
(* The shape of the state, and what a job knows at each of its requests:   *)
(* the lines it is about to rewrite are comments of the publisher.         *)
(***************************************************************************)
Knowledge ==
  [at : Stop, mode : Mode, pinned : 0..MaxCommits, sha : 0..MaxCommits, pushed : BOOLEAN,
   place : Issue, notice : Notices, found : Nat, todo : [1..3 -> SUBSET Nat], alone : BOOLEAN]

Shapes ==
  /\ Threadful
  /\ head \in 0..MaxCommits /\ commits \in 0..MaxCommits
  /\ open \in 0..MaxPulls /\ pulls \in 0..MaxPulls
  /\ job \in [Job -> Knowledge]
  /\ overlaps \in Nat /\ blind \in Nat /\ faults \in Nat

OwnLine(thread, n) == n # 0 => n \in DOMAIN thread /\ thread[n].own

Sound(r, cs) ==
  /\ r.at \in {"idle", "work", "open", "report", "pull", "list", "list_notice"} => r.found = 0
  /\ r.at \in {"idle", "work", "open", "report", "pull", "list_notice", "write_notice"} => r.place = Source
  /\ r.at \in {"source", "rewrite", "last"} => r.place # Source
  /\ r.at = "rewrite" => Lines(r.todo) # {}
  /\ r.at = "list_notice" => r.notice # "needless"
  /\ r.at = "write_notice" /\ r.notice = "needless" => r.found = 0
  /\ OwnLine(cs[r.place], r.found)
  /\ \A k \in 1..3 : \A n \in r.todo[k] : OwnLine(cs[Source], n)

SoundInv == Shapes /\ \A j \in Job : Sound(job[j], comments)

Written ==
  \/ comments' = comments
  \/ \E i \in Issue : \E n \in 0..Len(comments[i]) : \E c \in Comment :
       c.own /\ OwnLine(comments[i], n) /\ comments' = Upsert(i, n, c)

LEMMA WrittenTo ==
  ASSUME Threadful, Written
  PROVE  /\ Threadful'
         /\ \A i \in Issue : \A n \in DOMAIN comments[i] :
              /\ n \in DOMAIN comments'[i]
              /\ comments[i][n].own => comments'[i][n].own
              /\ ~comments[i][n].own => comments'[i][n] = comments[i][n]
         /\ \A i \in Issue, n \in Nat : OwnLine(comments[i], n) => OwnLine(comments'[i], n)
<1>1. CASE comments' = comments
  BY <1>1 DEF Threadful
<1>2. ASSUME NEW i \in Issue, NEW n \in 0..Len(comments[i]), NEW c \in Comment,
             c.own, OwnLine(comments[i], n), comments' = Upsert(i, n, c)
      PROVE  /\ Threadful'
             /\ \A k \in Issue : \A m \in DOMAIN comments[k] :
                  /\ m \in DOMAIN comments'[k]
                  /\ comments[k][m].own => comments'[k][m].own
                  /\ ~comments[k][m].own => comments'[k][m] = comments[k][m]
  <2>1. Threadful'
    BY <1>2, OneLineWritten DEF Threadful
  <2>2. \A k \in Issue : k # i => comments'[k] = comments[k]
    BY <1>2, OneLineWritten
  <2>3. ASSUME NEW m \in DOMAIN comments[i]
        PROVE  /\ m \in DOMAIN comments'[i]
               /\ comments[i][m].own => comments'[i][m].own
               /\ ~comments[i][m].own => comments'[i][m] = comments[i][m]
    <3>1. /\ DOMAIN comments'[i] = DOMAIN comments[i] \cup {PutAt(i, n)}
          /\ comments'[i][PutAt(i, n)] = c
          /\ m # PutAt(i, n) => comments'[i][m] = comments[i][m]
          /\ n = 0 => PutAt(i, n) \notin DOMAIN comments[i]
      BY <1>2, OneLineWritten
    <3>2. m = PutAt(i, n) => comments[i][m].own
      BY <1>2, <3>1 DEF OwnLine, PutAt
    <3> QED
      BY <1>2, <3>1, <3>2
  <2> QED
    BY <2>1, <2>2, <2>3
<1> QED
  BY <1>1, <1>2 DEF Written, OwnLine

LEMMA SoundStays ==
  ASSUME Threadful, Written, NEW r \in Knowledge, Sound(r, comments)
  PROVE  Sound(r, comments')
<1>1. r.place \in Issue /\ r.found \in Nat /\ Source \in Issue /\ r.todo \in [1..3 -> SUBSET Nat]
  BY DEF Knowledge, Issue
<1>2. OwnLine(comments'[r.place], r.found)
  BY <1>1, WrittenTo DEF Sound
<1>3. \A k \in 1..3 : \A n \in r.todo[k] : OwnLine(comments'[Source], n)
  BY <1>1, WrittenTo DEF Sound
<1> QED
  BY <1>2, <1>3 DEF Sound
-----------------------------------------------------------------------------
(***************************************************************************)
(* What a request does: it writes one line of the publisher or none, and   *)
(* the job that made it knows what is sound.                               *)
(***************************************************************************)
OverAt == {"acked", "ended"}

Steps(j) ==
  /\ Written
  /\ \E r \in Knowledge :
       /\ Become(j, r) /\ Sound(r, comments') /\ r.at # "idle"
       /\ r.at \notin OverAt => r.alone = job[j].alone

LEMMA FreshIsSound ==
  ASSUME NEW how \in Stop
  PROVE  /\ Fresh(how) \in Knowledge
         /\ how \in {"idle", "work", "acked", "ended"} => \A cs : Sound(Fresh(how), cs)
<1>1. Fresh(how) \in Knowledge
  BY CommentAssumption DEF Fresh, Knowledge, Mode, Issue, Notices
<1>2. ASSUME how \in {"idle", "work", "acked", "ended"}, NEW cs
      PROVE  Sound(Fresh(how), cs)
  <2>1. \A k \in 1..3 : <<{}, {}, {}>>[k] = {}
    OBVIOUS
  <2> QED
    BY <1>2, <2>1 DEF Fresh, Sound, OwnLine
<1> QED
  BY <1>1, <1>2

LEMMA Ending ==
  ASSUME Written, NEW j \in Job, NEW how \in {"acked", "ended"}, End(j, how)
  PROVE  Steps(j)
<1>1. Fresh(how).at = how
  BY DEF Fresh
<1> QED
  BY <1>1, FreshIsSound DEF End, Steps, Stop, OverAt

LEMMA GoingOn ==
  ASSUME SoundInv, Written, NEW j \in Job, NEW r \in Knowledge, Become(j, r),
         r.at # "idle", r.alone = job[j].alone,
         Sound(job[j], comments) => Sound(r, comments)
  PROVE  Steps(j)
BY SoundStays DEF SoundInv, Shapes, Steps

LEMMA Sending ==
  ASSUME SoundInv, NEW i \in Issue, NEW n \in Nat, OwnLine(comments[i], n), NEW c \in Comment, c.own,
         NEW out \in Outcome, Sent(i, n, c, out)
  PROVE  Written /\ n \in 0..Len(comments[i])
<1>1. n \in 0..Len(comments[i])
  BY DEF OwnLine, SoundInv, Shapes, Threadful
<1> QED
  BY <1>1 DEF Sent, Written

LEMMA CommentsOf ==
  ASSUME SoundInv, NEW j \in Job
  PROVE  /\ QA(j) \in Comment /\ QA(j).own /\ QA(j).mark = "qa" /\ QA(j).says = job[j].sha
         /\ job[j].place # Source =>
              Link(j) \in Comment /\ Link(j).own /\ Link(j).mark = "link" /\ Link(j).says = job[j].place
         /\ \A m \in Notices : [own |-> TRUE, mark |-> m, says |-> 0] \in Comment
<1>1. job[j].sha \in 0..MaxCommits /\ job[j].place \in {Source} \cup Pull
  BY DEF SoundInv, Shapes, Knowledge, Issue
<1> QED
  BY <1>1, CommentAssumption DEF QA, Link, Comment, Mark, Notices

(* What a listing finds is there, and the publisher's.                     *)
LEMMA Found ==
  ASSUME Threadful, NEW i \in Issue, NEW marks, NEW known \in BOOLEAN
  PROVE  /\ Seen(known, i, marks) \in SUBSET Nat
         /\ \A n \in Seen(known, i, marks) : OwnLine(comments[i], n)
         /\ First(Seen(known, i, marks)) \in Nat
         /\ OwnLine(comments[i], First(Seen(known, i, marks)))
<1>1. /\ Seen(known, i, marks) \in SUBSET Nat
      /\ \A n \in Seen(known, i, marks) : OwnLine(comments[i], n)
  BY OwnLines DEF Seen, OwnLine
<1>2. \/ First(Seen(known, i, marks)) = 0
      \/ First(Seen(known, i, marks)) \in Seen(known, i, marks)
  BY <1>1, FirstOfLines
<1> QED
  BY <1>1, <1>2 DEF OwnLine
(* The groups of lines to rewrite.                                         *)
LEMMA Rewriting ==
  ASSUME Threadful, NEW links \in SUBSET Nat, NEW legacy \in SUBSET Nat, NEW qa \in SUBSET Nat
  PROVE  LET todo == ToRewrite(links, legacy, qa)
         IN  /\ todo \in [1..3 -> SUBSET Nat]
             /\ Lines(todo) # {}
             /\ Lines(todo) \subseteq {0} \cup links \cup legacy \cup qa
             /\ links \subseteq Lines(todo)
             /\ qa # {} => First(qa) \in Lines(todo)
<1> DEFINE todo == ToRewrite(links, legacy, qa)
<1>1. PICK a \in SUBSET Nat, b \in SUBSET Nat, c \in SUBSET Nat :
        /\ todo = <<a, b, c>>
        /\ a \cup b \cup c # {}
        /\ a \cup b \cup c \subseteq {0} \cup links \cup legacy \cup qa
        /\ links \subseteq a \cup b \cup c
        /\ qa # {} => First(qa) \in a \cup b \cup c
  <2>1. qa # {} => First(qa) \in qa
    BY FirstOfLines
  <2>2. CASE links = {} /\ qa # {}
    <3>1. todo = <<{}, {}, {First(qa)}>>
      BY <2>2 DEF ToRewrite
    <3> QED
      BY <2>1, <2>2, <3>1
  <2>3. CASE links = {} /\ qa = {} /\ legacy = {}
    <3>1. todo = <<{0}, {}, {}>>
      BY <2>3 DEF ToRewrite
    <3> QED
      BY <2>3, <3>1
  <2>4. CASE links # {} /\ qa # {}
    <3>1. todo = <<links, legacy, {First(qa)}>>
      BY <2>4 DEF ToRewrite
    <3> QED
      BY <2>1, <2>4, <3>1
  <2>5. CASE qa = {} /\ (links # {} \/ legacy # {})
    <3>1. todo = <<links, legacy, {}>>
      BY <2>5 DEF ToRewrite
    <3> QED
      BY <2>5, <3>1
  <2> QED
    BY <2>2, <2>3, <2>4, <2>5
<1> HIDE DEF todo
<1>2. todo \in [1..3 -> SUBSET Nat]
  <2>1. todo \in Seq(SUBSET Nat) /\ Len(todo) = 3
    BY <1>1
  <2> QED
    BY <2>1, LenProperties
<1>3. Lines(todo) = a \cup b \cup c
  <2>1. DOMAIN todo = 1..3 /\ todo[1] = a /\ todo[2] = b /\ todo[3] = c
    BY <1>1
  <2>2. \A k \in 1..3 : k = 1 \/ k = 2 \/ k = 3
    OBVIOUS
  <2>3. 1 \in 1..3 /\ 2 \in 1..3 /\ 3 \in 1..3
    OBVIOUS
  <2> QED
    BY <2>1, <2>2, <2>3 DEF Lines
<1> QED
  BY <1>1, <1>2, <1>3 DEF todo

(* One line is taken from them at a time.                                  *)
LEMMA OneLineTaken ==
  ASSUME NEW todo \in [1..3 -> SUBSET Nat], Lines(todo) # {}
  PROVE  /\ NextLine(todo) \in Lines(todo) /\ NextLine(todo) \in Nat
         /\ \E k \in 1..3 : NextLine(todo) \in todo[k]
         /\ Left(todo) \in [1..3 -> SUBSET Nat]
         /\ Lines(Left(todo)) \subseteq Lines(todo)
         /\ Lines(todo) \subseteq Lines(Left(todo)) \cup {NextLine(todo)}
         /\ \A k \in 1..3 : Left(todo)[k] \subseteq todo[k]
<1> DEFINE G == {k \in DOMAIN todo : todo[k] # {}}
<1>1. G \in SUBSET Nat /\ G # {}
  BY DEF Lines
<1>2. Group(todo) \in 1..3 /\ todo[Group(todo)] # {}
  BY <1>1, FirstOfLines DEF Group
<1>3. NextLine(todo) \in todo[Group(todo)]
  BY <1>2, FirstOfLines DEF NextLine
<1>4. Left(todo) = [todo EXCEPT ![Group(todo)] = todo[Group(todo)] \ {NextLine(todo)}]
  BY <1>2 DEF Left, NextLine
<1> QED
  BY <1>2, <1>3, <1>4 DEF Lines

-----------------------------------------------------------------------------
LEMMA PublishSteps == ASSUME SoundInv, NEW j \in Job, Publish(j) PROVE Steps(j)
<1>1. comments' = comments
  BY DEF Publish
<1>2. Written
  BY <1>1 DEF Written
<1>3. job[j] \in Knowledge
  BY DEF SoundInv, Shapes
<1>4. CASE Become(j, [job[j] EXCEPT !.at = "report", !.sha = job[j].pinned])
  <2>1. [job[j] EXCEPT !.at = "report", !.sha = job[j].pinned] \in Knowledge
    BY <1>3 DEF Knowledge, Stop
  <2> QED
    BY <1>2, <1>3, <1>4, <2>1, GoingOn DEF Sound, Knowledge, Publish
<1>5. CASE /\ commits < MaxCommits /\ commits' = commits + 1
           /\ Become(j, [job[j] EXCEPT !.at = "open", !.sha = commits', !.pushed = TRUE])
  <2>1. commits' \in 0..MaxCommits
    BY <1>5, CommentAssumption DEF SoundInv, Shapes
  <2>2. [job[j] EXCEPT !.at = "open", !.sha = commits', !.pushed = TRUE] \in Knowledge
    BY <1>3, <2>1 DEF Knowledge, Stop
  <2> QED
    BY <1>2, <1>3, <1>5, <2>2, GoingOn DEF Sound, Knowledge, Publish
<1>6. CASE End(j, "ended")
  BY <1>2, <1>6, Ending
<1> QED
  BY <1>4, <1>5, <1>6 DEF Publish

LEMMA OpenSteps == ASSUME SoundInv, NEW j \in Job, Open(j) PROVE Steps(j)
<1>1. Written /\ job[j] \in Knowledge
  BY DEF Open, Written, SoundInv, Shapes
<1>2. CASE GoOn(j, "report")
  <2>1. [job[j] EXCEPT !.at = "report"] \in Knowledge
    BY <1>1 DEF Knowledge, Stop
  <2> QED
    BY <1>1, <1>2, <2>1, GoingOn DEF Sound, Knowledge, Open, GoOn
<1>3. CASE End(j, "ended")
  BY <1>1, <1>3, Ending
<1> QED
  BY <1>2, <1>3 DEF Open

LEMMA ReportSteps == ASSUME SoundInv, NEW j \in Job, Report(j) PROVE Steps(j)
<1>1. Written /\ job[j] \in Knowledge
  BY DEF Report, Written, SoundInv, Shapes
<1>2. CASE Become(j, [job[j] EXCEPT !.at = "list", !.place = Source])
  <2>1. [job[j] EXCEPT !.at = "list", !.place = Source] \in Knowledge
    BY <1>1 DEF Knowledge, Stop, Issue
  <2> QED
    BY <1>1, <1>2, <2>1, GoingOn DEF Sound, Knowledge, Report
<1>3. CASE GoOn(j, "pull")
  <2>1. [job[j] EXCEPT !.at = "pull"] \in Knowledge
    BY <1>1 DEF Knowledge, Stop
  <2> QED
    BY <1>1, <1>3, <2>1, GoingOn DEF Sound, Knowledge, Report, GoOn
<1>4. CASE End(j, "ended") \/ End(j, "acked")
  BY <1>1, <1>4, Ending
<1> QED
  BY <1>2, <1>3, <1>4 DEF Report

LEMMA EnsuredPull ==
  ASSUME SoundInv, NEW out \in Outcome, Ensured(out)
  PROVE  open' \in 0..MaxPulls /\ pulls' \in 0..MaxPulls /\ faults' \in Nat
BY CommentAssumption DEF SoundInv, Shapes, Ensured, Counted, pullVars

LEMMA FindPullSteps == ASSUME SoundInv, NEW j \in Job, FindPull(j) PROVE Steps(j)
<1>1. Written /\ job[j] \in Knowledge
  BY DEF FindPull, Written, SoundInv, Shapes
<1>2. open' \in 0..MaxPulls
  BY EnsuredPull DEF FindPull, SoundInv, Shapes, pullVars
<1>3. CASE Chosen(j)
  <2>1. open' \in Issue
    BY <1>2, CommentAssumption DEF Issue, Source, Pull
  <2>2. [job[j] EXCEPT !.at = "list", !.place = open'] \in Knowledge
    BY <1>1, <2>1 DEF Knowledge, Stop
  <2> QED
    BY <1>1, <1>3, <2>2, GoingOn DEF Sound, Knowledge, FindPull, Chosen, OwnLine
<1>4. CASE End(j, "ended")
  BY <1>1, <1>4, Ending
<1> QED
  BY <1>3, <1>4 DEF FindPull
LEMMA ListSteps == ASSUME SoundInv, NEW j \in Job, List(j) PROVE Steps(j)
<1>1. Written /\ job[j] \in Knowledge /\ job[j].place \in Issue /\ Threadful
  BY DEF List, Written, SoundInv, Shapes, Knowledge
<1>2. PICK n \in Nat : OwnLine(comments[job[j].place], n)
                       /\ Become(j, [job[j] EXCEPT !.at = "write", !.found = n])
  BY <1>1, Found DEF List
<1>3. [job[j] EXCEPT !.at = "write", !.found = n] \in Knowledge
  BY <1>1 DEF Knowledge, Stop
<1> QED
  BY <1>1, <1>2, <1>3, GoingOn DEF Sound, Knowledge

LEMMA WriteReportSteps == ASSUME SoundInv, NEW j \in Job, WriteReport(j) PROVE Steps(j)
<1>1. /\ job[j] \in Knowledge /\ job[j].place \in Issue /\ job[j].found \in Nat
      /\ OwnLine(comments[job[j].place], job[j].found)
  BY DEF SoundInv, Shapes, Knowledge, Sound
<1>2. CASE job[j].place # Source /\ Moved(j)
  <2>1. comments' = comments /\ End(j, "ended")
    BY <1>2 DEF WriteReport
  <2> QED
    BY <2>1, Ending DEF Written
<1>3. CASE ~(job[j].place # Source /\ Moved(j))
  <2>1. PICK out \in Outcome :
          /\ Sent(job[j].place, job[j].found, QA(j), out)
          /\ IF out # "answered" THEN End(j, "ended")
             ELSE IF job[j].place = Source THEN End(j, "acked") ELSE GoOn(j, "source")
    BY <1>3 DEF WriteReport
  <2>2. Written
    BY <1>1, <2>1, Sending, CommentsOf
  <2>3. CASE End(j, "ended") \/ End(j, "acked")
    BY <2>2, <2>3, Ending
  <2>4. CASE job[j].place # Source /\ GoOn(j, "source")
    <3>1. [job[j] EXCEPT !.at = "source"] \in Knowledge
      BY <1>1 DEF Knowledge, Stop
    <3> QED
      BY <1>1, <2>2, <2>4, <3>1, GoingOn DEF Sound, Knowledge, GoOn
  <2> QED
    BY <2>1, <2>3, <2>4
<1> QED
  BY <1>2, <1>3

(* The lines a job is to rewrite are those of the listing.                 *)
LEMMA SourceListed ==
  ASSUME SoundInv, NEW j \in Job, ListSource(j)
  PROVE  \E known \in BOOLEAN : \E todo \in [1..3 -> SUBSET Nat] :
           /\ Listing(known)
           /\ Become(j, [job[j] EXCEPT !.at = "rewrite", !.todo = todo])
           /\ todo = ToRewrite(Seen(known, Source, {"link"}), Seen(known, Source, {"legacy"}),
                               Seen(known, Source, {"qa"}))
           /\ Lines(todo) # {}
           /\ \A n \in Lines(todo) : OwnLine(comments[Source], n)
           /\ Seen(known, Source, {"link"}) \subseteq Lines(todo)
           /\ Seen(known, Source, {"qa"}) # {} => First(Seen(known, Source, {"qa"})) \in Lines(todo)
<1>1. PICK known \in BOOLEAN :
        /\ Listing(known)
        /\ Become(j, [job[j] EXCEPT !.at = "rewrite",
             !.todo = ToRewrite(Seen(known, Source, {"link"}), Seen(known, Source, {"legacy"}),
                                Seen(known, Source, {"qa"}))])
  BY DEF ListSource
<1> DEFINE links == Seen(known, Source, {"link"})
           legacy == Seen(known, Source, {"legacy"})
           qa == Seen(known, Source, {"qa"})
           todo == ToRewrite(links, legacy, qa)
<1>2. Threadful /\ Source \in Issue
  BY DEF SoundInv, Shapes, Issue
<1>3. /\ links \in SUBSET Nat /\ legacy \in SUBSET Nat /\ qa \in SUBSET Nat
      /\ \A n \in {0} \cup links \cup legacy \cup qa : OwnLine(comments[Source], n)
  BY <1>2, Found DEF OwnLine
<1>4. /\ Become(j, [job[j] EXCEPT !.at = "rewrite", !.todo = todo])
      /\ todo = ToRewrite(links, legacy, qa)
  BY <1>1
<1> HIDE DEF links, legacy, qa
<1>5. /\ todo \in [1..3 -> SUBSET Nat]
      /\ Lines(todo) # {}
      /\ Lines(todo) \subseteq {0} \cup links \cup legacy \cup qa
      /\ links \subseteq Lines(todo)
      /\ qa # {} => First(qa) \in Lines(todo)
  BY <1>2, <1>3, Rewriting
<1> QED
  BY <1>1, <1>3, <1>4, <1>5 DEF links, legacy, qa

LEMMA ListSourceSteps == ASSUME SoundInv, NEW j \in Job, ListSource(j) PROVE Steps(j)
<1>1. Written /\ job[j] \in Knowledge
  BY DEF ListSource, Written, SoundInv, Shapes
<1>2. PICK todo \in [1..3 -> SUBSET Nat] :
        /\ Become(j, [job[j] EXCEPT !.at = "rewrite", !.todo = todo])
        /\ Lines(todo) # {}
        /\ \A n \in Lines(todo) : OwnLine(comments[Source], n)
  BY SourceListed
<1>3. [job[j] EXCEPT !.at = "rewrite", !.todo = todo] \in Knowledge
  BY <1>1 DEF Knowledge, Stop
<1>4. \A k \in 1..3 : \A n \in todo[k] : OwnLine(comments[Source], n)
  BY <1>2 DEF Lines
<1> QED
  BY <1>1, <1>2, <1>3, <1>4, GoingOn DEF Sound, Knowledge, ListSource

(* A line is rewritten, and the others are left to rewrite.                *)
LEMMA LineRewritten ==
  ASSUME SoundInv, NEW j \in Job, Rewrite(j)
  PROVE  \E out \in Outcome :
           LET todo == job[j].todo
           IN  /\ Sent(Source, NextLine(todo), Link(j), out)
               /\ NextLine(todo) \in 0..Len(comments[Source])
               /\ Written
               /\ job[j].place # Source
               /\ todo \in [1..3 -> SUBSET Nat] /\ Lines(todo) # {}
               /\ IF out # "answered" THEN End(j, "ended")
                  ELSE \E next \in {"rewrite", "last"} :
                         /\ Become(j, [job[j] EXCEPT !.at = next, !.todo = Left(todo)])
                         /\ next = "last" <=> Lines(Left(todo)) = {}
<1> DEFINE todo == job[j].todo
<1>1. PICK out \in Outcome :
        /\ Sent(Source, NextLine(todo), Link(j), out)
        /\ IF out # "answered" THEN End(j, "ended")
           ELSE Become(j, [job[j] EXCEPT
                             !.at = IF Lines(Left(job[j].todo)) = {} THEN "last" ELSE @,
                             !.todo = Left(@)])
  BY DEF Rewrite
<1>2. /\ job[j] \in Knowledge /\ todo \in [1..3 -> SUBSET Nat] /\ Lines(todo) # {}
      /\ job[j].place # Source /\ job[j].at = "rewrite" /\ Source \in Issue
      /\ \A k \in 1..3 : \A n \in todo[k] : OwnLine(comments[Source], n)
  BY DEF SoundInv, Shapes, Knowledge, Sound, Rewrite, Issue
<1>3. NextLine(todo) \in Nat /\ OwnLine(comments[Source], NextLine(todo))
  BY <1>2, OneLineTaken
<1>4. Written /\ NextLine(todo) \in 0..Len(comments[Source])
  BY <1>1, <1>2, <1>3, Sending, CommentsOf
<1>5. ASSUME out = "answered"
      PROVE  \E next \in {"rewrite", "last"} :
               /\ Become(j, [job[j] EXCEPT !.at = next, !.todo = Left(todo)])
               /\ next = "last" <=> Lines(Left(todo)) = {}
  <2>1. CASE Lines(Left(todo)) = {}
    <3>1. Become(j, [job[j] EXCEPT !.at = "last", !.todo = Left(todo)])
      BY <1>1, <1>2, <1>5, <2>1 DEF Knowledge
    <3> QED
      BY <2>1, <3>1
  <2>2. CASE Lines(Left(todo)) # {}
    <3>1. Become(j, [job[j] EXCEPT !.at = "rewrite", !.todo = Left(todo)])
      BY <1>1, <1>2, <1>5, <2>2 DEF Knowledge
    <3> QED
      BY <2>2, <3>1
  <2> QED
    BY <2>1, <2>2
<1> QED
  BY <1>1, <1>2, <1>4, <1>5

LEMMA RewriteSteps == ASSUME SoundInv, NEW j \in Job, Rewrite(j) PROVE Steps(j)
<1> DEFINE todo == job[j].todo
<1>1. PICK out \in Outcome :
        /\ Written /\ job[j].place # Source
        /\ todo \in [1..3 -> SUBSET Nat] /\ Lines(todo) # {}
        /\ IF out # "answered" THEN End(j, "ended")
           ELSE \E next \in {"rewrite", "last"} :
                  /\ Become(j, [job[j] EXCEPT !.at = next, !.todo = Left(todo)])
                  /\ next = "last" <=> Lines(Left(todo)) = {}
  BY LineRewritten
<1>2. CASE out # "answered"
  BY <1>1, <1>2, Ending
<1>3. CASE out = "answered"
  <2>1. PICK next \in {"rewrite", "last"} :
          /\ Become(j, [job[j] EXCEPT !.at = next, !.todo = Left(todo)])
          /\ next = "last" <=> Lines(Left(todo)) = {}
    BY <1>1, <1>3
  <2>2. Left(todo) \in [1..3 -> SUBSET Nat] /\ \A k \in 1..3 : Left(todo)[k] \subseteq todo[k]
    BY <1>1, OneLineTaken
  <2>3. job[j] \in Knowledge
    BY DEF SoundInv, Shapes
  <2>4. [job[j] EXCEPT !.at = next, !.todo = Left(todo)] \in Knowledge
    BY <2>2, <2>3 DEF Knowledge, Stop
  <2>5. Sound(job[j], comments) => Sound([job[j] EXCEPT !.at = next, !.todo = Left(todo)], comments)
    BY <1>1, <2>1, <2>2, <2>3 DEF Sound, Knowledge
  <2>6. /\ [job[j] EXCEPT !.at = next, !.todo = Left(todo)].at # "idle"
        /\ [job[j] EXCEPT !.at = next, !.todo = Left(todo)].alone = job[j].alone
    BY <2>3 DEF Knowledge
  <2> QED
    BY <1>1, <2>1, <2>4, <2>5, <2>6, GoingOn
<1> QED
  BY <1>2, <1>3

LEMMA AcknowledgeSteps == ASSUME SoundInv, NEW j \in Job, Acknowledge(j) PROVE Steps(j)
<1>1. Written
  BY DEF Acknowledge, Written
<1> QED
  BY <1>1, Ending DEF Acknowledge

LEMMA RefuseSteps == ASSUME SoundInv, NEW j \in Job, Refuse(j) PROVE Steps(j)
<1>1. Written /\ job[j] \in Knowledge /\ job[j].at = "work"
  BY DEF Refuse, Written, SoundInv, Shapes
<1>2. PICK m \in Notices, next \in {"write_notice", "list_notice"} :
        /\ Become(j, [job[j] EXCEPT !.notice = m, !.at = next])
        /\ next = "list_notice" => m # "needless"
  BY DEF Refuse
<1>3. [job[j] EXCEPT !.notice = m, !.at = next] \in Knowledge
  BY <1>1 DEF Knowledge, Stop
<1> QED
  BY <1>1, <1>2, <1>3, GoingOn DEF Sound, Knowledge

LEMMA ListNoticesSteps == ASSUME SoundInv, NEW j \in Job, ListNotices(j) PROVE Steps(j)
<1>1. /\ Written /\ job[j] \in Knowledge /\ job[j].at = "list_notice" /\ Threadful
      /\ Source \in Issue
  BY DEF ListNotices, Written, SoundInv, Shapes, Issue
<1>2. PICK n \in Nat : OwnLine(comments[Source], n)
                       /\ Become(j, [job[j] EXCEPT !.at = "write_notice", !.found = n])
  BY <1>1, Found DEF ListNotices
<1>3. [job[j] EXCEPT !.at = "write_notice", !.found = n] \in Knowledge
  BY <1>1 DEF Knowledge, Stop
<1> QED
  BY <1>1, <1>2, <1>3, GoingOn DEF Sound, Knowledge

LEMMA WriteNoticeSteps == ASSUME SoundInv, NEW j \in Job, WriteNotice(j) PROVE Steps(j)
<1>1. /\ job[j] \in Knowledge /\ Source \in Issue /\ job[j].found \in Nat
      /\ job[j].notice \in Notices /\ OwnLine(comments[Source], job[j].found)
  BY DEF SoundInv, Shapes, Knowledge, Sound, WriteNotice, Issue
<1>2. PICK out \in Outcome :
        /\ Sent(Source, job[j].found, [own |-> TRUE, mark |-> job[j].notice, says |-> 0], out)
        /\ End(j, IF out = "answered" /\ job[j].notice = "needless" THEN "acked" ELSE "ended")
  BY DEF WriteNotice
<1>3. [own |-> TRUE, mark |-> job[j].notice, says |-> 0] \in Comment
  BY <1>1, CommentsOf
<1>4. Written
  BY <1>1, <1>2, <1>3, Sending
<1> QED
  BY <1>2, <1>4, Ending

LEMMA WorkSteps == ASSUME SoundInv, NEW j \in Job, Work(j) PROVE Steps(j)
BY PublishSteps, OpenSteps, ReportSteps, FindPullSteps, ListSteps, WriteReportSteps,
   ListSourceSteps, RewriteSteps, AcknowledgeSteps, RefuseSteps, ListNoticesSteps,
   WriteNoticeSteps DEF Work
LEMMA WorkCounts ==
  ASSUME SoundInv, NEW j \in Job, Work(j)
  PROVE  /\ head' \in 0..MaxCommits /\ commits' \in 0..MaxCommits
         /\ open' \in 0..MaxPulls /\ pulls' \in 0..MaxPulls
         /\ overlaps' = overlaps /\ blind' \in Nat /\ faults' \in Nat
         /\ blind <= blind'
<1> USE CommentAssumption DEF SoundInv, Shapes, branchVars, pullVars
<1>1. CASE Publish(j)
  BY <1>1 DEF Publish
<1>2. CASE Open(j)
  BY <1>2, EnsuredPull DEF Open
<1>3. CASE Report(j)
  BY <1>3 DEF Report
<1>4. CASE FindPull(j)
  BY <1>4, EnsuredPull DEF FindPull
<1>5. CASE List(j)
  BY <1>5 DEF List, Listing
<1>6. CASE WriteReport(j)
  BY <1>6 DEF WriteReport, Sent, Counted
<1>7. CASE ListSource(j)
  BY <1>7 DEF ListSource, Listing
<1>8. CASE Rewrite(j)
  BY <1>8 DEF Rewrite, Sent, Counted
<1>9. CASE Acknowledge(j)
  BY <1>9 DEF Acknowledge
<1>10. CASE Refuse(j)
  BY <1>10 DEF Refuse
<1>11. CASE ListNotices(j)
  BY <1>11 DEF ListNotices, Listing
<1>12. CASE WriteNotice(j)
  BY <1>12 DEF WriteNotice, Sent, Counted
<1> QED
  BY <1>1, <1>2, <1>3, <1>4, <1>5, <1>6, <1>7, <1>8, <1>9, <1>10, <1>11, <1>12 DEF Work

(* A step of a job leaves the other jobs alone.                            *)
LEMMA OneJob ==
  ASSUME SoundInv, NEW j \in Job, NEW r \in Knowledge, Become(j, r)
  PROVE  /\ job' \in [Job -> Knowledge] /\ job'[j] = r
         /\ \A i \in Job : i # j => job'[i] = job[i]
BY DEF SoundInv, Shapes, Become

LEMMA BeginJobs ==
  ASSUME SoundInv, NEW j \in Job, NEW m \in Mode, Begin(j, m)
  PROVE  /\ head' \in 0..MaxCommits /\ open' \in 0..MaxPulls
         /\ job'[j] = [Fresh("work") EXCEPT !.mode = m, !.pinned = head', !.alone = AtWork = {}]
         /\ \A i \in Job : i # j => job'[i] = IF i \in AtWork THEN [job[i] EXCEPT !.alone = FALSE] ELSE job[i]
         /\ job' \in [Job -> Knowledge]
         /\ comments' = comments /\ commits' = commits /\ pulls' = pulls
         /\ blind' = blind /\ faults' = faults
         /\ overlaps' = IF AtWork = {} THEN overlaps ELSE overlaps + 1
<1>0. (head' = 0 /\ open' = 0) \/ (head' = head /\ open' = open)
  BY Zenon DEF Begin
<1>1. head' \in 0..MaxCommits /\ open' \in 0..MaxPulls
  BY <1>0, CommentAssumption DEF SoundInv, Shapes
<1>2. job' = [i \in Job |->
        IF i = j THEN [Fresh("work") EXCEPT !.mode = m, !.pinned = head', !.alone = AtWork = {}]
        ELSE IF i \in AtWork THEN [job[i] EXCEPT !.alone = FALSE] ELSE job[i]]
  BY DEF Begin
<1>3. [Fresh("work") EXCEPT !.mode = m, !.pinned = head', !.alone = AtWork = {}] \in Knowledge
  <2>1. Fresh("work") \in Knowledge
    BY FreshIsSound DEF Stop
  <2>2. (AtWork = {}) \in BOOLEAN
    OBVIOUS
  <2> HIDE DEF AtWork
  <2> QED
    BY <1>1, <2>1, <2>2 DEF Knowledge
<1>4. \A i \in Job : job[i] \in Knowledge /\ [job[i] EXCEPT !.alone = FALSE] \in Knowledge
  BY DEF SoundInv, Shapes, Knowledge
<1>5. job' \in [Job -> Knowledge]
  BY <1>2, <1>3, <1>4
<1>6. /\ comments' = comments /\ commits' = commits /\ pulls' = pulls
      /\ blind' = blind /\ faults' = faults
      /\ overlaps' = IF AtWork = {} THEN overlaps ELSE overlaps + 1
  BY Zenon DEF Begin
<1> HIDE DEF AtWork
<1>7. job'[j] = [Fresh("work") EXCEPT !.mode = m, !.pinned = head', !.alone = AtWork = {}]
  BY <1>2
<1>8. \A i \in Job : i # j => job'[i] = IF i \in AtWork THEN [job[i] EXCEPT !.alone = FALSE] ELSE job[i]
  BY <1>2
<1> QED
  BY <1>1, <1>5, <1>6, <1>7, <1>8

LEMMA SoundNext ==
  ASSUME SoundInv, [CommentNext]_commentVars
  PROVE  SoundInv' /\ Written
<1> USE DEF SoundInv
<1>1. CASE UNCHANGED commentVars
  BY <1>1 DEF commentVars, branchVars, pullVars, Shapes, Threadful, Written
<1>2. ASSUME NEW j \in Job, Work(j)
      PROVE  SoundInv' /\ Written
  <2>1. Steps(j)
    BY <1>2, WorkSteps
  <2>2. PICK r \in Knowledge : Become(j, r) /\ Sound(r, comments')
    BY <2>1 DEF Steps
  <2>3. Written /\ Threadful'
    BY <2>1, WrittenTo DEF Steps, Shapes
  <2>4. Shapes'
    BY <1>2, <2>2, <2>3, WorkCounts, OneJob DEF Shapes
  <2>5. \A i \in Job : Sound(job'[i], comments')
    BY <2>2, <2>3, OneJob, SoundStays DEF Shapes
  <2> QED
    BY <2>3, <2>4, <2>5
<1>3. ASSUME NEW j \in Job, NEW m \in Mode, Begin(j, m)
      PROVE  SoundInv' /\ Written
  <2>1. Written /\ Threadful'
    BY <1>3 DEF Begin, Written, Shapes, Threadful
  <2>2. Shapes'
    <3>1. overlaps' = overlaps \/ overlaps' = overlaps + 1
      BY <1>3, BeginJobs
    <3>2. /\ head' \in 0..MaxCommits /\ open' \in 0..MaxPulls /\ job' \in [Job -> Knowledge]
          /\ commits' = commits /\ pulls' = pulls /\ blind' = blind /\ faults' = faults
      BY <1>3, BeginJobs
    <3> QED
      BY <2>1, <3>1, <3>2 DEF Shapes
  <2>3. ASSUME NEW i \in Job
        PROVE  Sound(job'[i], comments')
    <3>1. CASE i = j
      <4>1. Sound(Fresh("work"), comments') /\ Fresh("work") \in Knowledge
        BY FreshIsSound DEF Stop
      <4>2. job'[i] = [Fresh("work") EXCEPT !.mode = m, !.pinned = head', !.alone = AtWork = {}]
        BY <1>3, <3>1, BeginJobs
      <4> QED
        BY <4>1, <4>2 DEF Sound, Knowledge
    <3>2. CASE i # j
      <4>1. job'[i] = job[i] \/ job'[i] = [job[i] EXCEPT !.alone = FALSE]
        BY <1>3, <3>2, BeginJobs
      <4>2. job[i] \in Knowledge /\ Sound(job[i], comments) /\ comments' = comments
        BY <1>3 DEF Shapes, Begin
      <4> QED
        BY <4>1, <4>2 DEF Sound, Knowledge
    <3> QED
      BY <3>1, <3>2
  <2> QED
    BY <2>1, <2>2, <2>3
<1>4. CASE OutsidePush
  BY <1>4, CommentAssumption DEF OutsidePush, pullVars, Shapes, Threadful, Written
<1>5. CASE OutsideClose
  BY <1>5, CommentAssumption DEF OutsideClose, branchVars, Shapes, Threadful, Written
<1> QED
  BY <1>1, <1>2, <1>3, <1>4, <1>5 DEF CommentNext

LEMMA InitIsSound ==
  ASSUME CommentInit
  PROVE  SoundInv
<1>1. PICK t \in Threads : comments = [i \in Issue |-> IF i = Source THEN t ELSE <<>>]
  BY DEF CommentInit
<1>2. t \in Seq(Comment) /\ <<>> \in Seq(Comment)
  BY ThreadAssumption
<1>3. Threadful
  BY <1>1, <1>2 DEF Threadful
<1>4. Fresh("idle") \in Knowledge /\ \A cs : Sound(Fresh("idle"), cs)
  BY FreshIsSound DEF Stop
<1> QED
  BY <1>3, <1>4, CommentAssumption DEF CommentInit, SoundInv, Shapes

(* Reports, links and notices overwrite comments of the publisher only,    *)
(* and always one that is there.                                           *)
THEOREM SoundInvariant == CommentSpec => []SoundInv
<1>1. CommentInit => SoundInv
  BY InitIsSound
<1>2. SoundInv /\ [CommentNext]_commentVars => SoundInv'
  BY SoundNext
<1> QED
  BY <1>1, <1>2, PTL DEF CommentSpec
-----------------------------------------------------------------------------
(***************************************************************************)
(* Who is at work.  A job that works alone is the only one, and every job  *)
(* but the first of those at work was counted when it began.               *)
(***************************************************************************)
LEMMA WorkerIsAtWork ==
  ASSUME NEW j \in Job, Work(j)
  PROVE  j \in AtWork
BY DEF Work, Publish, Open, Report, FindPull, List, WriteReport, ListSource, Rewrite, Acknowledge,
       Refuse, ListNotices, WriteNotice, AtWork, Ended

LEMMA JobsAreFinite == IsFiniteSet(Job) /\ IsFiniteSet(AtWork)
<1>1. IsFiniteSet(Job)
  BY CommentAssumption, FS_Interval DEF Job
<1> QED
  BY <1>1, FS_Subset DEF AtWork

CrowdInv ==
  /\ \A j \in AtWork : job[j].alone => AtWork = {j}
  /\ Cardinality(AtWork) <= 1 + overlaps

(* What a request of j leaves of the others.                               *)
LEMMA WorkJobs ==
  ASSUME SoundInv, NEW j \in Job, Work(j)
  PROVE  /\ \A i \in Job : i # j => job'[i] = job[i]
         /\ AtWork' \subseteq AtWork
         /\ AtWork \ {j} \subseteq AtWork'
         /\ j \in AtWork' => job'[j].alone = job[j].alone
<1>1. PICK r \in Knowledge :
        /\ Become(j, r) /\ r.at # "idle"
        /\ r.at \notin OverAt => r.alone = job[j].alone
  BY WorkSteps DEF Steps
<1>2. job'[j] = r /\ \A i \in Job : i # j => job'[i] = job[i]
  BY <1>1, OneJob
<1>3. j \in AtWork
  BY WorkerIsAtWork
<1> QED
  BY <1>1, <1>2, <1>3 DEF AtWork, Ended, OverAt

LEMMA BeginCrowd ==
  ASSUME SoundInv, NEW j \in Job, NEW m \in Mode, Begin(j, m)
  PROVE  /\ j \notin AtWork
         /\ AtWork' = AtWork \cup {j}
         /\ \A i \in AtWork : ~job'[i].alone
         /\ AtWork # {} => ~job'[j].alone
<1>1. job[j].at = "idle"
  BY Zenon DEF Begin
<1>2. j \notin AtWork
  BY <1>1 DEF AtWork
<1>3. \A i \in AtWork : i \in Job
  BY DEF AtWork
<1>4. job'[j].at = "work" /\ (AtWork # {} => ~job'[j].alone)
  <2>1. job'[j] = [Fresh("work") EXCEPT !.mode = m, !.pinned = head', !.alone = AtWork = {}]
    BY BeginJobs
  <2> HIDE DEF AtWork
  <2> QED
    BY <2>1 DEF Fresh
<1>5. \A i \in Job : i # j =>
        /\ job'[i].at = job[i].at
        /\ i \in AtWork => ~job'[i].alone
  <2>1. \A i \in Job : job[i] \in Knowledge
    BY DEF SoundInv, Shapes
  <2>2. \A i \in Job : i # j => job'[i] = IF i \in AtWork THEN [job[i] EXCEPT !.alone = FALSE] ELSE job[i]
    BY BeginJobs
  <2> HIDE DEF AtWork
  <2> QED
    BY <2>1, <2>2 DEF Knowledge
<1>6. AtWork' = AtWork \cup {j}
  BY <1>2, <1>4, <1>5 DEF AtWork, Ended
<1> QED
  BY <1>2, <1>3, <1>4, <1>5, <1>6

LEMMA CrowdNext ==
  ASSUME SoundInv, CrowdInv, [CommentNext]_commentVars
  PROVE  CrowdInv'
<1>1. CASE job' = job /\ overlaps' = overlaps
  <2>1. AtWork' = AtWork
    BY <1>1 DEF AtWork, Ended
  <2> QED
    BY <1>1, <2>1 DEF CrowdInv
<1>2. ASSUME NEW j \in Job, Work(j)
      PROVE  CrowdInv'
  <2>1. overlaps' = overlaps /\ overlaps \in Nat
    BY <1>2, WorkCounts DEF SoundInv, Shapes
  <2>2. Cardinality(AtWork') <= Cardinality(AtWork) /\ Cardinality(AtWork') \in Nat /\ Cardinality(AtWork) \in Nat
    BY <1>2, WorkJobs, JobsAreFinite, FS_Subset, FS_CardinalityType
  <2>3. ASSUME NEW i \in AtWork', job'[i].alone
        PROVE  AtWork' = {i}
    <3>1. i \in AtWork /\ i \in Job
      BY <1>2, WorkJobs DEF AtWork
    <3>2. job[i].alone
      BY <1>2, <2>3, <3>1, WorkJobs
    <3> QED
      BY <1>2, <3>1, <3>2, <2>3, WorkJobs DEF CrowdInv
  <2> QED
    BY <2>1, <2>2, <2>3 DEF CrowdInv
<1>3. ASSUME NEW j \in Job, NEW m \in Mode, Begin(j, m)
      PROVE  CrowdInv'
  <2>1. overlaps' = (IF AtWork = {} THEN overlaps ELSE overlaps + 1) /\ overlaps \in Nat
    BY <1>3, BeginJobs DEF SoundInv, Shapes
  <2>2. /\ j \notin AtWork
        /\ AtWork' = AtWork \cup {j}
        /\ \A i \in AtWork : ~job'[i].alone
        /\ AtWork # {} => ~job'[j].alone
    BY <1>3, BeginCrowd
  <2>3. Cardinality(AtWork') = Cardinality(AtWork) + 1 /\ Cardinality(AtWork) \in Nat
    BY <2>2, JobsAreFinite, FS_AddElement, FS_CardinalityType
  <2>4. AtWork = {} => Cardinality(AtWork) = 0
    BY FS_EmptySet
  <2>5. Cardinality(AtWork') <= 1 + overlaps'
    BY <2>1, <2>3, <2>4 DEF CrowdInv
  <2> QED
    BY <2>2, <2>5 DEF CrowdInv
<1> QED
  BY <1>1, <1>2, <1>3 DEF CommentNext, OutsidePush, OutsideClose, commentVars
-----------------------------------------------------------------------------
(***************************************************************************)
(* OneReport counts comments, and is not inductive: a job that found no    *)
(* report will add one, whoever adds another meanwhile, and a job that     *)
(* found one will make that line a report again if it became a link since. *)
(* What is bounded is the lines that are reports or that a job will make   *)
(* reports, and the jobs that will add one.                                *)
(***************************************************************************)
ReportMark == {"qa", "failure"}

Writers(jobs, i, m) ==
  {j \in Job : /\ jobs[j].place = i
               /\ \/ m = "qa" /\ jobs[j].at = "write"
                  \/ m = "failure" /\ jobs[j].at = "write_notice" /\ jobs[j].notice = "failure"}
Adding(jobs, i, m) == {j \in Writers(jobs, i, m) : jobs[j].found = 0}
Keeping(jobs, i, m) == {j \in Writers(jobs, i, m) : jobs[j].found # 0}
Kept(cs, jobs, i, m) == OwnIn(cs[i], {m}) \cup {jobs[j].found : j \in Keeping(jobs, i, m)}

ReportInv ==
  \A i \in Issue : \A m \in ReportMark :
    Cardinality(Kept(comments, job, i, m)) + Cardinality(Adding(job, i, m)) <= 1 + overlaps + blind

LEMMA OneMore ==
  ASSUME NEW S, IsFiniteSet(S), NEW x
  PROVE  /\ IsFiniteSet(S \cup {x}) /\ Cardinality(S \cup {x}) \in Nat
         /\ Cardinality(S \cup {x}) <= Cardinality(S) + 1
<1>1. Cardinality(S) \in Nat
  BY FS_CardinalityType
<1>2. /\ IsFiniteSet(S \cup {x})
      /\ Cardinality(S \cup {x}) = IF x \in S THEN Cardinality(S) ELSE Cardinality(S) + 1
  BY FS_AddElement
<1> QED
  BY <1>1, <1>2

LEMMA Tally ==
  ASSUME NEW K, NEW N, NEW K2, NEW N2,
         IsFiniteSet(K), IsFiniteSet(N), IsFiniteSet(K2), IsFiniteSet(N2),
         NEW b \in Nat, NEW b2 \in Nat, b <= b2,
         Cardinality(K) + Cardinality(N) <= b,
         \/ K2 \subseteq K /\ N2 \subseteq N
         \/ \E x : \E y \in N : K2 \subseteq K \cup {x} /\ N2 \subseteq N \ {y}
         \/ \E y : K2 \subseteq K /\ N2 \subseteq N \cup {y} /\ b + 1 <= b2
  PROVE  Cardinality(K2) + Cardinality(N2) <= b2
<1>1. /\ Cardinality(K) \in Nat /\ Cardinality(N) \in Nat
      /\ Cardinality(K2) \in Nat /\ Cardinality(N2) \in Nat
  BY FS_CardinalityType
<1>2. CASE K2 \subseteq K /\ N2 \subseteq N
  <2>1. Cardinality(K2) <= Cardinality(K) /\ Cardinality(N2) <= Cardinality(N)
    BY <1>2, FS_Subset
  <2> QED
    BY <1>1, <2>1
<1>3. ASSUME NEW x, NEW y \in N, K2 \subseteq K \cup {x}, N2 \subseteq N \ {y}
      PROVE  Cardinality(K2) + Cardinality(N2) <= b2
  <2>1. IsFiniteSet(K \cup {x}) /\ Cardinality(K \cup {x}) <= Cardinality(K) + 1
        /\ Cardinality(K \cup {x}) \in Nat
    BY <1>1, OneMore
  <2>2. IsFiniteSet(N \ {y}) /\ Cardinality(N \ {y}) = Cardinality(N) - 1
    BY FS_RemoveElement
  <2>3. Cardinality(K2) <= Cardinality(K \cup {x}) /\ Cardinality(N2) <= Cardinality(N \ {y})
    BY <1>3, <2>1, <2>2, FS_Subset
  <2> QED
    BY <1>1, <2>1, <2>2, <2>3
<1>4. ASSUME NEW y, K2 \subseteq K, N2 \subseteq N \cup {y}, b + 1 <= b2
      PROVE  Cardinality(K2) + Cardinality(N2) <= b2
  <2>1. IsFiniteSet(N \cup {y}) /\ Cardinality(N \cup {y}) <= Cardinality(N) + 1
        /\ Cardinality(N \cup {y}) \in Nat
    BY <1>1, OneMore
  <2>2. Cardinality(K2) <= Cardinality(K) /\ Cardinality(N2) <= Cardinality(N \cup {y})
    BY <1>4, <2>1, FS_Subset
  <2> QED
    BY <1>1, <1>4, <2>1, <2>2
<1> QED
  BY <1>2, <1>3, <1>4

LEMMA KeptIsFinite ==
  ASSUME NEW cs \in [Issue -> Seq(Comment)], NEW jobs \in [Job -> Knowledge],
         \A j \in Job : Sound(jobs[j], cs), NEW i \in Issue, NEW m
  PROVE  /\ IsFiniteSet(Kept(cs, jobs, i, m))
         /\ IsFiniteSet(Adding(jobs, i, m)) /\ IsFiniteSet(Keeping(jobs, i, m))
         /\ IsFiniteSet(Writers(jobs, i, m))
<1>1. Len(cs[i]) \in Nat /\ DOMAIN cs[i] = 1..Len(cs[i])
  OBVIOUS
<1>2. Kept(cs, jobs, i, m) \subseteq 1..Len(cs[i])
  <2>1. \A j \in Keeping(jobs, i, m) : jobs[j].found \in DOMAIN cs[i]
    BY DEF Keeping, Writers, Sound, OwnLine
  <2> QED
    BY <1>1, <2>1 DEF Kept, OwnIn
<1>3. IsFiniteSet(1..Len(cs[i]))
  BY <1>1, FS_Interval
<1> QED
  BY <1>2, <1>3, JobsAreFinite, FS_Subset DEF Adding, Keeping, Writers

(* Where there is no report, each line that will be one is a job's.        *)
LEMMA NoReportYet ==
  ASSUME NEW cs \in [Issue -> Seq(Comment)], NEW jobs \in [Job -> Knowledge],
         \A j \in Job : Sound(jobs[j], cs), NEW i \in Issue, NEW m,
         OwnIn(cs[i], {m}) \subseteq {},
         NEW A, IsFiniteSet(A), Writers(jobs, i, m) \subseteq A
  PROVE  Cardinality(Kept(cs, jobs, i, m)) + Cardinality(Adding(jobs, i, m)) <= Cardinality(A)
<1> DEFINE K == Keeping(jobs, i, m)
           N == Adding(jobs, i, m)
           V == Kept(cs, jobs, i, m)
           f == [j \in K |-> jobs[j].found]
<1>1. IsFiniteSet(K) /\ IsFiniteSet(N) /\ IsFiniteSet(V)
  BY KeptIsFinite
<1>2. f \in Surjection(K, V)
  BY DEF Surjection, Kept
<1>3. Cardinality(V) <= Cardinality(K)
  BY <1>1, <1>2, FS_Surjection
<1>4. K \cap N = {} /\ K \cup N \subseteq A
  BY DEF Keeping, Adding
<1>5. /\ IsFiniteSet(K \cup N)
      /\ Cardinality(K \cup N) = Cardinality(K) + Cardinality(N) - Cardinality(K \cap N)
  BY <1>1, FS_Union
<1>6. Cardinality(K \cap N) = 0
  BY <1>4, FS_EmptySet
<1>7. Cardinality(K \cup N) <= Cardinality(A)
  BY <1>4, FS_Subset
<1>8. /\ Cardinality(V) \in Nat /\ Cardinality(K) \in Nat /\ Cardinality(N) \in Nat
      /\ Cardinality(A) \in Nat /\ Cardinality(K \cup N) \in Nat
  BY <1>1, <1>5, FS_CardinalityType
<1> HIDE DEF K, N, V
<1> QED
  BY <1>3, <1>5, <1>6, <1>7, <1>8 DEF N, V
(* How a step may change what counts as a report.                          *)
Change(i, m) ==
  LET K == Kept(comments, job, i, m)     K2 == Kept(comments', job', i, m)
      N == Adding(job, i, m)             N2 == Adding(job', i, m)
  IN  \/ K2 \subseteq K /\ N2 \subseteq N
      \/ \E x : \E y \in N : K2 \subseteq K \cup {x} /\ N2 \subseteq N \ {y}
      \/ \E y : K2 \subseteq K /\ N2 \subseteq N \cup {y} /\ blind' = blind + 1
      \/ OwnIn(comments'[i], {m}) \subseteq {}

LEMMA Sums ==
  ASSUME NEW x \in Nat, NEW y \in Nat, NEW x2 \in Nat, NEW y2 \in Nat, x <= x2, y <= y2
  PROVE  /\ 1 + x + y \in Nat /\ 1 + x2 + y2 \in Nat
         /\ 1 + x + y <= 1 + x2 + y2
         /\ 1 + x2 <= 1 + x2 + y2
         /\ y2 = y + 1 => 1 + x + y + 1 <= 1 + x2 + y2
OBVIOUS

LEMMA ChangeIsBounded ==
  ASSUME SoundInv, SoundInv', CrowdInv', ReportInv, overlaps <= overlaps', blind <= blind',
         NEW i \in Issue, NEW m \in ReportMark, Change(i, m)
  PROVE  Cardinality(Kept(comments', job', i, m)) + Cardinality(Adding(job', i, m))
           <= 1 + overlaps' + blind'
<1> DEFINE K == Kept(comments, job, i, m)
           K2 == Kept(comments', job', i, m)
           N == Adding(job, i, m)
           N2 == Adding(job', i, m)
<1>1. /\ IsFiniteSet(K) /\ IsFiniteSet(N) /\ IsFiniteSet(K2) /\ IsFiniteSet(N2)
  BY KeptIsFinite DEF SoundInv, Shapes, Threadful
<1>2. overlaps \in Nat /\ blind \in Nat /\ overlaps' \in Nat /\ blind' \in Nat
  BY DEF SoundInv, Shapes
<1>3. Cardinality(K) + Cardinality(N) <= 1 + overlaps + blind
  BY DEF ReportInv
<1> DEFINE b == 1 + overlaps + blind
           b2 == 1 + overlaps' + blind'
<1>6. /\ b \in Nat /\ b2 \in Nat /\ b <= b2
      /\ blind' = blind + 1 => b + 1 <= b2
  BY <1>2, Sums
<1>4. CASE OwnIn(comments'[i], {m}) \subseteq {}
  <2>1. Writers(job', i, m) \subseteq AtWork'
    BY DEF Writers, AtWork, Ended
  <2>2. IsFiniteSet(AtWork')
    BY JobsAreFinite, FS_Subset DEF AtWork
  <2>3. Cardinality(K2) + Cardinality(N2) <= Cardinality(AtWork')
    BY <1>4, <2>1, <2>2, NoReportYet DEF SoundInv, Shapes, Threadful
  <2>4. Cardinality(AtWork') <= 1 + overlaps'
    BY DEF CrowdInv
  <2>5. Cardinality(K2) \in Nat /\ Cardinality(N2) \in Nat /\ Cardinality(AtWork') \in Nat
    BY <1>1, <2>2, FS_CardinalityType
  <2> QED
    BY <1>2, <2>3, <2>4, <2>5
<1>5. CASE ~(OwnIn(comments'[i], {m}) \subseteq {})
  <2>1. \/ K2 \subseteq K /\ N2 \subseteq N
        \/ \E x : \E y \in N : K2 \subseteq K \cup {x} /\ N2 \subseteq N \ {y}
        \/ \E y : K2 \subseteq K /\ N2 \subseteq N \cup {y} /\ blind' = blind + 1
    BY <1>5, Zenon DEF Change
  <2> HIDE DEF K, K2, N, N2, b, b2
  <2>2. \/ K2 \subseteq K /\ N2 \subseteq N
        \/ \E x : \E y \in N : K2 \subseteq K \cup {x} /\ N2 \subseteq N \ {y}
        \/ \E y : K2 \subseteq K /\ N2 \subseteq N \cup {y} /\ b + 1 <= b2
    BY <1>6, <2>1
  <2>3. Cardinality(K) + Cardinality(N) <= b
    BY <1>3 DEF b
  <2>4. Cardinality(K2) + Cardinality(N2) <= b2
    BY <1>1, <1>6, <2>2, <2>3, Tally
  <2> QED
    BY <2>4 DEF K2, N2, b2
<1> QED
  BY <1>4, <1>5

(* A job that does not come to write a report changes nothing, as long as  *)
(* the comments that become reports were counted.                          *)
LEMMA NotAWriter ==
  ASSUME SoundInv, NEW j \in Job, NEW r \in Knowledge, Become(j, r),
         NEW i \in Issue, NEW m \in ReportMark,
         j \notin Writers(job', i, m),
         OwnIn(comments'[i], {m}) \subseteq Kept(comments, job, i, m)
  PROVE  Change(i, m)
<1>1. \A k \in Job : k # j => job'[k] = job[k]
  BY OneJob
<1>2. /\ Adding(job', i, m) \subseteq Adding(job, i, m)
      /\ Keeping(job', i, m) \subseteq Keeping(job, i, m)
      /\ \A k \in Keeping(job', i, m) : job'[k].found = job[k].found
  BY <1>1 DEF Adding, Keeping, Writers
<1>3. Kept(comments', job', i, m) \subseteq Kept(comments, job, i, m)
  BY <1>2 DEF Kept
<1> QED
  BY <1>2, <1>3 DEF Change

(* What is a report after a write.                                         *)
LEMMA OwnAfterSent ==
  ASSUME SoundInv, NEW p \in Issue, NEW n \in 0..Len(comments[p]), NEW c \in Comment, c.own,
         NEW out, Sent(p, n, c, out), NEW i \in Issue, NEW m
  PROVE  /\ OwnIn(comments'[i], {m}) \subseteq Own(i, {m}) \cup {PutAt(p, n)}
         /\ ~(i = p /\ c.mark = m) => OwnIn(comments'[i], {m}) \subseteq Own(i, {m})
<1>1. CASE comments' = comments
  BY <1>1 DEF Own
<1>2. CASE comments' = Upsert(p, n, c)
  <2>1. /\ c.mark \in {m} => OwnIn(Upsert(p, n, c)[p], {m}) = Own(p, {m}) \cup {PutAt(p, n)}
        /\ c.mark \notin {m} => OwnIn(Upsert(p, n, c)[p], {m}) = Own(p, {m}) \ {PutAt(p, n)}
        /\ \A k \in Issue : k # p => OwnIn(Upsert(p, n, c)[k], {m}) = Own(k, {m})
    BY OwnWritten DEF SoundInv, Shapes
  <2> QED
    BY <1>2, <2>1
<1> QED
  BY <1>1, <1>2 DEF Sent

(* A report that is written was counted, or its writer was.                *)
LEMMA ReportWritten ==
  ASSUME SoundInv, NEW j \in Job, NEW r \in Knowledge, Become(j, r),
         r.at # "write", r.at # "write_notice",
         NEW c \in Comment, c.own, NEW out, Sent(job[j].place, job[j].found, c, out),
         job[j].found \in 0..Len(comments[job[j].place]),
         NEW i \in Issue, NEW m \in ReportMark,
         c.mark = m /\ job[j].place = i => j \in Writers(job, i, m)
  PROVE  Change(i, m)
<1>1. job'[j] = r /\ \A k \in Job : k # j => job'[k] = job[k]
  BY OneJob
<1>2. job[j].place \in Issue
  BY DEF SoundInv, Shapes, Knowledge
<1>3. j \notin Writers(job', i, m)
  BY <1>1 DEF Writers
<1>4. CASE ~(i = job[j].place /\ c.mark = m)
  <2>1. OwnIn(comments'[i], {m}) \subseteq Own(i, {m})
    BY <1>2, <1>4, OwnAfterSent
  <2> QED
    BY <1>3, <2>1, NotAWriter DEF Kept, Own
<1>5. CASE i = job[j].place /\ c.mark = m /\ job[j].found # 0
  <2>1. OwnIn(comments'[i], {m}) \subseteq Own(i, {m}) \cup {job[j].found}
    BY <1>2, <1>5, OwnAfterSent DEF PutAt
  <2>2. j \in Keeping(job, i, m)
    BY <1>5 DEF Keeping
  <2> QED
    BY <1>3, <2>1, <2>2, NotAWriter DEF Kept, Own
<1>6. CASE i = job[j].place /\ c.mark = m /\ job[j].found = 0
  <2>1. OwnIn(comments'[i], {m}) \subseteq Own(i, {m}) \cup {PutAt(i, 0)}
    BY <1>2, <1>6, OwnAfterSent
  <2>2. j \in Adding(job, i, m)
    BY <1>6 DEF Adding
  <2>3. /\ Adding(job', i, m) \subseteq Adding(job, i, m) \ {j}
        /\ Keeping(job', i, m) \subseteq Keeping(job, i, m)
        /\ \A k \in Keeping(job', i, m) : job'[k].found = job[k].found
    BY <1>1, <1>3 DEF Adding, Keeping, Writers
  <2>4. Kept(comments', job', i, m) \subseteq Kept(comments, job, i, m) \cup {PutAt(i, 0)}
    BY <2>1, <2>3 DEF Kept, Own
  <2> QED
    BY <2>2, <2>3, <2>4 DEF Change
<1> QED
  BY <1>4, <1>5, <1>6

(* A job looks for the report it is to write.                              *)
LEMMA ReportLookedFor ==
  ASSUME SoundInv, NEW j \in Job, NEW r \in Knowledge, Become(j, r), comments' = comments,
         NEW i \in Issue, NEW m \in ReportMark, NEW known \in BOOLEAN, Listing(known),
         r.found = First(Seen(known, i, {m})), j \notin Writers(job, i, m)
  PROVE  Change(i, m)
<1>1. job'[j] = r /\ \A k \in Job : k # j => job'[k] = job[k]
  BY OneJob
<1>2. Own(i, {m}) \in SUBSET Nat
  BY OwnLines DEF SoundInv, Shapes
<1>3. /\ Adding(job', i, m) \subseteq Adding(job, i, m) \cup {j}
      /\ Keeping(job', i, m) \subseteq Keeping(job, i, m) \cup {j}
      /\ \A k \in Keeping(job', i, m) : k # j => job'[k].found = job[k].found
  BY <1>1 DEF Adding, Keeping, Writers
<1>4. CASE ~known
  <2>1. r.found = 0 /\ blind' = blind + 1
    BY <1>4 DEF Listing, Seen, First
  <2>2. j \notin Keeping(job', i, m)
    BY <1>1, <2>1 DEF Keeping
  <2>3. Kept(comments', job', i, m) \subseteq Kept(comments, job, i, m)
    BY <1>3, <2>2 DEF Kept
  <2> QED
    BY <1>3, <2>1, <2>3 DEF Change
<1>5. CASE known /\ Own(i, {m}) = {}
  BY <1>5 DEF Change, Own
<1>6. CASE known /\ Own(i, {m}) # {}
  <2>1. r.found \in Own(i, {m})
    BY <1>2, <1>6, FirstOfLines DEF Seen
  <2>2. r.found # 0
    BY <2>1, OwnLines DEF SoundInv, Shapes
  <2>3. j \notin Adding(job', i, m)
    BY <1>1, <2>2 DEF Adding
  <2>4. Kept(comments', job', i, m) \subseteq Kept(comments, job, i, m)
    BY <1>1, <1>3, <2>1 DEF Kept, Own
  <2> QED
    BY <1>3, <2>3, <2>4 DEF Change
<1> QED
  BY <1>4, <1>5, <1>6
(* Every request of a job.                                                 *)
LEMMA RequestsChange ==
  ASSUME SoundInv, NEW j \in Job, Work(j), NEW i \in Issue, NEW m \in ReportMark
  PROVE  Change(i, m)
<1>0. job[j] \in Knowledge /\ job[j].place \in Issue /\ Sound(job[j], comments) /\ Source \in Issue
  BY DEF SoundInv, Shapes, Knowledge, Issue
<1>1. PICK r \in Knowledge : Become(j, r)
  BY WorkSteps DEF Steps
<1>2. job'[j] = r
  BY <1>1, OneJob
<1>17. \A x : Become(j, x) => x = r
  BY <1>2 DEF Become, SoundInv, Shapes
<1>3. ASSUME comments' = comments, r.at # "write", r.at = "write_notice" => r.notice # "failure"
      PROVE  Change(i, m)
  <2>1. j \notin Writers(job', i, m)
    BY <1>2, <1>3 DEF Writers
  <2>2. OwnIn(comments'[i], {m}) \subseteq Kept(comments, job, i, m)
    BY <1>3 DEF Kept
  <2> QED
    BY <1>1, <2>1, <2>2, NotAWriter
<1>4. \A how \in {"acked", "ended"} : Fresh(how).at = how
  BY DEF Fresh
<1>5. CASE Publish(j)
  <2>1. CASE Become(j, [job[j] EXCEPT !.at = "report", !.sha = job[j].pinned])
    BY <1>0, <1>3, <1>5, <1>17, <2>1 DEF Publish, Knowledge
  <2>2. CASE Become(j, [job[j] EXCEPT !.at = "open", !.sha = commits', !.pushed = TRUE])
    BY <1>0, <1>3, <1>5, <1>17, <2>2 DEF Publish, Knowledge
  <2>3. CASE End(j, "ended")
    BY <1>3, <1>4, <1>5, <1>17, <2>3 DEF Publish, End
  <2> QED
    BY <1>5, <2>1, <2>2, <2>3 DEF Publish
<1>6. CASE Open(j)
  <2>1. CASE GoOn(j, "report")
    BY <1>0, <1>3, <1>6, <1>17, <2>1 DEF Open, GoOn, Knowledge
  <2>2. CASE End(j, "ended")
    BY <1>3, <1>4, <1>6, <1>17, <2>2 DEF Open, End
  <2> QED
    BY <1>6, <2>1, <2>2 DEF Open
<1>7. CASE Report(j)
  <2>1. CASE Become(j, [job[j] EXCEPT !.at = "list", !.place = Source]) \/ GoOn(j, "pull")
    BY <1>0, <1>3, <1>7, <1>17, <2>1 DEF Report, GoOn, Knowledge
  <2>2. CASE End(j, "ended") \/ End(j, "acked")
    BY <1>3, <1>4, <1>7, <1>17, <2>2 DEF Report, End
  <2> QED
    BY <1>7, <2>1, <2>2 DEF Report
<1>8. CASE FindPull(j)
  <2>1. CASE Chosen(j)
    BY <1>0, <1>3, <1>8, <1>17, <2>1 DEF FindPull, Chosen, Knowledge
  <2>2. CASE End(j, "ended")
    BY <1>3, <1>4, <1>8, <1>17, <2>2 DEF FindPull, End
  <2> QED
    BY <1>8, <2>1, <2>2 DEF FindPull
<1>9. CASE List(j)
  <2>1. PICK known \in BOOLEAN :
          /\ Listing(known)
          /\ Become(j, [job[j] EXCEPT !.at = "write", !.found = First(Seen(known, job[j].place, {"qa"}))])
    BY <1>9 DEF List
  <2>2. r.place = job[j].place /\ r.at = "write" /\ r.found = First(Seen(known, job[j].place, {"qa"}))
    BY <1>0, <1>17, <2>1 DEF Knowledge
  <2>3. comments' = comments /\ j \notin Writers(job, i, m)
    BY <1>9 DEF List, Writers
  <2>4. CASE i = job[j].place /\ m = "qa"
    BY <1>1, <2>1, <2>2, <2>3, <2>4, ReportLookedFor
  <2>5. CASE ~(i = job[j].place /\ m = "qa")
    <3>1. j \notin Writers(job', i, m)
      BY <1>2, <2>2, <2>5 DEF Writers
    <3> QED
      BY <1>1, <2>3, <3>1, NotAWriter DEF Kept
  <2> QED
    BY <2>4, <2>5
<1>10. CASE WriteReport(j)
  <2>1. CASE job[j].place # Source /\ Moved(j)
    <3>1. End(j, "ended") /\ comments' = comments
      BY <1>10, <2>1 DEF WriteReport
    <3> QED
      BY <1>3, <1>4, <1>17, <3>1 DEF End
  <2>2. CASE ~(job[j].place # Source /\ Moved(j))
    <3>1. PICK out \in Outcome :
            /\ Sent(job[j].place, job[j].found, QA(j), out)
            /\ End(j, "ended") \/ End(j, "acked") \/ GoOn(j, "source")
      BY <1>10, <2>2 DEF WriteReport
    <3>2. job[j].found \in Nat /\ OwnLine(comments[job[j].place], job[j].found)
      BY <1>0 DEF Sound, Knowledge
    <3>3. /\ QA(j) \in Comment /\ QA(j).own /\ QA(j).mark = "qa"
          /\ job[j].found \in 0..Len(comments[job[j].place])
      BY <1>0, <3>1, <3>2, CommentsOf, Sending
    <3>4. r.at # "write" /\ r.at # "write_notice"
      BY <1>0, <1>4, <1>17, <3>1 DEF End, GoOn, Knowledge
    <3>5. QA(j).mark = m /\ job[j].place = i => j \in Writers(job, i, m)
      BY <1>10, <3>3 DEF WriteReport, Writers
    <3> QED
      BY <1>1, <3>1, <3>3, <3>4, <3>5, ReportWritten
  <2> QED
    BY <2>1, <2>2
<1>11. CASE ListSource(j)
  <2>1. PICK known \in BOOLEAN, todo \in [1..3 -> SUBSET Nat] :
          Become(j, [job[j] EXCEPT !.at = "rewrite", !.todo = todo])
    BY <1>11, SourceListed
  <2>2. r = [job[j] EXCEPT !.at = "rewrite", !.todo = todo]
    BY <1>17, <2>1
  <2>3. r.at = "rewrite"
    BY <1>0, <2>2 DEF Knowledge
  <2> QED
    BY <1>3, <1>11, <2>3 DEF ListSource
<1>12. CASE Rewrite(j)
  <2>1. PICK out \in Outcome :
          /\ Sent(Source, NextLine(job[j].todo), Link(j), out)
          /\ NextLine(job[j].todo) \in 0..Len(comments[Source])
          /\ job[j].place # Source
          /\ \/ End(j, "ended")
             \/ \E next \in {"rewrite", "last"} :
                  Become(j, [job[j] EXCEPT !.at = next, !.todo = Left(job[j].todo)])
    BY <1>12, LineRewritten
  <2>2. Link(j) \in Comment /\ Link(j).own /\ Link(j).mark = "link"
    BY <2>1, CommentsOf
  <2>3. OwnIn(comments'[i], {m}) \subseteq Own(i, {m})
    BY <1>0, <2>1, <2>2, OwnAfterSent DEF ReportMark
  <2>4. r.at # "write" /\ r.at # "write_notice"
    BY <1>0, <1>4, <1>17, <2>1 DEF End, Knowledge
  <2>5. j \notin Writers(job', i, m)
    BY <1>2, <2>4 DEF Writers
  <2> QED
    BY <1>1, <2>3, <2>5, NotAWriter DEF Kept, Own
<1>13. CASE Acknowledge(j)
  BY <1>3, <1>4, <1>13, <1>17 DEF Acknowledge, End
<1>14. CASE Refuse(j)
  <2>1. PICK n \in Notices :
          Become(j, [job[j] EXCEPT !.notice = n,
                                   !.at = IF n = "needless" THEN "write_notice" ELSE "list_notice"])
    BY <1>14 DEF Refuse
  <2>2. CASE n = "needless"
    BY <1>0, <1>3, <1>14, <1>17, <2>1, <2>2 DEF Refuse, Knowledge
  <2>3. CASE n # "needless"
    BY <1>0, <1>3, <1>14, <1>17, <2>1, <2>3 DEF Refuse, Knowledge
  <2> QED
    BY <2>2, <2>3
<1>15. CASE ListNotices(j)
  <2>1. PICK known \in BOOLEAN :
          /\ Listing(known)
          /\ Become(j, [job[j] EXCEPT !.at = "write_notice",
                                      !.found = First(Seen(known, Source, Marked(job[j].notice)))])
    BY <1>15 DEF ListNotices
  <2>2. /\ r.place = Source /\ r.at = "write_notice" /\ r.notice = job[j].notice
        /\ r.found = First(Seen(known, Source, Marked(job[j].notice)))
    BY <1>0, <1>15, <1>17, <2>1 DEF ListNotices, Knowledge, Sound
  <2>3. comments' = comments /\ j \notin Writers(job, i, m)
    BY <1>15 DEF ListNotices, Writers
  <2>4. CASE i = Source /\ m = "failure" /\ r.notice = "failure"
    BY <1>1, <2>1, <2>2, <2>3, <2>4, ReportLookedFor DEF Marked
  <2>5. CASE ~(i = Source /\ m = "failure" /\ r.notice = "failure")
    <3>1. j \notin Writers(job', i, m)
      BY <1>2, <2>2, <2>5 DEF Writers
    <3> QED
      BY <1>1, <2>3, <3>1, NotAWriter DEF Kept
  <2> QED
    BY <2>4, <2>5
<1>16. CASE WriteNotice(j)
  <2> DEFINE c == [own |-> TRUE, mark |-> job[j].notice, says |-> 0]
  <2>1. PICK out \in Outcome : Sent(Source, job[j].found, c, out) /\ (End(j, "ended") \/ End(j, "acked"))
    BY <1>16 DEF WriteNotice
  <2>2. /\ job[j].found \in Nat /\ job[j].place = Source /\ job[j].notice \in Notices
        /\ OwnLine(comments[Source], job[j].found)
    BY <1>0, <1>16 DEF Sound, Knowledge, WriteNotice
  <2>3. c \in Comment /\ c.own /\ c.mark = job[j].notice
    BY <2>2, CommentsOf
  <2>4. job[j].found \in 0..Len(comments[Source])
    BY <1>0, <2>1, <2>2, <2>3, Sending
  <2>5. r.at # "write" /\ r.at # "write_notice"
    BY <1>0, <1>4, <1>17, <2>1 DEF End, Knowledge
  <2>6. c.mark = m /\ job[j].place = i => j \in Writers(job, i, m)
    BY <1>16, <2>2, <2>3 DEF WriteNotice, Writers, Notices, ReportMark
  <2> HIDE DEF c
  <2> QED
    BY <1>1, <2>1, <2>2, <2>3, <2>4, <2>5, <2>6, ReportWritten
<1> QED
  BY <1>5, <1>6, <1>7, <1>8, <1>9, <1>10, <1>11, <1>12, <1>13, <1>14, <1>15, <1>16 DEF Work
LEMMA ReportNext ==
  ASSUME SoundInv, CrowdInv, ReportInv, [CommentNext]_commentVars
  PROVE  ReportInv'
<1>1. SoundInv' /\ CrowdInv'
  BY SoundNext, CrowdNext
<1>2. ASSUME \A i \in Issue : \A m \in ReportMark : Change(i, m),
             overlaps <= overlaps', blind <= blind'
      PROVE  ReportInv'
  BY <1>1, <1>2, ChangeIsBounded DEF ReportInv
<1>3. overlaps \in Nat /\ blind \in Nat
  BY DEF SoundInv, Shapes
<1>4. ASSUME NEW j \in Job, Work(j)
      PROVE  ReportInv'
  BY <1>2, <1>3, <1>4, RequestsChange, WorkCounts
<1>5. ASSUME comments' = comments,
             \A k \in Job : \/ job'[k] = job[k]
                            \/ job'[k] = [job[k] EXCEPT !.alone = FALSE]
                            \/ job'[k].at = "work",
             blind' = blind, overlaps <= overlaps'
      PROVE  ReportInv'
  <2> SUFFICES ASSUME NEW i \in Issue, NEW m \in ReportMark
               PROVE  Change(i, m)
    BY <1>2, <1>3, <1>5
  <2>1. \A k \in Job : job[k] \in Knowledge
    BY DEF SoundInv, Shapes
  <2>2. \A k \in Writers(job', i, m) : k \in Writers(job, i, m) /\ job'[k].found = job[k].found
    BY <1>5, <2>1 DEF Writers, Knowledge
  <2>3. /\ Adding(job', i, m) \subseteq Adding(job, i, m)
        /\ Kept(comments', job', i, m) \subseteq Kept(comments, job, i, m)
    BY <1>5, <2>2 DEF Adding, Keeping, Kept
  <2> QED
    BY <2>3 DEF Change
<1>6. ASSUME NEW j \in Job, NEW m \in Mode, Begin(j, m)
      PROVE  ReportInv'
  <2>1. job'[j].at = "work"
    <3>1. job'[j] = [Fresh("work") EXCEPT !.mode = m, !.pinned = head', !.alone = AtWork = {}]
      BY <1>6, BeginJobs
    <3> HIDE DEF AtWork
    <3> QED
      BY <3>1 DEF Fresh
  <2>2. \A k \in Job : k # j => job'[k] = job[k] \/ job'[k] = [job[k] EXCEPT !.alone = FALSE]
    BY <1>6, BeginJobs
  <2>3. /\ comments' = comments /\ blind' = blind
        /\ overlaps' = overlaps \/ overlaps' = overlaps + 1
    BY <1>6, BeginJobs
  <2> QED
    BY <1>3, <1>5, <2>1, <2>2, <2>3
<1>7. CASE UNCHANGED commentVars
  BY <1>3, <1>5, <1>7 DEF commentVars
<1>8. CASE OutsidePush \/ OutsideClose
  BY <1>3, <1>5, <1>8 DEF OutsidePush, OutsideClose
<1> QED
  BY <1>4, <1>6, <1>7, <1>8 DEF CommentNext

LEMMA InitIsCounted ==
  ASSUME CommentInit
  PROVE  CrowdInv /\ ReportInv
<1>1. PICK t \in Threads : comments = [i \in Issue |-> IF i = Source THEN t ELSE <<>>]
  BY DEF CommentInit
<1>2. \A j \in Job : job[j].at = "idle"
  BY DEF CommentInit, Fresh
<1>3. AtWork = {} /\ overlaps = 0 /\ blind = 0
  BY <1>2 DEF AtWork, CommentInit
<1>4. Cardinality({}) = 0 /\ IsFiniteSet({})
  BY FS_EmptySet
<1>5. CrowdInv
  BY <1>3, <1>4 DEF CrowdInv
<1>6. ASSUME NEW i \in Issue, NEW m \in ReportMark
      PROVE  Cardinality(Kept(comments, job, i, m)) + Cardinality(Adding(job, i, m)) <= 1 + overlaps + blind
  <2>1. Adding(job, i, m) = {} /\ Keeping(job, i, m) = {}
    BY <1>2 DEF Adding, Keeping, Writers
  <2>2. Kept(comments, job, i, m) = OwnIn(comments[i], {m})
    BY <2>1 DEF Kept
  <2>3. Cardinality(OwnIn(comments[i], {m})) <= 1
    <3>1. CASE i = Source
      BY <1>1, <3>1, ThreadAssumption DEF ReportMark
    <3>2. CASE i # Source
      <4>1. OwnIn(comments[i], {m}) = {}
        BY <1>1, <3>2 DEF OwnIn
      <4> QED
        BY <1>4, <4>1
    <3> QED
      BY <3>1, <3>2
  <2>4. IsFiniteSet(OwnIn(comments[i], {m}))
    BY OwnLines, InitIsSound DEF SoundInv, Shapes, Own
  <2>5. Cardinality(OwnIn(comments[i], {m})) \in Nat
    BY <2>4, FS_CardinalityType
  <2> QED
    BY <1>3, <1>4, <2>1, <2>2, <2>3, <2>5
<1> QED
  BY <1>5, <1>6 DEF ReportInv

LEMMA OneReportHolds ==
  ASSUME SoundInv, ReportInv
  PROVE  OneReport
<1> SUFFICES ASSUME NEW i \in Issue, NEW m \in ReportMark
             PROVE  Reports(i, m) <= 1 + overlaps + blind
  BY DEF OneReport, ReportMark
<1> DEFINE K == Kept(comments, job, i, m)
           N == Adding(job, i, m)
<1>1. IsFiniteSet(K) /\ IsFiniteSet(N)
  BY KeptIsFinite DEF SoundInv, Shapes, Threadful
<1>2. Own(i, {m}) \subseteq K
  BY DEF Kept, Own
<1>3. Cardinality(Own(i, {m})) <= Cardinality(K) /\ IsFiniteSet(Own(i, {m}))
  BY <1>1, <1>2, FS_Subset
<1>4. Cardinality(K) \in Nat /\ Cardinality(N) \in Nat /\ Cardinality(Own(i, {m})) \in Nat
  BY <1>1, <1>3, FS_CardinalityType
<1>5. Cardinality(K) + Cardinality(N) <= 1 + overlaps + blind /\ overlaps \in Nat /\ blind \in Nat
  BY DEF ReportInv, SoundInv, Shapes
<1> HIDE DEF K, N
<1> QED
  BY <1>3, <1>4, <1>5 DEF Reports

CountInv == SoundInv /\ CrowdInv /\ ReportInv

(* The lines that are reports of a pull request or will be, and the jobs   *)
(* that will add one, are at most one more than the jobs that overlapped   *)
(* and the listings that did not know the publisher.                       *)
THEOREM ReportsAreCounted == CommentSpec => []CountInv
<1>1. CommentInit => CountInv
  BY InitIsSound, InitIsCounted DEF CountInv
<1>2. CountInv /\ [CommentNext]_commentVars => CountInv'
  BY SoundNext, CrowdNext, ReportNext DEF CountInv
<1> QED
  BY <1>1, <1>2, PTL DEF CommentSpec
-----------------------------------------------------------------------------
(***************************************************************************)
(* What a job knows when no other job is at work with it and every listing *)
(* knew the publisher: the report it found is still the first; once it is  *)
(* written, it stays; and a comment of the source that is to lead to the   *)
(* pull request leads there or is still to be rewritten.                   *)
(***************************************************************************)
Leads(r, cs, crossed) ==
  /\ r.at = "write" => r.found = First(OwnIn(cs[r.place], {"qa"}))
  /\ r.at \in {"source", "rewrite", "last"} => Told(cs[r.place]) = r.sha
  /\ r.at = "rewrite" =>
       /\ \A n \in OwnIn(cs[Source], {"link"}) : cs[Source][n].says = r.place \/ n \in Lines(r.todo)
       /\ crossed = 0 => OwnIn(cs[Source], {"qa"}) \subseteq Lines(r.todo)
  /\ r.at = "last" =>
       /\ OwnIn(cs[Source], {"link"}) # {}
       /\ \A n \in OwnIn(cs[Source], {"link"}) : cs[Source][n].says = r.place
       /\ crossed = 0 => OwnIn(cs[Source], {"qa"}) = {}

LeadInv == blind = 0 => \A j \in AtWork : job[j].alone => Leads(job[j], comments, overlaps)

(* A report written over the first one, or added where there is none, is   *)
(* the first.                                                              *)
LEMMA WrittenIsFirst ==
  ASSUME SoundInv, NEW j \in Job,
         job[j].found = First(Own(job[j].place, {"qa"})),
         comments' = Upsert(job[j].place, job[j].found, QA(j))
  PROVE  Told(comments'[job[j].place]) = job[j].sha
<1> DEFINE p == job[j].place
           n == job[j].found
           own == Own(p, {"qa"})
<1>1. /\ p \in Issue /\ own \in SUBSET Nat
      /\ own \subseteq 1..Len(comments[p]) /\ Len(comments[p]) \in Nat
      /\ QA(j) \in Comment /\ QA(j).own /\ QA(j).mark = "qa" /\ QA(j).says = job[j].sha
  BY OwnLines, CommentsOf DEF SoundInv, Shapes, Knowledge, Threadful
<1>2. (own = {} => n = 0) /\ (own # {} => n \in own /\ \A k \in own : n <= k)
  BY <1>1, FirstOfLines
<1>3. n \in 0..Len(comments[p])
  BY <1>1, <1>2
<1>4. /\ OwnIn(comments'[p], {"qa"}) = own \cup {PutAt(p, n)}
      /\ comments'[p][PutAt(p, n)] = QA(j)
  <2>1. Threadful /\ comments' = Upsert(p, n, QA(j)) /\ QA(j).mark \in {"qa"}
    BY <1>1 DEF SoundInv, Shapes
  <2> HIDE DEF p, n
  <2>2. OwnIn(Upsert(p, n, QA(j))[p], {"qa"}) = Own(p, {"qa"}) \cup {PutAt(p, n)}
    BY <1>1, <1>3, <2>1, OwnWritten
  <2>3. Upsert(p, n, QA(j))[p][PutAt(p, n)] = QA(j)
    BY <1>1, <1>3, <2>1, OneLineWritten
  <2> QED
    BY <2>1, <2>2, <2>3
<1>5. First(own \cup {PutAt(p, n)}) = PutAt(p, n)
  <2>1. CASE own = {}
    <3>1. PutAt(p, n) \in Nat /\ own \cup {PutAt(p, n)} = {PutAt(p, n)}
      BY <1>1, <1>2, <2>1 DEF PutAt
    <3> QED
      BY <3>1, FirstOfOne
  <2>2. CASE own # {}
    <3>1. PutAt(p, n) = n /\ own \cup {n} = own
      BY <1>1, <1>2, <2>2 DEF PutAt
    <3> QED
      BY <3>1
  <2> QED
    BY <2>1, <2>2
<1> QED
  BY <1>1, <1>4, <1>5 DEF Told

(* Without overlaps the source has one report, which is rewritten.         *)
LEMMA OneOnSource ==
  ASSUME CountInv, overlaps = 0, blind = 0
  PROVE  Own(Source, {"qa"}) \subseteq {First(Own(Source, {"qa"}))}
<1>1. Source \in Issue
  BY DEF Issue
<1>2. IsFiniteSet(Own(Source, {"qa"})) /\ Own(Source, {"qa"}) \in SUBSET Nat
  BY <1>1, OwnLines DEF CountInv, SoundInv, Shapes
<1>3. Cardinality(Own(Source, {"qa"})) <= 1
  BY <1>1, OneReportHolds DEF CountInv, OneReport, Reports
<1>4. Cardinality(Own(Source, {"qa"})) \in Nat
  BY <1>2, FS_CardinalityType
<1>5. CASE Own(Source, {"qa"}) = {}
  BY <1>5
<1>6. CASE Own(Source, {"qa"}) # {}
  <2>1. Cardinality(Own(Source, {"qa"})) # 0
    BY <1>2, <1>6, FS_EmptySet
  <2>2. Cardinality(Own(Source, {"qa"})) = 1
    BY <1>3, <1>4, <2>1
  <2>3. PICK n : Own(Source, {"qa"}) = {n}
    BY <1>2, <2>2, FS_Singleton
  <2>4. First(Own(Source, {"qa"})) \in Own(Source, {"qa"})
    BY <1>2, <1>6, FirstOfLines
  <2> QED
    BY <2>3, <2>4
<1> QED
  BY <1>5, <1>6

(* A line that was rewritten leads to the pull request.                    *)
LEMMA LinkLeads ==
  ASSUME SoundInv, NEW j \in Job, job[j].place # Source,
         NEW n \in 0..Len(comments[Source]), comments' = Upsert(Source, n, Link(j))
  PROVE  /\ OwnIn(comments'[Source], {"link"}) = Own(Source, {"link"}) \cup {PutAt(Source, n)}
         /\ OwnIn(comments'[Source], {"qa"}) = Own(Source, {"qa"}) \ {PutAt(Source, n)}
         /\ comments'[Source][PutAt(Source, n)].says = job[j].place
         /\ \A k \in Own(Source, {"link"}) : k # PutAt(Source, n) => comments'[Source][k] = comments[Source][k]
         /\ \A k \in Own(Source, {"link"}) \cup Own(Source, {"qa"}) : k = n => k = PutAt(Source, n)
         /\ comments'[job[j].place] = comments[job[j].place]
<1>1. /\ Source \in Issue /\ Threadful /\ job[j].place \in Issue
      /\ Link(j) \in Comment /\ Link(j).own /\ Link(j).mark = "link" /\ Link(j).says = job[j].place
  BY CommentsOf DEF SoundInv, Shapes, Knowledge, Issue
<1>2. /\ OwnIn(comments'[Source], {"link"}) = Own(Source, {"link"}) \cup {PutAt(Source, n)}
      /\ OwnIn(comments'[Source], {"qa"}) = Own(Source, {"qa"}) \ {PutAt(Source, n)}
  BY <1>1, OwnWritten
<1>3. /\ comments'[Source][PutAt(Source, n)] = Link(j)
      /\ \A k \in DOMAIN comments[Source] : k # PutAt(Source, n) => comments'[Source][k] = comments[Source][k]
      /\ comments'[job[j].place] = comments[job[j].place]
  BY <1>1, OneLineWritten
<1>4. \A k \in Own(Source, {"link"}) \cup Own(Source, {"qa"}) :
        k \in DOMAIN comments[Source] /\ k \in 1..Len(comments[Source])
  BY <1>1, OwnLines
<1> QED
  BY <1>1, <1>2, <1>3, <1>4 DEF PutAt
(* The requests of a job that works alone.                                 *)
LEMMA LoneRequest ==
  ASSUME CountInv, NEW j \in Job, Work(j), blind = 0, blind' = 0, Leads(job[j], comments, overlaps)
  PROVE  job'[j].at \in OverAt \/ Leads(job'[j], comments', overlaps)
<1> USE DEF CountInv
<1>1. /\ job[j] \in Knowledge /\ job[j].place \in Issue /\ Sound(job[j], comments) /\ Source \in Issue
      /\ Threadful
  BY DEF SoundInv, Shapes, Knowledge, Issue
<1>2. \A x : Become(j, x) => job'[j] = x
  BY DEF Become, SoundInv, Shapes
<1>3. \A how \in {"acked", "ended"} : End(j, how) => job'[j].at \in OverAt
  BY <1>2 DEF End, Fresh, OverAt
<1>4. ASSUME job'[j].at \notin {"write", "source", "rewrite", "last"}
      PROVE  Leads(job'[j], comments', overlaps)
  BY <1>4 DEF Leads
<1>5. \A known \in BOOLEAN : Listing(known) => known
  BY DEF Listing, SoundInv, Shapes
<1>6. CASE Publish(j)
  <2>1. CASE Become(j, [job[j] EXCEPT !.at = "report", !.sha = job[j].pinned])
    BY <1>1, <1>2, <1>4, <2>1 DEF Knowledge
  <2>2. CASE Become(j, [job[j] EXCEPT !.at = "open", !.sha = commits', !.pushed = TRUE])
    BY <1>1, <1>2, <1>4, <2>2 DEF Knowledge
  <2> QED
    BY <1>3, <1>6, <2>1, <2>2 DEF Publish
<1>7. CASE Open(j)
  <2>1. CASE GoOn(j, "report")
    BY <1>1, <1>2, <1>4, <2>1 DEF GoOn, Knowledge
  <2> QED
    BY <1>3, <1>7, <2>1 DEF Open
<1>8. CASE Report(j)
  <2>1. CASE Become(j, [job[j] EXCEPT !.at = "list", !.place = Source]) \/ GoOn(j, "pull")
    BY <1>1, <1>2, <1>4, <2>1 DEF GoOn, Knowledge
  <2> QED
    BY <1>3, <1>8, <2>1 DEF Report
<1>9. CASE FindPull(j)
  <2>1. CASE Chosen(j)
    BY <1>1, <1>2, <1>4, <2>1 DEF Chosen, Knowledge
  <2> QED
    BY <1>3, <1>9, <2>1 DEF FindPull
<1>10. CASE List(j)
  <2>1. /\ comments' = comments
        /\ Become(j, [job[j] EXCEPT !.at = "write", !.found = First(Own(job[j].place, {"qa"}))])
    BY <1>5, <1>10 DEF List, Seen
  <2>2. /\ job'[j].at = "write" /\ job'[j].place = job[j].place
        /\ job'[j].found = First(Own(job[j].place, {"qa"}))
    BY <1>1, <1>2, <2>1 DEF Knowledge
  <2> QED
    BY <2>1, <2>2 DEF Leads, Own
<1>11. CASE WriteReport(j)
  <2>1. CASE GoOn(j, "source")
    <3>1. job'[j] = [job[j] EXCEPT !.at = "source"]
      BY <1>2, <2>1 DEF GoOn
    <3>2. /\ job'[j].at = "source" /\ job'[j].place = job[j].place /\ job'[j].sha = job[j].sha
      BY <1>1, <3>1 DEF Knowledge
    <3>3. comments' = Upsert(job[j].place, job[j].found, QA(j))
      BY <1>3, <1>11, <3>2 DEF WriteReport, Sent, OverAt
    <3>4. job[j].found = First(Own(job[j].place, {"qa"}))
      BY <1>11 DEF WriteReport, Leads, Own
    <3> QED
      BY <3>2, <3>3, <3>4, WrittenIsFirst DEF Leads
  <2> QED
    BY <1>3, <1>11, <2>1 DEF WriteReport
<1>12. CASE ListSource(j)
  <2>1. PICK todo \in [1..3 -> SUBSET Nat] :
          /\ Become(j, [job[j] EXCEPT !.at = "rewrite", !.todo = todo])
          /\ Own(Source, {"link"}) \subseteq Lines(todo)
          /\ Own(Source, {"qa"}) # {} => First(Own(Source, {"qa"})) \in Lines(todo)
    BY <1>5, <1>12, SourceListed DEF Seen
  <2>2. comments' = comments
    BY <1>12 DEF ListSource
  <2>3. /\ job'[j].at = "rewrite" /\ job'[j].todo = todo
        /\ job'[j].place = job[j].place /\ job'[j].sha = job[j].sha
    BY <1>1, <1>2, <2>1 DEF Knowledge
  <2>4. Told(comments[job[j].place]) = job[j].sha
    BY <1>12 DEF ListSource, Leads
  <2>5. overlaps = 0 => Own(Source, {"qa"}) \subseteq Lines(todo)
    BY <2>1, OneOnSource
  <2> QED
    BY <2>1, <2>2, <2>3, <2>4, <2>5 DEF Leads, Own
<1>13. CASE Rewrite(j)
  <2> DEFINE todo == job[j].todo
             n == NextLine(todo)
  <2>1. PICK out \in Outcome :
          /\ Sent(Source, n, Link(j), out)
          /\ n \in 0..Len(comments[Source])
          /\ job[j].place # Source
          /\ todo \in [1..3 -> SUBSET Nat] /\ Lines(todo) # {}
          /\ IF out # "answered" THEN End(j, "ended")
             ELSE \E next \in {"rewrite", "last"} :
                    /\ Become(j, [job[j] EXCEPT !.at = next, !.todo = Left(todo)])
                    /\ next = "last" <=> Lines(Left(todo)) = {}
    BY <1>13, LineRewritten
  <2>2. CASE out # "answered"
    BY <1>3, <2>1, <2>2
  <2>3. CASE out = "answered"
    <3>1. PICK next \in {"rewrite", "last"} :
            /\ Become(j, [job[j] EXCEPT !.at = next, !.todo = Left(todo)])
            /\ next = "last" <=> Lines(Left(todo)) = {}
      BY <2>1, <2>3
    <3>2. /\ job'[j].at = next /\ job'[j].todo = Left(todo)
          /\ job'[j].place = job[j].place /\ job'[j].sha = job[j].sha
      BY <1>1, <1>2, <3>1 DEF Knowledge
    <3>3. comments' = Upsert(Source, n, Link(j))
      BY <2>1, <2>3 DEF Sent
    <3>4. /\ OwnIn(comments'[Source], {"link"}) = Own(Source, {"link"}) \cup {PutAt(Source, n)}
          /\ OwnIn(comments'[Source], {"qa"}) = Own(Source, {"qa"}) \ {PutAt(Source, n)}
          /\ comments'[Source][PutAt(Source, n)].says = job[j].place
          /\ \A k \in Own(Source, {"link"}) : k # PutAt(Source, n) => comments'[Source][k] = comments[Source][k]
          /\ \A k \in Own(Source, {"link"}) \cup Own(Source, {"qa"}) : k = n => k = PutAt(Source, n)
          /\ comments'[job[j].place] = comments[job[j].place]
      BY <2>1, <3>3, LinkLeads
    <3>5. Lines(todo) \subseteq Lines(Left(todo)) \cup {n}
      BY <2>1, OneLineTaken
    <3>6. /\ Told(comments[job[j].place]) = job[j].sha
          /\ \A k \in Own(Source, {"link"}) : comments[Source][k].says = job[j].place \/ k \in Lines(todo)
          /\ overlaps = 0 => Own(Source, {"qa"}) \subseteq Lines(todo)
      BY <1>13 DEF Rewrite, Leads, Own
    <3> HIDE DEF todo, n
    <3>7. \A k \in OwnIn(comments'[Source], {"link"}) :
            comments'[Source][k].says = job[j].place \/ k \in Lines(Left(todo))
      BY <3>4, <3>5, <3>6
    <3>8. overlaps = 0 => OwnIn(comments'[Source], {"qa"}) \subseteq Lines(Left(todo))
      BY <3>4, <3>5, <3>6
    <3> QED
      BY <3>1, <3>2, <3>4, <3>6, <3>7, <3>8 DEF Leads
  <2> QED
    BY <2>2, <2>3
<1>14. CASE Acknowledge(j)
  BY <1>3, <1>14 DEF Acknowledge
<1>15. CASE Refuse(j)
  <2>1. PICK m \in Notices, next \in {"write_notice", "list_notice"} :
          Become(j, [job[j] EXCEPT !.notice = m, !.at = next])
    BY <1>15 DEF Refuse
  <2> QED
    BY <1>1, <1>2, <1>4, <2>1 DEF Knowledge
<1>16. CASE ListNotices(j)
  <2>1. PICK n : Become(j, [job[j] EXCEPT !.at = "write_notice", !.found = n])
    BY <1>16 DEF ListNotices
  <2> QED
    BY <1>1, <1>2, <1>4, <2>1 DEF Knowledge
<1>17. CASE WriteNotice(j)
  BY <1>3, <1>17 DEF WriteNotice
<1> QED
  BY <1>6, <1>7, <1>8, <1>9, <1>10, <1>11, <1>12, <1>13, <1>14, <1>15, <1>16, <1>17 DEF Work
LEMMA LeadNext ==
  ASSUME CountInv, LeadInv, [CommentNext]_commentVars
  PROVE  LeadInv'
<1> USE DEF CountInv
<1> SUFFICES ASSUME blind' = 0, NEW i \in AtWork', job'[i].alone
             PROVE  Leads(job'[i], comments', overlaps')
  BY DEF LeadInv
<1>1. \A x \in AtWork' : x \in Job /\ job'[x].at \notin OverAt
  BY DEF AtWork, Ended, OverAt
<1>2. ASSUME NEW j \in Job, Work(j)
      PROVE  Leads(job'[i], comments', overlaps')
  <2>1. blind = 0
    BY <1>2, WorkCounts DEF SoundInv, Shapes
  <2>2. i \in AtWork /\ j \in AtWork /\ i \in Job
    BY <1>1, <1>2, WorkJobs, WorkerIsAtWork
  <2>3. job[i].alone
    BY <1>2, <2>2, WorkJobs
  <2>4. i = j
    BY <2>2, <2>3 DEF CrowdInv
  <2>5. Leads(job[j], comments, overlaps)
    BY <2>1, <2>2, <2>3, <2>4 DEF LeadInv
  <2>6. job'[j].at \in OverAt \/ Leads(job'[j], comments', overlaps)
    BY <1>2, <2>1, <2>5, LoneRequest
  <2>7. overlaps' = overlaps
    BY <1>2, WorkCounts
  <2> QED
    BY <1>1, <2>4, <2>6, <2>7
<1>3. ASSUME NEW j \in Job, NEW m \in Mode, Begin(j, m)
      PROVE  Leads(job'[i], comments', overlaps')
  <2>1. i = j
    BY <1>3, BeginCrowd
  <2>2. job'[j].at = "work"
    <3>1. job'[j] = [Fresh("work") EXCEPT !.mode = m, !.pinned = head', !.alone = AtWork = {}]
      BY <1>3, BeginJobs
    <3> HIDE DEF AtWork
    <3> QED
      BY <3>1 DEF Fresh
  <2> QED
    BY <2>1, <2>2 DEF Leads
<1>4. ASSUME job' = job, comments' = comments, overlaps' = overlaps, blind' = blind
      PROVE  Leads(job'[i], comments', overlaps')
  <2>1. i \in AtWork /\ job[i].alone
    BY <1>4 DEF AtWork, Ended
  <2> QED
    BY <1>4, <2>1 DEF LeadInv
<1> QED
  BY <1>2, <1>3, <1>4 DEF CommentNext, OutsidePush, OutsideClose, commentVars

-----------------------------------------------------------------------------
(***************************************************************************)
(* The step that acknowledges a report, and what the reporters promise.    *)
(***************************************************************************)
LEMMA AcknowledgedHow ==
  ASSUME SoundInv, [CommentNext]_commentVars, NEW j \in Job, Acks(j)
  PROVE  /\ j \in AtWork
         /\ \/ /\ job[j].at = "write" /\ job[j].place = Source
               /\ comments' = Upsert(job[j].place, job[j].found, QA(j))
            \/ job[j].at = "last" /\ ~Moved(j) /\ comments' = comments
<1>1. job[j].at \in {"write", "last"} /\ job'[j].at = "acked"
  BY DEF Acks
<1>2. j \in AtWork
  BY <1>1 DEF AtWork, Ended
<1>3. ASSUME NEW k \in Job, NEW m \in Mode, Begin(k, m)
      PROVE  FALSE
  <2>1. k # j
    BY <1>2, <1>3, BeginCrowd
  <2>2. job'[j] = job[j] \/ job'[j] = [job[j] EXCEPT !.alone = FALSE]
    BY <1>3, <2>1, BeginJobs
  <2>3. job[j] \in Knowledge
    BY DEF SoundInv, Shapes
  <2> QED
    BY <1>1, <2>2, <2>3 DEF Knowledge
<1>4. ~(job' = job)
  BY <1>1
<1>5. PICK k \in Job : Work(k)
  BY <1>3, <1>4 DEF CommentNext, OutsidePush, OutsideClose, commentVars
<1>6. k = j
  BY <1>1, <1>5, WorkJobs
<1>7. WriteReport(j) \/ Acknowledge(j)
  BY <1>1, <1>5, <1>6 DEF Work, Publish, Open, Report, FindPull, List, ListSource, Rewrite, Refuse,
                          ListNotices, WriteNotice
<1>8. \A how : End(j, how) => job'[j].at = how
  BY DEF End, Become, Fresh, SoundInv, Shapes
<1>9. CASE WriteReport(j)
  <2>1. ~GoOn(j, "source")
    <3>1. job[j] \in Knowledge
      BY DEF SoundInv, Shapes
    <3> QED
      BY <1>1, <3>1 DEF GoOn, Become, SoundInv, Shapes, Knowledge
  <2> QED
    BY <1>1, <1>2, <1>8, <1>9, <2>1 DEF WriteReport, Sent
<1>10. CASE Acknowledge(j)
  BY <1>1, <1>2, <1>8, <1>10 DEF Acknowledge
<1> QED
  BY <1>7, <1>9, <1>10

LeadingInv == CountInv /\ LeadInv

(* A job that works alone, as long as every listing knew the publisher,    *)
(* writes its report over the first one and leaves no comment of the       *)
(* source that leads elsewhere unless it is still to be rewritten.         *)
THEOREM LoneReportsLead == CommentSpec => []LeadingInv
<1>1. CommentInit => LeadingInv
  <2>1. CommentInit => CountInv
    BY InitIsSound, InitIsCounted DEF CountInv
  <2>2. CommentInit => AtWork = {}
    BY DEF CommentInit, Fresh, AtWork
  <2> QED
    BY <2>1, <2>2 DEF LeadingInv, LeadInv
<1>2. LeadingInv /\ [CommentNext]_commentVars => LeadingInv'
  BY SoundNext, CrowdNext, ReportNext, LeadNext DEF LeadingInv, CountInv
<1> QED
  BY <1>1, <1>2, PTL DEF CommentSpec

(* One report, the last one, and a way to it; comments of others stay.     *)
THEOREM CurrentReports == CommentSpec => ReportsAreCurrent
<1> USE DEF CountInv
<1>1. LeadingInv => OneReport
  BY OneReportHolds DEF LeadingInv
<1>2. LeadingInv /\ [CommentNext]_commentVars
        => [\A j \in Job : Acks(j) /\ job[j].alone /\ blind = 0 => Shown(j)]_commentVars
  <2> SUFFICES ASSUME LeadingInv, [CommentNext]_commentVars, NEW j \in Job, Acks(j), job[j].alone, blind = 0
               PROVE  Shown(j)
    OBVIOUS
  <2>1. SoundInv /\ LeadInv
    BY DEF LeadingInv
  <2>2. Leads(job[j], comments, overlaps) /\ j \in AtWork
    BY <2>1, AcknowledgedHow DEF LeadInv
  <2>3. CASE /\ job[j].at = "write" /\ job[j].place = Source
             /\ comments' = Upsert(job[j].place, job[j].found, QA(j))
    <3>1. Told(comments'[job[j].place]) = job[j].sha
      BY <2>1, <2>2, <2>3, WrittenIsFirst DEF Leads, Own
    <3> QED
      BY <2>3, <3>1 DEF Shown
  <2>4. CASE job[j].at = "last" /\ comments' = comments
    BY <2>2, <2>4 DEF Leads, Shown, Own
  <2> QED
    BY <2>1, <2>3, <2>4, AcknowledgedHow
<1>3. LeadingInv /\ [CommentNext]_commentVars
        => [\A j \in Job : Acks(j) /\ job[j].mode = "continue" /\ job[j].place # Source
                             => job[j].sha = head]_commentVars
  <2> SUFFICES ASSUME LeadingInv, [CommentNext]_commentVars,
                      NEW j \in Job, Acks(j), job[j].mode = "continue", job[j].place # Source
               PROVE  job[j].sha = head
    OBVIOUS
  <2> QED
    BY AcknowledgedHow DEF LeadingInv, Moved
<1>4. LeadingInv /\ [CommentNext]_commentVars
        => [\A i \in Issue : \A n \in DOMAIN comments[i] :
              ~comments[i][n].own => comments'[i][n] = comments[i][n]]_commentVars
  BY SoundNext, WrittenTo DEF LeadingInv, SoundInv, Shapes
<1> QED
  BY <1>1, <1>2, <1>3, <1>4, LoneReportsLead, PTL
     DEF CommentSpec, ReportsAreCurrent, AckedIsShown, ContinuationIsCurrent, OthersStay

-----------------------------------------------------------------------------
(***************************************************************************)
(* The publication of reviews.  The comments never outnumber what overlaps *)
(* and blind listings explain, because publishers about to add one are     *)
(* counted beforehand: those at work are no more than the meetings allow.  *)
(***************************************************************************)
(* Publishers about to write without having found a comment.               *)
Appending == {p \in Publisher : at[p] \in {"reread", "write"} /\ found[p] = 0}
Begun     == {p \in Publisher : at[p] # "idle"}

(* The state is well formed, every fault is counted once, and a comment    *)
(* found is the first.                                                     *)
ShapeInv ==
  /\ prHead \in Sha /\ of \in [RunNo -> Sha \cup {0}]
  /\ checks \subseteq Sha \X RunNo /\ reviews \in Seq([head : Sha, run : RunNo])
  /\ at \in [Publisher -> NextRequest] /\ alone \in [Publisher -> BOOLEAN]
  /\ found \in [Publisher -> {0, 1}]
  /\ meetings \in Nat /\ guesses \in Nat /\ troubles \in Nat
  /\ guesses <= troubles /\ troubles <= MaxTroubles
  /\ \A p \in Publisher : found[p] = 1 => reviews # <<>>

(* Who speaks has a report; what is about to be said has its check.        *)
BackedInv ==
  /\ \A r \in RunNo : of[r] <= prHead
  /\ \A p \in Publisher : at[p] # "idle" => of[p[1]] # 0
  /\ \A p \in Publisher : at[p] \in {"list", "reread", "write"} => <<of[p[1]], p[1]>> \in checks
  /\ \A n \in DOMAIN reviews : <<reviews[n].head, reviews[n].run>> \in checks /\ reviews[n].head <= prHead

(* All but one of those at work met another when they began.               *)
MeetingInv ==
  /\ Cardinality(Busy) <= 1 + meetings
  /\ meetings <= Cardinality(Begun)
  /\ \A p \in Busy : alone[p] => Busy = {p}

(* The comments, and those that will be added.                             *)
RoomInv == Len(reviews) + Cardinality(Appending) <= 1 + meetings + guesses

(* What a lone publisher knows of the comments is still so.                *)
KnownInv ==
  /\ \A p \in Appending : alone[p] /\ guesses = 0 => reviews = <<>>
  /\ meetings = 0 => \A p \in Publisher : at[p] = "write" =>
       \A n \in DOMAIN reviews : reviews[n].head <= of[p[1]]

PublicationInv == ShapeInv /\ BackedInv /\ MeetingInv /\ RoomInv /\ KnownInv

-----------------------------------------------------------------------------
LEMMA PublishersAreFinite ==
  /\ IsFiniteSet(Publisher) /\ Cardinality(Publisher) = 2 * MaxRuns
  /\ IsFiniteSet(Busy) /\ IsFiniteSet(Appending) /\ IsFiniteSet(Begun)
  /\ Cardinality(Busy) \in Nat /\ Cardinality(Appending) \in Nat /\ Cardinality(Begun) \in Nat
  /\ Cardinality(Begun) <= 2 * MaxRuns
  /\ Appending \subseteq Busy
<1>1. IsFiniteSet(RunNo) /\ Cardinality(RunNo) = MaxRuns
  <2>1. MaxRuns \in Nat
    BY PublicationAssumption
  <2> QED
    BY <2>1, FS_Interval, 1 \in Int, MaxRuns \in Int DEF RunNo
<1>2. IsFiniteSet(Who) /\ Cardinality(Who) = 2
  <2>1. IsFiniteSet({"launcher"}) /\ Cardinality({"launcher"}) = 1
    BY FS_Singleton
  <2>2. Who = {"launcher"} \cup {"finalizer"} /\ "finalizer" \notin {"launcher"}
    BY DEF Who
  <2> QED
    BY <2>1, <2>2, FS_AddElement
<1>3. IsFiniteSet(Publisher) /\ Cardinality(Publisher) = MaxRuns * 2
  BY <1>1, <1>2, FS_Product DEF Publisher
<1>4. Busy \subseteq Publisher /\ Appending \subseteq Publisher /\ Begun \subseteq Publisher
  BY DEF Busy, Appending, Begun
<1>5. IsFiniteSet(Busy) /\ IsFiniteSet(Appending) /\ IsFiniteSet(Begun)
      /\ Cardinality(Begun) <= Cardinality(Publisher)
  BY <1>3, <1>4, FS_Subset
<1>6. Cardinality(Busy) \in Nat /\ Cardinality(Appending) \in Nat /\ Cardinality(Begun) \in Nat
  BY <1>5, FS_CardinalityType
<1>7. Appending \subseteq Busy
  BY DEF Appending, Busy, Over
<1>8. MaxRuns * 2 = 2 * MaxRuns
  BY PublicationAssumption
<1> QED
  BY <1>3, <1>5, <1>6, <1>7, <1>8

LEMMA EachComment ==
  ASSUME ShapeInv
  PROVE  \A n \in DOMAIN reviews :
           reviews[n] \in [head : Sha, run : RunNo] /\ reviews[n].head \in Sha /\ reviews[n].head \in Int
<1> DEFINE S == [head : Sha, run : RunNo]
<1>1. reviews \in Seq(S)
  BY DEF ShapeInv
<1>2. \A c \in S : c.head \in Sha /\ c.head \in Int
  BY PublicationAssumption DEF Sha
<1> HIDE DEF S
<1>3. \A n \in DOMAIN reviews : reviews[n] \in S
  BY <1>1
<1>4. \A n \in DOMAIN reviews : reviews[n].head \in Sha /\ reviews[n].head \in Int
  BY <1>2, <1>3
<1> QED
  BY <1>3, <1>4, Zenon DEF S

LEMMA PublicationInitInv == PublicationInit => PublicationInv
<1> SUFFICES ASSUME PublicationInit PROVE PublicationInv
  OBVIOUS
<1>1. Busy = {} /\ Begun = {} /\ Appending = {}
  BY DEF PublicationInit, Busy, Begun, Appending, Over
<1>2. Cardinality({}) = 0
  BY FS_EmptySet
<1>3. ShapeInv
  <2>1. prHead \in Sha /\ of \in [RunNo -> Sha \cup {0}] /\ checks \subseteq Sha \X RunNo
    BY PublicationAssumption DEF PublicationInit, Sha
  <2>2. alone \in [Publisher -> BOOLEAN]
    BY Zenon DEF PublicationInit
  <2>3. at \in [Publisher -> NextRequest] /\ found \in [Publisher -> {0, 1}]
    BY DEF PublicationInit, NextRequest
  <2>4. reviews \in Seq([head : Sha, run : RunNo])
    BY DEF PublicationInit
  <2>5. meetings = 0 /\ guesses = 0 /\ troubles = 0 /\ 0 <= MaxTroubles
    BY PublicationAssumption DEF PublicationInit
  <2>6. \A p \in Publisher : found[p] = 0
    BY DEF PublicationInit
  <2> QED
    BY <2>1, <2>2, <2>3, <2>4, <2>5, <2>6 DEF ShapeInv
<1>4. BackedInv
  <2>1. reviews = <<>> /\ \A r \in RunNo : of[r] = 0
    BY DEF PublicationInit
  <2>2. \A p \in Publisher : at[p] = "idle"
    BY DEF PublicationInit
  <2> QED
    BY <2>1, <2>2 DEF BackedInv, PublicationInit
<1>5. MeetingInv /\ RoomInv /\ KnownInv
  BY <1>1, <1>2 DEF PublicationInit, MeetingInv, RoomInv, KnownInv
<1> QED
  BY <1>3, <1>4, <1>5 DEF PublicationInv

-----------------------------------------------------------------------------
LEMMA PublisherMoves ==
  ASSUME ShapeInv, NEW p \in Publisher, NEW s \in NextRequest, MoveOn(p, s)
  PROVE  /\ at' \in [Publisher -> NextRequest] /\ at'[p] = s
         /\ \A q \in Publisher : q # p => at'[q] = at[q]
BY DEF ShapeInv, MoveOn

LEMMA OneAtWork ==
  ASSUME PublicationInv, meetings = 0, NEW p \in Busy, NEW q \in Busy
  PROVE  p = q
<1> SUFFICES ASSUME p # q PROVE FALSE
  OBVIOUS
<1>1. IsFiniteSet({p}) /\ Cardinality({p}) = 1
  BY FS_Singleton
<1>2. IsFiniteSet({p} \cup {q}) /\ Cardinality({p} \cup {q}) = 2
  BY <1>1, FS_AddElement
<1>3. {p} \cup {q} \subseteq Busy
  OBVIOUS
<1>4. 2 <= Cardinality(Busy)
  BY <1>2, <1>3, PublishersAreFinite, FS_Subset
<1> QED
  BY <1>4, PublishersAreFinite DEF PublicationInv, MeetingInv

LEMMA LoneAtWork ==
  ASSUME PublicationInv, NEW p \in Busy, NEW q \in Busy, alone[p]
  PROVE  p = q
BY DEF PublicationInv, MeetingInv

(* A request that leaves the comments alone, or fails.                     *)
LEMMA PlainStep ==
  ASSUME PublicationInv, NEW p \in Publisher, NEW s \in NextRequest \ {"idle", "reread"}, p \in Busy,
         MoveOn(p, s), checks \subseteq checks', checks' \subseteq Sha \X RunNo,
         UNCHANGED <<prHead, of, reviews, found, alone, meetings, guesses>>,
         troubles' \in Nat, troubles <= troubles', troubles' <= MaxTroubles,
         s = "list" => <<of[p[1]], p[1]>> \in checks',
         s = "write" => at[p] = "reread" /\ prHead = of[p[1]]
  PROVE  PublicationInv'
<1>1. /\ at' \in [Publisher -> NextRequest] /\ at'[p] = s
      /\ \A q \in Publisher : q # p => at'[q] = at[q]
  BY PublisherMoves DEF PublicationInv
<1>2. Busy' \subseteq Busy /\ Begun' = Begun /\ Appending' \subseteq Appending
  <2>1. Busy' \subseteq Busy
    BY <1>1 DEF Busy, Over
  <2>2. Begun' = Begun
    BY <1>1 DEF Begun, Busy
  <2>3. Appending' \subseteq Appending
    BY <1>1 DEF Appending
  <2> QED
    BY <2>1, <2>2, <2>3
<1>3. Cardinality(Busy') <= Cardinality(Busy) /\ Cardinality(Appending') <= Cardinality(Appending)
      /\ Cardinality(Busy') \in Nat /\ Cardinality(Appending') \in Nat
  <2>1. Cardinality(Busy') <= Cardinality(Busy) /\ IsFiniteSet(Busy')
    BY <1>2, PublishersAreFinite, FS_Subset
  <2>2. Cardinality(Appending') <= Cardinality(Appending) /\ IsFiniteSet(Appending')
    BY <1>2, PublishersAreFinite, FS_Subset
  <2> QED
    BY <2>1, <2>2, FS_CardinalityType
<1>4. ShapeInv'
  <2>1. alone' \in [Publisher -> BOOLEAN]
    BY Zenon DEF PublicationInv, ShapeInv
  <2>2. guesses' <= troubles'
    BY DEF PublicationInv, ShapeInv
  <2> QED
    BY <1>1, <2>1, <2>2 DEF PublicationInv, ShapeInv
<1>5. BackedInv'
  <2>1. \A q \in Publisher : at'[q] # "idle" => of[q[1]] # 0
    BY <1>1 DEF PublicationInv, BackedInv, Busy
  <2>2. \A q \in Publisher : at'[q] \in {"list", "reread", "write"} => <<of[q[1]], q[1]>> \in checks'
    BY <1>1 DEF PublicationInv, BackedInv
  <2>3. \A n \in DOMAIN reviews :
          <<reviews[n].head, reviews[n].run>> \in checks' /\ reviews[n].head <= prHead
    BY DEF PublicationInv, BackedInv
  <2> QED
    BY <2>1, <2>2, <2>3 DEF PublicationInv, BackedInv
<1>6. MeetingInv'
  BY <1>2, <1>3, PublishersAreFinite DEF PublicationInv, MeetingInv, ShapeInv
<1>7. RoomInv'
  <2>1. Len(reviews) \in Nat
    BY DEF PublicationInv, ShapeInv
  <2> QED
    BY <1>3, <2>1, PublishersAreFinite DEF PublicationInv, RoomInv, ShapeInv
<1>8. KnownInv'
  <2>1. \A q \in Appending' : alone[q] /\ guesses = 0 => reviews = <<>>
    BY <1>2 DEF PublicationInv, KnownInv
  <2>2. \A n \in DOMAIN reviews : reviews[n].head <= prHead
    BY DEF PublicationInv, BackedInv
  <2>3. meetings = 0 => \A q \in Publisher : at'[q] = "write" =>
          \A n \in DOMAIN reviews : reviews[n].head <= of[q[1]]
    BY <1>1, <2>2 DEF PublicationInv, KnownInv
  <2> QED
    BY <2>1, <2>3 DEF KnownInv
<1> QED
  BY <1>4, <1>5, <1>6, <1>7, <1>8 DEF PublicationInv

LEMMA TroublesGrow ==
  ASSUME PublicationInv, NEW out \in Reply, Troubled(out)
  PROVE  /\ troubles' \in Nat /\ troubles <= troubles' /\ troubles' <= MaxTroubles
         /\ out = "failed" => troubles' = troubles + 1
BY PublicationAssumption DEF PublicationInv, ShapeInv, Troubled

LEMMA SameTroubles ==
  ASSUME PublicationInv, UNCHANGED troubles
  PROVE  troubles' \in Nat /\ troubles <= troubles' /\ troubles' <= MaxTroubles
BY PublicationAssumption DEF PublicationInv, ShapeInv

LEMMA AtIsBusy ==
  ASSUME NEW p \in Publisher, at[p] \in {"ask", "read", "check", "list", "reread", "write"}
  PROVE  p \in Busy
BY DEF Busy, Over

LEMMA ReadHeadInv ==
  ASSUME PublicationInv, NEW p \in Publisher, NEW from, NEW to, ReadHead(p, from, to),
         <<from, to>> \in {<<"ask", "read">>, <<"read", "check">>, <<"reread", "write">>}
  PROVE  PublicationInv'
<1>1. p \in Busy /\ at[p] = from /\ from \in {"ask", "read", "reread"} /\ to \in {"read", "check", "write"}
      /\ (to = "write" => from = "reread")
  BY AtIsBusy DEF ReadHead
<1>2. checks' = checks /\ checks' \subseteq Sha \X RunNo
  BY DEF ReadHead, PublicationInv, ShapeInv
<1>3. troubles' \in Nat /\ troubles <= troubles' /\ troubles' <= MaxTroubles
  BY TroublesGrow, SameTroubles DEF ReadHead, Reply
<1>4. PICK s \in {"ended", to} : MoveOn(p, s) /\ (s = "write" => prHead = of[p[1]])
  BY DEF ReadHead, Superseded
<1>5. s \in NextRequest \ {"idle", "reread"} /\ s # "list"
  BY <1>1 DEF NextRequest
<1> QED
  BY <1>1, <1>2, <1>3, <1>4, <1>5, PlainStep DEF ReadHead

LEMMA PostCheckInv ==
  ASSUME PublicationInv, NEW p \in Publisher, PostCheck(p)
  PROVE  PublicationInv'
<1>1. p \in Busy /\ at[p] = "check"
  BY AtIsBusy DEF PostCheck
<1>2. PICK out \in Reply :
        /\ Troubled(out) /\ MoveOn(p, IF out = "answered" THEN "list" ELSE "ended")
        /\ checks' = IF out = "failed" THEN checks ELSE checks \cup {<<of[p[1]], p[1]>>}
  BY DEF PostCheck
<1>3. <<of[p[1]], p[1]>> \in Sha \X RunNo
  <2>1. p[1] \in RunNo
    BY DEF Publisher
  <2>2. of[p[1]] # 0
    BY <1>1 DEF PublicationInv, BackedInv
  <2> QED
    BY <2>1, <2>2 DEF PublicationInv, ShapeInv
<1>4. checks \subseteq checks' /\ checks' \subseteq Sha \X RunNo
      /\ (out = "answered" => <<of[p[1]], p[1]>> \in checks')
  BY <1>2, <1>3 DEF PublicationInv, ShapeInv
<1>5. troubles' \in Nat /\ troubles <= troubles' /\ troubles' <= MaxTroubles
  BY <1>2, TroublesGrow
<1> DEFINE s == IF out = "answered" THEN "list" ELSE "ended"
<1>6. s \in NextRequest \ {"idle", "reread"} /\ s # "write" /\ (s = "list" => out = "answered")
  BY DEF NextRequest
<1>7. MoveOn(p, s)
  BY <1>2
<1> HIDE DEF s
<1> QED
  BY <1>1, <1>4, <1>5, <1>6, <1>7, PlainStep DEF PostCheck

LEMMA FirstComment ==
  ASSUME ShapeInv
  PROVE  OldestOf(DOMAIN reviews) = IF reviews = <<>> THEN 0 ELSE 1
<1>1. Len(reviews) \in Nat /\ DOMAIN reviews = 1..Len(reviews)
  BY DEF ShapeInv
<1>2. CASE reviews = <<>>
  BY <1>2 DEF OldestOf
<1>3. CASE reviews # <<>>
  <2>1. Len(reviews) # 0
    BY <1>3 DEF ShapeInv
  <2>2. 1 \in DOMAIN reviews /\ \A n \in DOMAIN reviews : 1 <= n /\ n \in Nat
    BY <1>1, <2>1
  <2>3. Min(DOMAIN reviews) \in DOMAIN reviews /\ \A n \in DOMAIN reviews : Min(DOMAIN reviews) <= n
    BY <2>2 DEF Min
  <2>4. Min(DOMAIN reviews) = 1
    BY <2>2, <2>3
  <2> QED
    BY <1>3, <2>2, <2>4 DEF OldestOf
<1> QED
  BY <1>2, <1>3

LEMMA FindCommentInv ==
  ASSUME PublicationInv, NEW p \in Publisher, FindComment(p)
  PROVE  PublicationInv'
<1>1. p \in Busy /\ at[p] = "list" /\ <<of[p[1]], p[1]>> \in checks
  BY AtIsBusy DEF FindComment, PublicationInv, BackedInv
<1>2. UNCHANGED <<prHead, of, checks, reviews, alone, meetings>>
  BY DEF FindComment
<1>3. CASE MoveOn(p, "ended") /\ Troubled("failed") /\ UNCHANGED <<found, guesses>>
  <2>1. "ended" \in NextRequest \ {"idle", "reread"} /\ "failed" \in Reply
    BY DEF NextRequest, Reply
  <2>2. troubles' \in Nat /\ troubles <= troubles' /\ troubles' <= MaxTroubles
    BY <1>3, <2>1, TroublesGrow
  <2>3. checks \subseteq checks' /\ checks' \subseteq Sha \X RunNo
    BY <1>2 DEF PublicationInv, ShapeInv
  <2> QED
    BY <1>1, <1>2, <1>3, <2>1, <2>2, <2>3, PlainStep
<1>4. ASSUME MoveOn(p, "reread"), NEW f \in {0, 1}, found' = [found EXCEPT ![p] = f],
             guesses' \in Nat, troubles' \in Nat, guesses <= guesses',
             guesses' <= troubles', troubles' <= MaxTroubles,
             f = 1 => reviews # <<>>,
             (f = 0 /\ guesses' = 0) => reviews = <<>>,
             f = 1 \/ reviews = <<>> \/ guesses' = guesses + 1
      PROVE  PublicationInv'
  <2>1. /\ at' \in [Publisher -> NextRequest] /\ at'[p] = "reread"
        /\ \A q \in Publisher : q # p => at'[q] = at[q]
    BY <1>4, PublisherMoves DEF PublicationInv, NextRequest
  <2>2. found' \in [Publisher -> {0, 1}] /\ found'[p] = f
        /\ \A q \in Publisher : q # p => found'[q] = found[q]
    BY <1>4 DEF PublicationInv, ShapeInv
  <2>3. Busy' = Busy /\ Begun' = Begun /\ Appending' \subseteq Busy
        /\ Appending' \subseteq Appending \cup {p} /\ (f = 1 => Appending' \subseteq Appending)
    <3>1. Busy' = Busy
      BY <1>1, <2>1 DEF Busy, Over
    <3>2. Begun' = Begun
      BY <1>1, <2>1 DEF Begun
    <3>3. Appending' \subseteq Appending \cup {p} /\ (f = 1 => Appending' \subseteq Appending)
      BY <2>1, <2>2 DEF Appending
    <3> QED
      BY <1>1, <3>1, <3>2, <3>3, PublishersAreFinite
  <2>4. ShapeInv'
    <3>1. alone' \in [Publisher -> BOOLEAN]
      BY <1>2, Zenon DEF PublicationInv, ShapeInv
    <3>2. \A q \in Publisher : found'[q] = 1 => reviews # <<>>
      BY <1>4, <2>2 DEF PublicationInv, ShapeInv
    <3> QED
      BY <1>2, <1>4, <2>1, <2>2, <3>1, <3>2 DEF PublicationInv, ShapeInv
  <2>5. BackedInv'
    <3>1. \A q \in Publisher : at'[q] # "idle" => of[q[1]] # 0
      BY <1>1, <2>1 DEF PublicationInv, BackedInv
    <3>2. \A q \in Publisher : at'[q] \in {"list", "reread", "write"} => <<of[q[1]], q[1]>> \in checks
      BY <1>1, <2>1 DEF PublicationInv, BackedInv
    <3> QED
      BY <1>2, <3>1, <3>2 DEF PublicationInv, BackedInv
  <2>6. MeetingInv'
    BY <1>2, <2>3 DEF PublicationInv, MeetingInv
  <2>7. RoomInv'
    <3>1. IsFiniteSet(Appending \cup {p}) /\ Cardinality(Appending \cup {p}) <= Cardinality(Appending) + 1
      <4>1. IsFiniteSet(Appending) /\ Cardinality(Appending) \in Nat
        BY PublishersAreFinite
      <4>2. /\ IsFiniteSet(Appending \cup {p})
            /\ \/ Cardinality(Appending \cup {p}) = Cardinality(Appending)
               \/ Cardinality(Appending \cup {p}) = Cardinality(Appending) + 1
        BY <4>1, FS_AddElement
      <4> QED
        BY <4>1, <4>2
    <3>2. Cardinality(Appending') \in Nat /\ Cardinality(Appending') <= Cardinality(Busy)
          /\ Cardinality(Appending') <= Cardinality(Appending \cup {p})
          /\ (f = 1 => Cardinality(Appending') <= Cardinality(Appending))
      BY <2>3, <3>1, PublishersAreFinite, FS_Subset, FS_CardinalityType
    <3>3. Cardinality(Appending \cup {p}) \in Nat
      BY <3>1, FS_CardinalityType
    <3>4. Len(reviews) \in Nat /\ meetings \in Nat /\ guesses \in Nat
      BY DEF PublicationInv, ShapeInv
    <3>5. Len(reviews) + Cardinality(Appending) <= 1 + meetings + guesses /\ Cardinality(Busy) <= 1 + meetings
      BY DEF PublicationInv, RoomInv, MeetingInv
    <3>6. CASE f = 1
      BY <1>2, <1>4, <3>2, <3>4, <3>5, <3>6, PublishersAreFinite DEF RoomInv
    <3>7. CASE reviews = <<>>
      BY <1>2, <1>4, <3>2, <3>4, <3>5, <3>7, PublishersAreFinite DEF RoomInv
    <3>8. CASE guesses' = guesses + 1
      BY <1>2, <1>4, <3>1, <3>2, <3>3, <3>4, <3>5, <3>8, PublishersAreFinite DEF RoomInv
    <3> QED
      BY <1>4, <3>6, <3>7, <3>8
  <2>8. KnownInv'
    <3>1. \A q \in Appending' : alone[q] /\ guesses' = 0 => reviews = <<>>
      <4>1. guesses' = 0 => guesses = 0
        BY <1>4 DEF PublicationInv, ShapeInv
      <4>2. p \in Appending' => f = 0
        BY <2>2 DEF Appending
      <4> QED
        BY <1>4, <2>3, <4>1, <4>2 DEF PublicationInv, KnownInv
    <3>2. meetings = 0 => \A q \in Publisher : at'[q] = "write" =>
            \A n \in DOMAIN reviews : reviews[n].head <= of[q[1]]
      BY <2>1 DEF PublicationInv, KnownInv
    <3> QED
      BY <1>2, <3>1, <3>2 DEF KnownInv
  <2> QED
    BY <2>4, <2>5, <2>6, <2>7, <2>8 DEF PublicationInv
<1>5. CASE MoveOn(p, "reread") /\ found' = [found EXCEPT ![p] = OldestOf(DOMAIN reviews)]
           /\ UNCHANGED <<guesses, troubles>>
  <2>1. OldestOf(DOMAIN reviews) = IF reviews = <<>> THEN 0 ELSE 1
    BY FirstComment DEF PublicationInv
  <2>2. guesses \in Nat /\ troubles \in Nat /\ guesses <= troubles /\ troubles <= MaxTroubles
    BY DEF PublicationInv, ShapeInv
  <2>3. MoveOn(p, "reread") /\ guesses' = guesses /\ troubles' = troubles
    BY <1>5
  <2>4. CASE reviews = <<>>
    <3>1. found' = [found EXCEPT ![p] = 0]
      BY <1>5, <2>1, <2>4
    <3> QED
      BY <1>4, <2>2, <2>3, <2>4, <3>1
  <2>5. CASE reviews # <<>>
    <3>1. found' = [found EXCEPT ![p] = 1]
      BY <1>5, <2>1, <2>5
    <3> QED
      BY <1>4, <2>2, <2>3, <2>5, <3>1
  <2> QED
    BY <2>4, <2>5
<1>6. CASE MoveOn(p, "reread") /\ found' = [found EXCEPT ![p] = 0]
           /\ guesses' = guesses + 1 /\ Troubled("failed")
  <2>1. guesses \in Nat /\ troubles \in Nat /\ guesses <= troubles
    BY DEF PublicationInv, ShapeInv
  <2>2. troubles' \in Nat /\ troubles' <= MaxTroubles /\ troubles' = troubles + 1
    BY <1>6, TroublesGrow DEF Reply
  <2> QED
    BY <1>4, <1>6, <2>1, <2>2
<1> QED
  BY <1>3, <1>5, <1>6 DEF FindComment


(* A sequence after an addition at its end, and after a change of its head. *)
LEMMA Added ==
  ASSUME NEW S, NEW r \in Seq(S), NEW c \in S, NEW t, t = Append(r, c)
  PROVE  /\ t \in Seq(S) /\ t # <<>> /\ Len(t) = Len(r) + 1
         /\ \A n \in DOMAIN t : t[n] = c \/ (n \in DOMAIN r /\ t[n] = r[n])
         /\ \A n \in DOMAIN r : t[n] = r[n]
<1>1. Len(r) \in Nat /\ DOMAIN r = 1..Len(r)
  OBVIOUS
<1>2. t \in Seq(S) /\ Len(t) = Len(r) + 1
  OBVIOUS
<1>3. \A n \in 1..Len(r) : t[n] = r[n]
  OBVIOUS
<1>4. t[Len(r) + 1] = c
  OBVIOUS
<1>5. DOMAIN t = 1..Len(r) + 1
  BY <1>2
<1>6. \A n \in DOMAIN t : n \in 1..Len(r) \/ n = Len(r) + 1
  BY <1>1, <1>5
<1>7. t # <<>>
  BY <1>1, <1>2
<1>8. ASSUME NEW n \in DOMAIN t
      PROVE  t[n] = c \/ (n \in DOMAIN r /\ t[n] = r[n])
  <2>1. CASE n \in 1..Len(r)
    BY <1>1, <1>3, <2>1, Zenon
  <2>2. CASE n = Len(r) + 1
    BY <1>4, <2>2, Zenon
  <2> QED
    BY <1>6, <2>1, <2>2, Zenon
<1>9. \A n \in DOMAIN r : t[n] = r[n]
  BY <1>1, <1>3, Zenon
<1> QED
  BY <1>2, <1>7, <1>8, <1>9, Zenon

LEMMA Replaced ==
  ASSUME NEW S, NEW r \in Seq(S), r # <<>>, NEW c \in S, NEW t, t = [r EXCEPT ![1] = c]
  PROVE  /\ t \in Seq(S) /\ t # <<>> /\ Len(t) = Len(r) /\ t[1] = c
         /\ \A n \in DOMAIN t : t[n] = c \/ (n \in DOMAIN r /\ t[n] = r[n])
         /\ \A n \in DOMAIN r : t[n] = r[n] \/ t[n] = c
<1>1. Len(r) \in Nat /\ DOMAIN r = 1..Len(r) /\ Len(r) # 0
  OBVIOUS
<1>2. 1 \in DOMAIN r
  BY <1>1
<1>3. t \in Seq(S) /\ Len(t) = Len(r)
  BY <1>2
<1>4. t # <<>>
  BY <1>1, <1>3
<1>5. DOMAIN t = DOMAIN r /\ t[1] = c /\ \A n \in DOMAIN r : n # 1 => t[n] = r[n]
  BY <1>2
<1>6. \A n \in DOMAIN t : t[n] = c \/ (n \in DOMAIN r /\ t[n] = r[n])
  BY <1>5, Zenon
<1>7. \A n \in DOMAIN r : t[n] = r[n] \/ t[n] = c
  BY <1>5, Zenon
<1> QED
  BY <1>3, <1>4, <1>5, <1>6, <1>7, Zenon

(* What a publisher has to say, and what it makes of the comments.         *)
Said(p) == [head |-> of[p[1]], run |-> p[1]]

LEMMA PutComment ==
  ASSUME PublicationInv, NEW p \in Publisher, at[p] = "write",
         NEW t, t = Put(p, Said(p))
  PROVE  /\ Said(p) \in [head : Sha, run : RunNo] /\ <<Said(p).head, Said(p).run>> \in checks
         /\ Said(p).head = of[p[1]] /\ Said(p).head <= prHead
         /\ t \in Seq([head : Sha, run : RunNo]) /\ t # <<>>
         /\ \A n \in DOMAIN t : t[n] = Said(p) \/ (n \in DOMAIN reviews /\ t[n] = reviews[n])
         /\ found[p] = 0 => Len(t) = Len(reviews) + 1
         /\ found[p] = 1 => Len(t) = Len(reviews) /\ t[1] = Said(p)
         /\ \A n \in DOMAIN reviews : t[n] = reviews[n] \/ t[n] = Said(p)
<1> DEFINE S == [head : Sha, run : RunNo]
<1> DEFINE c == Said(p)
<1>1. c \in S /\ <<c.head, c.run>> \in checks /\ c.head = of[p[1]] /\ c.head <= prHead
  <2>1. p[1] \in RunNo
    BY DEF Publisher
  <2>2. of[p[1]] \in Sha /\ of[p[1]] <= prHead /\ <<of[p[1]], p[1]>> \in checks
    BY <2>1 DEF PublicationInv, ShapeInv, BackedInv
  <2> QED
    BY <2>1, <2>2 DEF Said
<1>2. reviews \in Seq(S) /\ found[p] \in {0, 1} /\ (found[p] = 1 => reviews # <<>>)
  BY DEF PublicationInv, ShapeInv
<1>0. t = Put(p, c)
  OBVIOUS
<1> HIDE DEF S, c
<1>3. CASE found[p] = 0
  <2>1. t = Append(reviews, c)
    BY <1>0, <1>3 DEF Put
  <2>2. /\ t \in Seq(S) /\ t # <<>> /\ Len(t) = Len(reviews) + 1
        /\ \A n \in DOMAIN t : t[n] = c \/ (n \in DOMAIN reviews /\ t[n] = reviews[n])
        /\ \A n \in DOMAIN reviews : t[n] = reviews[n]
    BY <1>1, <1>2, <2>1, Added
  <2>3. found[p] # 1
    BY <1>3
  <2>4. \A n \in DOMAIN reviews : t[n] = reviews[n] \/ t[n] = c
    BY <2>2, Zenon
  <2> QED
    BY <1>1, <2>2, <2>3, <2>4, Zenon DEF S, c
<1>4. CASE found[p] = 1
  <2>1. t = [reviews EXCEPT ![1] = c]
    <3>1. t = [reviews EXCEPT ![found[p]] = c]
      BY <1>0, <1>4, 1 # 0, Zenon DEF Put
    <3> QED
      BY <1>4, <3>1, Zenon
  <2>2. /\ t \in Seq(S) /\ t # <<>> /\ Len(t) = Len(reviews) /\ t[1] = c
        /\ \A n \in DOMAIN t : t[n] = c \/ (n \in DOMAIN reviews /\ t[n] = reviews[n])
        /\ \A n \in DOMAIN reviews : t[n] = reviews[n] \/ t[n] = c
    <3>1. c \in S /\ reviews \in Seq(S) /\ reviews # <<>>
      BY <1>1, <1>2, <1>4
    <3> QED
      BY <2>1, <3>1, Replaced
  <2>3. found[p] # 0
    BY <1>4
  <2> QED
    BY <1>1, <2>2, <2>3, Zenon DEF S, c
<1> QED
  BY <1>2, <1>3, <1>4

LEMMA CommentWritten ==
  ASSUME PublicationInv, NEW p \in Publisher, at[p] = "write", NEW s \in {"ended", "published"},
         MoveOn(p, s), UNCHANGED <<prHead, of, checks, found, alone, meetings, guesses>>,
         troubles' \in Nat, troubles <= troubles', troubles' <= MaxTroubles,
         reviews' = Put(p, Said(p))
  PROVE  PublicationInv'
<1> DEFINE c == Said(p)
<1>1. /\ c \in [head : Sha, run : RunNo] /\ <<c.head, c.run>> \in checks /\ c.head <= prHead
      /\ reviews' \in Seq([head : Sha, run : RunNo]) /\ reviews' # <<>>
      /\ \A n \in DOMAIN reviews' : reviews'[n] = c \/ (n \in DOMAIN reviews /\ reviews'[n] = reviews[n])
      /\ found[p] = 0 => Len(reviews') = Len(reviews) + 1
      /\ found[p] = 1 => Len(reviews') = Len(reviews)
  <2>1. \A t : t = Put(p, Said(p)) =>
           /\ Said(p) \in [head : Sha, run : RunNo] /\ <<Said(p).head, Said(p).run>> \in checks
           /\ Said(p).head <= prHead
    BY PutComment, Zenon
  <2>2. \A t : t = Put(p, Said(p)) => t \in Seq([head : Sha, run : RunNo]) /\ t # <<>>
    BY PutComment, Zenon
  <2>3. \A t : t = Put(p, Said(p)) =>
           \A n \in DOMAIN t : t[n] = Said(p) \/ (n \in DOMAIN reviews /\ t[n] = reviews[n])
    BY PutComment, Zenon
  <2>4. \A t : t = Put(p, Said(p)) =>
           /\ found[p] = 0 => Len(t) = Len(reviews) + 1
           /\ found[p] = 1 => Len(t) = Len(reviews)
    BY PutComment, Zenon
  <2> QED
    BY <2>1, <2>2, <2>3, <2>4, Zenon
<1> HIDE DEF c
<1>2. /\ at' \in [Publisher -> NextRequest] /\ at'[p] = s
      /\ \A q \in Publisher : q # p => at'[q] = at[q]
  BY PublisherMoves DEF PublicationInv, NextRequest
<1>3. p \in Busy /\ Busy' = Busy \ {p} /\ Begun' = Begun /\ Appending' = Appending \ {p}
  <2>1. p \in Busy
    BY AtIsBusy
  <2>2. Busy' = Busy \ {p}
    BY <1>2 DEF Busy, Over
  <2>3. Begun' = Begun
    BY <1>2 DEF Begun
  <2>4. Appending' = Appending \ {p}
    BY <1>2 DEF Appending
  <2> QED
    BY <2>1, <2>2, <2>3, <2>4
<1>4. /\ Cardinality(Busy') \in Nat /\ Cardinality(Busy') <= Cardinality(Busy)
      /\ Cardinality(Appending') \in Nat
      /\ IF p \in Appending THEN Cardinality(Appending') = Cardinality(Appending) - 1
                            ELSE Cardinality(Appending') = Cardinality(Appending)
  <2>1. IsFiniteSet(Busy) /\ IsFiniteSet(Appending)
    BY PublishersAreFinite
  <2>2. IsFiniteSet(Busy \ {p}) /\ Cardinality(Busy \ {p}) <= Cardinality(Busy)
    BY <2>1, FS_Subset, Busy \ {p} \subseteq Busy
  <2>3. /\ IsFiniteSet(Appending \ {p})
        /\ Cardinality(Appending \ {p}) =
             IF p \in Appending THEN Cardinality(Appending) - 1 ELSE Cardinality(Appending)
    BY <2>1, FS_RemoveElement
  <2> QED
    BY <1>3, <2>2, <2>3, FS_CardinalityType
<1>5. ShapeInv'
  <2>1. alone' \in [Publisher -> BOOLEAN]
    BY Zenon DEF PublicationInv, ShapeInv
  <2>2. guesses' <= troubles'
    BY DEF PublicationInv, ShapeInv
  <2> QED
    BY <1>1, <1>2, <2>1, <2>2 DEF PublicationInv, ShapeInv
<1>6. BackedInv'
  <2>1. \A q \in Publisher : at'[q] # "idle" => of[q[1]] # 0
    BY <1>2 DEF PublicationInv, BackedInv
  <2>2. \A q \in Publisher : at'[q] \in {"list", "reread", "write"} => <<of[q[1]], q[1]>> \in checks
    BY <1>2 DEF PublicationInv, BackedInv
  <2>3. \A n \in DOMAIN reviews' :
          <<reviews'[n].head, reviews'[n].run>> \in checks /\ reviews'[n].head <= prHead
    BY <1>1 DEF PublicationInv, BackedInv
  <2> QED
    BY <2>1, <2>2, <2>3 DEF PublicationInv, BackedInv
<1>7. MeetingInv'
  <2>1. \A q \in Busy' : alone[q] => Busy' = {q}
    BY <1>3, LoneAtWork
  <2> QED
    BY <1>3, <1>4, <2>1, PublishersAreFinite DEF PublicationInv, MeetingInv, ShapeInv
<1>8. RoomInv'
  <2>1. found[p] \in {0, 1} /\ (found[p] = 0 => p \in Appending)
    BY DEF PublicationInv, ShapeInv, Appending
  <2>2. Len(reviews) \in Nat /\ meetings \in Nat /\ guesses \in Nat
    BY DEF PublicationInv, ShapeInv
  <2>3. Len(reviews') + Cardinality(Appending') <= Len(reviews) + Cardinality(Appending)
    BY <1>1, <1>4, <2>1, <2>2, PublishersAreFinite
  <2>4. Len(reviews') \in Nat
    BY <1>1, <2>1, <2>2
  <2> QED
    BY <1>4, <2>2, <2>3, <2>4, PublishersAreFinite DEF PublicationInv, RoomInv
<1>9. KnownInv'
  <2>1. \A q \in Appending' : ~alone[q]
    BY <1>3, LoneAtWork, PublishersAreFinite
  <2>2. meetings = 0 => \A q \in Publisher : at'[q] # "write"
    <3> SUFFICES ASSUME meetings = 0, NEW q \in Publisher, at'[q] = "write" PROVE FALSE
      OBVIOUS
    <3>1. q # p /\ q \in Busy
      BY <1>2, AtIsBusy
    <3> QED
      BY <1>3, <3>1, OneAtWork
  <2> QED
    BY <2>1, <2>2 DEF KnownInv
<1> QED
  BY <1>5, <1>6, <1>7, <1>8, <1>9 DEF PublicationInv

LEMMA WriteInv ==
  ASSUME PublicationInv, NEW p \in Publisher, Write(p)
  PROVE  PublicationInv'
<1>1. p \in Busy /\ at[p] = "write"
  BY AtIsBusy DEF Write
<1>2. PICK out \in Reply :
        /\ Troubled(out) /\ MoveOn(p, IF out = "answered" THEN "published" ELSE "ended")
        /\ reviews' = IF out = "failed" THEN reviews ELSE Put(p, [head |-> of[p[1]], run |-> p[1]])
  BY DEF Write
<1>3. troubles' \in Nat /\ troubles <= troubles' /\ troubles' <= MaxTroubles
  BY <1>2, TroublesGrow
<1> DEFINE s == IF out = "answered" THEN "published" ELSE "ended"
<1>4. MoveOn(p, s) /\ s \in {"ended", "published"}
  BY <1>2
<1> HIDE DEF s
<1>5. CASE out = "failed"
  <2>1. checks \subseteq checks' /\ checks' \subseteq Sha \X RunNo
    BY DEF Write, PublicationInv, ShapeInv
  <2>2. reviews' = reviews
    BY <1>2, <1>5
  <2>3. s \in NextRequest \ {"idle", "reread"} /\ s # "list" /\ s # "write"
    BY <1>4 DEF NextRequest
  <2> QED
    BY <1>1, <1>3, <1>4, <2>1, <2>2, <2>3, PlainStep DEF Write
<1>6. CASE out # "failed"
  BY <1>1, <1>2, <1>3, <1>4, <1>6, CommentWritten DEF Write, Said
<1> QED
  BY <1>5, <1>6


LEMMA BeginInv ==
  ASSUME PublicationInv, NEW p \in Publisher, BeginPublishing(p)
  PROVE  PublicationInv'
<1>1. at[p] = "idle" /\ of[p[1]] # 0
      /\ UNCHANGED <<prHead, of, checks, reviews, found, guesses, troubles>>
  BY DEF BeginPublishing
<1>2. PICK s \in {"read", "ask"} : MoveOn(p, s)
  BY DEF BeginPublishing
<1>3. /\ at' \in [Publisher -> NextRequest] /\ at'[p] = s
      /\ \A q \in Publisher : q # p => at'[q] = at[q]
  BY <1>2, PublisherMoves DEF PublicationInv, NextRequest
<1>4. /\ alone' \in [Publisher -> BOOLEAN] /\ (alone'[p] => Busy = {})
      /\ \A q \in Busy : q # p => ~alone'[q]
  <2>1. alone' = [q \in Publisher |-> IF q = p THEN Busy = {} ELSE alone[q] /\ q \notin Busy]
    BY DEF BeginPublishing
  <2>2. alone \in [Publisher -> BOOLEAN]
    BY Zenon DEF PublicationInv, ShapeInv
  <2>3. \A q \in Publisher :
          (IF q = p THEN Busy = {} ELSE alone[q] /\ q \notin Busy) \in BOOLEAN
    BY <2>2, Zenon
  <2>4. alone' \in [Publisher -> BOOLEAN]
    BY <2>1, <2>3, Zenon
  <2>5. alone'[p] => Busy = {}
    BY <2>1, Zenon
  <2>6. \A q \in Busy : q \in Publisher
    BY DEF Busy
  <2>7. \A q \in Busy : q # p => ~alone'[q]
    BY <2>1, <2>6, Zenon
  <2> QED
    BY <2>4, <2>5, <2>7, Zenon
<1>5. /\ Busy' = Busy \cup {p} /\ p \notin Busy /\ Begun' = Begun \cup {p} /\ p \notin Begun
      /\ Appending' = Appending
  <2>1. Busy' = Busy \cup {p} /\ p \notin Busy
    BY <1>1, <1>3 DEF Busy, Over
  <2>2. Begun' = Begun \cup {p} /\ p \notin Begun
    BY <1>1, <1>3 DEF Begun
  <2>3. Appending' = Appending
    BY <1>1, <1>3 DEF Appending
  <2> QED
    BY <2>1, <2>2, <2>3
<1>6. Cardinality(Busy') = Cardinality(Busy) + 1 /\ Cardinality(Begun') = Cardinality(Begun) + 1
  BY <1>5, PublishersAreFinite, FS_AddElement
<1>7. /\ meetings \in Nat /\ meetings' \in Nat /\ meetings <= meetings' /\ meetings' <= meetings + 1
      /\ Busy # {} => meetings' = meetings + 1
  BY DEF BeginPublishing, PublicationInv, ShapeInv
<1>8. ShapeInv'
  BY <1>1, <1>3, <1>4, <1>7 DEF PublicationInv, ShapeInv
<1>9. BackedInv'
  <2>1. \A q \in Publisher : at'[q] # "idle" => of[q[1]] # 0
    BY <1>1, <1>3 DEF PublicationInv, BackedInv
  <2>2. \A q \in Publisher : at'[q] \in {"list", "reread", "write"} => <<of[q[1]], q[1]>> \in checks
    BY <1>3 DEF PublicationInv, BackedInv
  <2> QED
    BY <1>1, <2>1, <2>2 DEF PublicationInv, BackedInv
<1>10. MeetingInv'
  <2>1. Cardinality(Busy') <= 1 + meetings'
    <3>1. CASE Busy = {}
      <4>1. Cardinality(Busy) = 0
        BY <3>1, FS_EmptySet
      <4>2. meetings' = meetings
        BY <3>1 DEF BeginPublishing
      <4>3. Cardinality(Busy') = 1
        BY <1>6, <4>1
      <4> QED
        BY <1>7, <4>2, <4>3
    <3>2. CASE Busy # {}
      BY <1>6, <1>7, <3>2, PublishersAreFinite DEF PublicationInv, MeetingInv
    <3> QED
      BY <3>1, <3>2
  <2>2. meetings' <= Cardinality(Begun')
    BY <1>6, <1>7, PublishersAreFinite DEF PublicationInv, MeetingInv
  <2>3. \A q \in Busy' : alone'[q] => Busy' = {q}
    BY <1>4, <1>5
  <2> QED
    BY <2>1, <2>2, <2>3 DEF MeetingInv
<1>11. RoomInv'
  <2>1. Len(reviews) \in Nat /\ guesses \in Nat /\ Cardinality(Appending) \in Nat
    BY PublishersAreFinite DEF PublicationInv, ShapeInv
  <2>2. Len(reviews) + Cardinality(Appending) <= 1 + meetings + guesses
    BY DEF PublicationInv, RoomInv
  <2> QED
    BY <1>1, <1>5, <1>7, <2>1, <2>2 DEF RoomInv
<1>12. KnownInv'
  <2>1. \A q \in Appending' : ~alone'[q]
    BY <1>4, <1>5, PublishersAreFinite
  <2>2. meetings' = 0 => \A q \in Publisher : at'[q] = "write" =>
          \A n \in DOMAIN reviews : reviews[n].head <= of[q[1]]
    BY <1>3, <1>7 DEF PublicationInv, KnownInv
  <2> QED
    BY <1>1, <2>1, <2>2 DEF KnownInv
<1> QED
  BY <1>8, <1>9, <1>10, <1>11, <1>12 DEF PublicationInv

LEMMA PushInv ==
  ASSUME PublicationInv, Push
  PROVE  PublicationInv'
<1>1. /\ UNCHANGED <<of, checks, reviews, at, found, alone, meetings, guesses, troubles>>
      /\ prHead' \in Sha /\ prHead < prHead' /\ prHead \in Sha
  BY PublicationAssumption DEF Push, PublicationInv, ShapeInv, Sha
<1>2. Busy' = Busy /\ Begun' = Begun /\ Appending' = Appending
  BY <1>1 DEF Busy, Begun, Appending, Over
<1>3. ShapeInv'
  <2>1. alone' \in [Publisher -> BOOLEAN]
    BY <1>1, Zenon DEF PublicationInv, ShapeInv
  <2> QED
    BY <1>1, <2>1 DEF PublicationInv, ShapeInv
<1>4. BackedInv'
  <2>1. \A r \in RunNo : of[r] <= prHead'
    <3>1. \A r \in RunNo : of[r] \in Int /\ of[r] <= prHead
      BY DEF PublicationInv, BackedInv, ShapeInv, Sha
    <3> QED
      BY <1>1, <3>1 DEF Sha
  <2>2. \A n \in DOMAIN reviews : reviews[n].head <= prHead'
    <3>1. \A n \in DOMAIN reviews : reviews[n].head \in Int /\ reviews[n].head <= prHead
      BY EachComment DEF PublicationInv, BackedInv
    <3> QED
      BY <1>1, <3>1 DEF Sha
  <2> QED
    BY <1>1, <2>1, <2>2 DEF PublicationInv, BackedInv
<1>5. MeetingInv' /\ RoomInv' /\ KnownInv'
  BY <1>1, <1>2 DEF PublicationInv, MeetingInv, RoomInv, KnownInv
<1> QED
  BY <1>3, <1>4, <1>5 DEF PublicationInv

LEMMA ReportRunInv ==
  ASSUME PublicationInv, NEW r \in RunNo, ReportRun(r)
  PROVE  PublicationInv'
<1>1. /\ UNCHANGED <<prHead, checks, reviews, at, found, alone, meetings, guesses, troubles>>
      /\ of[r] = 0
  BY DEF ReportRun
<1>2. PICK h \in 1..prHead : of' = [of EXCEPT ![r] = h]
  BY DEF ReportRun
<1>3. h \in Sha /\ h <= prHead
  BY PublicationAssumption DEF PublicationInv, ShapeInv, Sha
<1>4. /\ of' \in [RunNo -> Sha \cup {0}] /\ of'[r] = h /\ h # 0
      /\ \A q \in RunNo : q # r => of'[q] = of[q]
  BY <1>2, <1>3 DEF PublicationInv, ShapeInv, Sha
<1>5. Busy' = Busy /\ Begun' = Begun /\ Appending' = Appending
  BY <1>1 DEF Busy, Begun, Appending, Over
<1>6. \A p \in Publisher : p[1] \in RunNo /\ (at[p] # "idle" => p[1] # r)
  BY <1>1 DEF PublicationInv, BackedInv, Publisher
<1>7. ShapeInv'
  <2>1. alone' \in [Publisher -> BOOLEAN]
    BY <1>1, Zenon DEF PublicationInv, ShapeInv
  <2> QED
    BY <1>1, <1>4, <2>1 DEF PublicationInv, ShapeInv
<1>8. BackedInv'
  <2>1. \A q \in RunNo : of'[q] <= prHead
    BY <1>3, <1>4 DEF PublicationInv, BackedInv
  <2>2. \A p \in Publisher : at[p] # "idle" => of'[p[1]] # 0
    BY <1>4, <1>6 DEF PublicationInv, BackedInv
  <2>3. \A p \in Publisher : at[p] \in {"list", "reread", "write"} => <<of'[p[1]], p[1]>> \in checks
    BY <1>4, <1>6 DEF PublicationInv, BackedInv
  <2> QED
    BY <1>1, <2>1, <2>2, <2>3 DEF PublicationInv, BackedInv
<1>9. MeetingInv' /\ RoomInv'
  BY <1>1, <1>5 DEF PublicationInv, MeetingInv, RoomInv
<1>10. KnownInv'
  <2>1. meetings = 0 => \A p \in Publisher : at[p] = "write" =>
          \A n \in DOMAIN reviews : reviews[n].head <= of'[p[1]]
    BY <1>4, <1>6 DEF PublicationInv, KnownInv
  <2> QED
    BY <1>1, <1>5, <2>1 DEF PublicationInv, KnownInv
<1> QED
  BY <1>7, <1>8, <1>9, <1>10 DEF PublicationInv

LEMMA SamePublication ==
  ASSUME PublicationInv, UNCHANGED publicationVars
  PROVE  PublicationInv'
<1>1. Busy' = Busy /\ Begun' = Begun /\ Appending' = Appending
  BY DEF publicationVars, Busy, Begun, Appending, Over
<1>2. ShapeInv'
  <2>1. alone' \in [Publisher -> BOOLEAN]
    BY Zenon DEF PublicationInv, ShapeInv, publicationVars
  <2> QED
    BY <2>1 DEF PublicationInv, ShapeInv, publicationVars
<1>3. BackedInv' /\ MeetingInv' /\ RoomInv' /\ KnownInv'
  BY <1>1 DEF PublicationInv, BackedInv, MeetingInv, RoomInv, KnownInv, publicationVars
<1> QED
  BY <1>2, <1>3 DEF PublicationInv

LEMMA PublicationStepInv ==
  ASSUME PublicationInv, [PublicationNext]_publicationVars
  PROVE  PublicationInv'
<1>1. CASE Push
  BY <1>1, PushInv
<1>2. ASSUME NEW r \in RunNo, ReportRun(r) PROVE PublicationInv'
  BY <1>2, ReportRunInv
<1>3. ASSUME NEW p \in Publisher, BeginPublishing(p) PROVE PublicationInv'
  BY <1>3, BeginInv
<1>4. ASSUME NEW p \in Publisher, PublishStep(p) PROVE PublicationInv'
  <2>1. CASE ReadHead(p, "ask", "read")
    BY <2>1, ReadHeadInv
  <2>2. CASE ReadHead(p, "read", "check")
    BY <2>2, ReadHeadInv
  <2>3. CASE ReadHead(p, "reread", "write")
    BY <2>3, ReadHeadInv
  <2>4. CASE PostCheck(p)
    BY <2>4, PostCheckInv
  <2>5. CASE FindComment(p)
    BY <2>5, FindCommentInv
  <2>6. CASE Write(p)
    BY <2>6, WriteInv
  <2> QED
    BY <1>4, <2>1, <2>2, <2>3, <2>4, <2>5, <2>6 DEF PublishStep
<1>5. CASE UNCHANGED publicationVars
  BY <1>5, SamePublication
<1> QED
  BY <1>1, <1>2, <1>3, <1>4, <1>5 DEF PublicationNext

-----------------------------------------------------------------------------
(* A publisher that met no other writes over the oldest comment, or the    *)
(* only one.                                                               *)
LEMMA ShownStep ==
  ASSUME PublicationInv, [PublicationNext]_publicationVars, NEW p \in Publisher,
         at[p] = "write", at'[p] = "published", alone[p], guesses = 0
  PROVE  reviews'[1] = [head |-> of[p[1]], run |-> p[1]]
<1>1. Write(p)
  <2>1. at' # at
    OBVIOUS
  <2>2. at \in [Publisher -> NextRequest]
    BY DEF PublicationInv, ShapeInv
  <2>3. ~Push /\ ~UNCHANGED publicationVars /\ \A r \in RunNo : ~ReportRun(r)
    BY <2>1 DEF Push, ReportRun, publicationVars
  <2>4. PICK q \in Publisher : BeginPublishing(q) \/ PublishStep(q)
    BY <2>3 DEF PublicationNext
  <2>5. \E s \in NextRequest : MoveOn(q, s)
    BY <2>4 DEF BeginPublishing, PublishStep, ReadHead, PostCheck, FindComment, Write, NextRequest
  <2>6. q = p
    BY <2>2, <2>5 DEF MoveOn
  <2> QED
    BY <2>4, <2>6 DEF BeginPublishing, PublishStep, ReadHead, PostCheck, FindComment
<1>2. PICK out \in Reply :
        /\ Troubled(out) /\ MoveOn(p, IF out = "answered" THEN "published" ELSE "ended")
        /\ reviews' = IF out = "failed" THEN reviews ELSE Put(p, [head |-> of[p[1]], run |-> p[1]])
  BY <1>1 DEF Write
<1>3. out = "answered"
  BY <1>2 DEF MoveOn, PublicationInv, ShapeInv
<1>4. reviews' = Put(p, Said(p))
  BY <1>2, <1>3 DEF Said
<1>5. found[p] \in {0, 1}
  BY DEF PublicationInv, ShapeInv
<1>6. CASE found[p] = 1
  <2>1. \A t : t = Put(p, Said(p)) => t[1] = Said(p)
    BY <1>6, PutComment, Zenon
  <2> QED
    BY <1>4, <2>1, Zenon DEF Said
<1>7. CASE found[p] = 0
  <2>1. reviews = <<>>
    BY <1>7 DEF PublicationInv, KnownInv, Appending
  <2>2. reviews' = Append(<<>>, Said(p))
    BY <1>4, <1>7, <2>1 DEF Put
  <2> QED
    BY <2>2 DEF Said
<1> QED
  BY <1>5, <1>6, <1>7

LEMMA ForwardStep ==
  ASSUME PublicationInv, [PublicationNext]_publicationVars, meetings = 0, NEW n \in DOMAIN reviews
  PROVE  reviews'[n].head >= reviews[n].head
<1>1. reviews[n].head \in Int
  BY EachComment DEF PublicationInv
<1>2. CASE reviews' = reviews
  BY <1>1, <1>2
<1>3. CASE reviews' # reviews
  <2>1. PICK p \in Publisher : Write(p)
    BY <1>3 DEF PublicationNext, Push, ReportRun, BeginPublishing, PublishStep, ReadHead, PostCheck,
                FindComment, publicationVars
  <2>2. at[p] = "write" /\ reviews' = Put(p, Said(p))
    BY <1>3, <2>1 DEF Write, Said
  <2>3. reviews[n].head <= of[p[1]]
    BY <2>2 DEF PublicationInv, KnownInv
  <2>4. \A t : t = Put(p, Said(p)) => t[n] = reviews[n] \/ t[n] = Said(p)
    BY <2>2, PutComment, Zenon
  <2>5. reviews'[n] = reviews[n] \/ reviews'[n] = Said(p)
    BY <2>2, <2>4, Zenon
  <2>6. Said(p).head = of[p[1]]
    BY DEF Said
  <2>7. of[p[1]] \in Int
    BY DEF PublicationInv, ShapeInv, Sha, Publisher
  <2> QED
    BY <1>1, <2>3, <2>5, <2>6, <2>7
<1> QED
  BY <1>2, <1>3

-----------------------------------------------------------------------------
(* What the runs of a publication, the comments of a pull request and the  *)
(* record of what was reported have in common at every request.            *)
THEOREM PublicationInvariant == PublicationSpec => []PublicationInv
<1>1. PublicationInit => PublicationInv
  BY PublicationInitInv
<1>2. PublicationInv /\ [PublicationNext]_publicationVars => PublicationInv'
  BY PublicationStepInv
<1> QED
  BY <1>1, <1>2, PTL DEF PublicationSpec

(* Every state of a publication is well formed.                            *)
THEOREM PublicationTyped == PublicationSpec => []PublicationTypeOK
<1>1. PublicationInv => PublicationTypeOK
  <2> SUFFICES ASSUME PublicationInv PROVE PublicationTypeOK
    OBVIOUS
  <2>1. \A n \in DOMAIN reviews : reviews[n] \in [head : Sha, run : RunNo]
    BY EachComment DEF PublicationInv
  <2>2. \A p \in Publisher : found[p] \in 0..Len(reviews)
    <3>1. Len(reviews) \in Nat /\ (reviews # <<>> => Len(reviews) # 0)
      BY DEF PublicationInv, ShapeInv
    <3> QED
      BY <3>1 DEF PublicationInv, ShapeInv
  <2>3. meetings \in 0..2 * MaxRuns
    <3>1. 2 * MaxRuns \in Nat
      BY PublicationAssumption
    <3> QED
      BY <3>1, PublishersAreFinite DEF PublicationInv, ShapeInv, MeetingInv
  <2>4. guesses \in 0..MaxTroubles /\ troubles \in 0..MaxTroubles
    BY PublicationAssumption DEF PublicationInv, ShapeInv
  <2>5. alone \in [Publisher -> BOOLEAN]
    BY Zenon DEF PublicationInv, ShapeInv
  <2> QED
    BY <2>1, <2>2, <2>3, <2>4, <2>5 DEF PublicationTypeOK, PublicationInv, ShapeInv
<1> QED
  BY <1>1, PublicationInvariant, PTL

THEOREM CurrentReview == PublicationSpec => ReviewIsCurrent
<1>1. PublicationInv => OneComment /\ CommentHasCheck
  <2> SUFFICES ASSUME PublicationInv PROVE OneComment /\ CommentHasCheck
    OBVIOUS
  <2>1. Len(reviews) \in Nat /\ meetings \in Nat /\ guesses \in Nat
    BY DEF PublicationInv, ShapeInv
  <2>2. OneComment
    BY <2>1, PublishersAreFinite DEF PublicationInv, RoomInv, OneComment
  <2>3. CommentHasCheck
    BY DEF PublicationInv, BackedInv, CommentHasCheck
  <2> QED
    BY <2>2, <2>3
<1>2. PublicationInv /\ [PublicationNext]_publicationVars =>
        [\A p \in Publisher :
           at[p] = "write" /\ at'[p] = "published" /\ alone[p] /\ guesses = 0 =>
             reviews'[1] = [head |-> of[p[1]], run |-> p[1]]]_publicationVars
  BY ShownStep
<1>3. PublicationInv /\ [PublicationNext]_publicationVars =>
        [meetings = 0 => \A n \in DOMAIN reviews : reviews'[n].head >= reviews[n].head]_publicationVars
  BY ForwardStep
<1> QED
  BY <1>1, <1>2, <1>3, PublicationInvariant, PTL DEF PublicationSpec, ReviewIsCurrent, PublishedIsShown, NeverBack

-----------------------------------------------------------------------------
(* The faults of a day are counted, and an overlap has a job that began.   *)
JobsBegun == {j \in Job : job[j].at # "idle"}
TallyInv == blind <= faults /\ faults <= MaxFaults /\ overlaps <= Cardinality(JobsBegun)

LEMMA FiniteJobs ==
  ASSUME NEW S \in SUBSET Job
  PROVE  IsFiniteSet(S) /\ Cardinality(S) \in Nat /\ Cardinality(S) <= MaxJobs
<1>1. IsFiniteSet(Job) /\ Cardinality(Job) = MaxJobs
  BY CommentAssumption, FS_Interval DEF Job
<1> QED
  BY <1>1, FS_Subset, FS_CardinalityType

LEMMA WorkFaults ==
  ASSUME SoundInv, TallyInv, NEW j \in Job, Work(j)
  PROVE  blind' <= faults' /\ faults' <= MaxFaults
<1>1. UNCHANGED <<blind, faults>> \/ (faults < MaxFaults /\ faults' = faults + 1 /\ blind' \in {blind, blind + 1})
  BY DEF Work, Publish, Open, Report, FindPull, List, WriteReport, ListSource, Rewrite, Acknowledge,
         Refuse, ListNotices, WriteNotice, Listing, Sent, Ensured, Counted
<1> QED
  BY <1>1, CommentAssumption DEF TallyInv, SoundInv, Shapes

LEMMA TallyKept ==
  ASSUME SoundInv, TallyInv, [CommentNext]_commentVars
  PROVE  TallyInv'
<1> USE DEF TallyInv
<1>1. CASE UNCHANGED commentVars \/ OutsidePush \/ OutsideClose
  BY <1>1 DEF commentVars, OutsidePush, OutsideClose, JobsBegun
<1>2. ASSUME NEW j \in Job, Work(j) PROVE TallyInv'
  <2>1. PICK r \in Knowledge : Become(j, r) /\ r.at # "idle"
    BY <1>2, WorkSteps DEF Steps
  <2>2. JobsBegun \subseteq JobsBegun'
    BY <2>1, OneJob DEF JobsBegun
  <2>3. Cardinality(JobsBegun) <= Cardinality(JobsBegun')
    <3>1. IsFiniteSet(JobsBegun')
      BY FiniteJobs DEF JobsBegun
    <3> QED
      BY <2>2, <3>1, FS_Subset
  <2>4. overlaps' = overlaps /\ overlaps \in Nat
    BY <1>2, WorkCounts DEF SoundInv, Shapes
  <2>5. Cardinality(JobsBegun) \in Nat /\ Cardinality(JobsBegun') \in Nat
    BY FiniteJobs DEF JobsBegun
  <2> QED
    BY <1>2, <2>3, <2>4, <2>5, WorkFaults
<1>3. ASSUME NEW j \in Job, NEW m \in Mode, Begin(j, m) PROVE TallyInv'
  <2>1. j \notin JobsBegun
    BY <1>3 DEF Begin, JobsBegun
  <2>2. JobsBegun' = JobsBegun \cup {j}
    <3>1. job'[j].at = "work"
      <4>1. job'[j] = [Fresh("work") EXCEPT !.mode = m, !.pinned = head', !.alone = AtWork = {}]
        BY <1>3, BeginJobs
      <4>2. \A a : [Fresh("work") EXCEPT !.mode = m, !.pinned = head', !.alone = a].at = "work"
        BY DEF Fresh
      <4> QED
        BY <4>1, <4>2
    <3>2. \A i \in Job : i # j => job'[i].at = job[i].at
      <4>1. \A i \in Job : i # j => job'[i] \in {job[i], [job[i] EXCEPT !.alone = FALSE]}
        BY <1>3, BeginJobs
      <4>2. \A i \in Job : [job[i] EXCEPT !.alone = FALSE].at = job[i].at
        BY DEF SoundInv, Shapes, Knowledge
      <4> QED
        BY <4>1, <4>2
    <3> QED
      BY <3>1, <3>2 DEF JobsBegun
  <2>3. Cardinality(JobsBegun') = Cardinality(JobsBegun) + 1
    <3>1. IsFiniteSet(JobsBegun)
      BY FiniteJobs DEF JobsBegun
    <3> QED
      BY <2>1, <2>2, <3>1, FS_AddElement
  <2>4. overlaps' \in {overlaps, overlaps + 1} /\ overlaps \in Nat /\ UNCHANGED <<blind, faults>>
    BY <1>3, BeginJobs DEF SoundInv, Shapes
  <2>5. Cardinality(JobsBegun) \in Nat
    BY FiniteJobs DEF JobsBegun
  <2> QED
    BY <2>3, <2>4, <2>5
<1> QED
  BY <1>1, <1>2, <1>3 DEF CommentNext

(* Every state is well formed: in particular what a job is about to        *)
(* rewrite are lines that its pull request has.                            *)
THEOREM CommentTyped == CommentSpec => []CommentTypeOK
<1>1. CommentInit => TallyInv
  <2> SUFFICES ASSUME CommentInit PROVE TallyInv
    OBVIOUS
  <2>1. Cardinality(JobsBegun) \in Nat
    BY FiniteJobs DEF JobsBegun
  <2> QED
    BY <2>1, CommentAssumption DEF CommentInit, TallyInv
<1>2. SoundInv /\ TallyInv => CommentTypeOK
  <2> SUFFICES ASSUME SoundInv, TallyInv PROVE CommentTypeOK
    OBVIOUS
  <2>1. \A i \in Issue : Len(comments[i]) \in Nat /\ DOMAIN comments[i] = 1..Len(comments[i])
                         /\ \A n \in DOMAIN comments[i] : comments[i][n] \in Comment
    BY DEF SoundInv, Shapes, Threadful
  <2>2. overlaps \in 0..MaxJobs /\ blind \in 0..MaxFaults /\ faults \in 0..MaxFaults
    <3>1. Cardinality(JobsBegun) \in Nat /\ Cardinality(JobsBegun) <= MaxJobs
      BY FiniteJobs DEF JobsBegun
    <3> QED
      BY <3>1, CommentAssumption DEF TallyInv, SoundInv, Shapes
  <2>3. ASSUME NEW j \in Job
        PROVE  /\ job[j].found \in 0..Len(comments[job[j].place])
               /\ job[j].todo \in [1..3 -> SUBSET (0..Len(comments[Source]))]
    <3>1. job[j] \in Knowledge /\ Sound(job[j], comments) /\ Source \in Issue
      BY DEF SoundInv, Shapes, Issue
    <3>2. job[j].place \in Issue /\ job[j].found \in Nat /\ job[j].todo \in [1..3 -> SUBSET Nat]
      BY <3>1 DEF Knowledge
    <3>3. job[j].found \in 0..Len(comments[job[j].place])
      BY <2>1, <3>1, <3>2 DEF Sound, OwnLine
    <3>4. \A k \in 1..3 : \A n \in job[j].todo[k] : n \in 0..Len(comments[Source])
      BY <2>1, <3>1, <3>2 DEF Sound, OwnLine
    <3> QED
      BY <3>2, <3>3, <3>4
  <2>4. \A j \in Job : job[j] \in Knowledge
    BY DEF SoundInv, Shapes
  <2> QED
    BY <2>1, <2>2, <2>3, <2>4 DEF CommentTypeOK, Knowledge, SoundInv, Shapes
<1> QED
  BY <1>1, <1>2, TallyKept, SoundInvariant, PTL DEF CommentSpec
===============================================================================
