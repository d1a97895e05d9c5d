-------------------------------- MODULE MCParts --------------------------------
(***************************************************************************)
(* Small instances of seven parts of the system that each keep to          *)
(* themselves, each a scene chosen at the start: the comments of the       *)
(* translation jobs, the publication of reviews, the money of a worker,    *)
(* the tool session of the critic, the change of a table of contents, the  *)
(* surgical change of an article and the translation of one of its hunks.  *)
(* What belongs to another scene rests.                                    *)
(***************************************************************************)
EXTENDS ReportComments, ReviewPublication, RunBudget, CriticToolLoop
LOCAL Seqs == INSTANCE SequencesExt

(* Comments: the source pull request begins with somebody's quotation of a *)
(* report, and with a link left by an older build.                         *)
SmallThreads ==
  {<<[own |-> FALSE, mark |-> "qa", says |-> 0], [own |-> TRUE, mark |-> "legacy", says |-> 1]>>}

(* Money: bounds and bills below, at and above the limit, and bills above  *)
(* the bound of their attempt.                                             *)
SmallBound == {1, 2, 4}
SmallBill  == {0, 1, 2, 4, 5}

VARIABLES
  before, after, target, hash, applied, output,                \* TocDelta
  textBefore, textAfter, textTarget, differing, updating, mode, hunks, translated, updated,
                                                               \* SurgicalUpdate
  hunk, answered, form, asked, ruling, restored,               \* DocumentResponse
  scene    \* which instance this behaviour is

tocVars == <<before, after, target, hash, applied, output>>
updateVars == <<textBefore, textAfter, textTarget, differing, updating, mode, hunks, translated, updated>>
hunkVars == <<hunk, answered, form, asked, ruling, restored>>
partsVars ==
  <<commentVars, vars, loopVars, publicationVars, tocVars, updateVars, hunkVars, scene>>

-----------------------------------------------------------------------------
(* Tables of contents of one or two entries.                               *)
Entry(h, l)  == [href |-> h, label |-> l, items |-> <<>>, group |-> FALSE]
Titled(l, pages) == [href |-> "none", label |-> l, items |-> pages, group |-> TRUE]
SourceEntries ==
  {Entry("a", "A"), Entry("a", "B"), Entry("b", "A"), Entry("b", "B"),
   Titled("G", <<Entry("a", "A")>>), Titled("G", <<Entry("a", "A"), Entry("b", "B")>>)}
TargetEntries ==
  {Entry("a", "a"), Entry("b", "b"), Entry("t", "t"),
   Titled("g", <<Entry("a", "a"), Entry("t", "t")>>), Titled("G", <<Entry("t", "t"), Entry("a", "a")>>),
   Titled("g", <<Entry("a", "a"), Entry("b", "b")>>)}
Pages(toc) == Seqs!FlattenSeq([n \in DOMAIN toc |-> IF toc[n].group THEN toc[n].items ELSE <<toc[n]>>])
Tocs(E) ==
  {toc \in Seqs!BoundedSeq(E, 2) :
     \A m, n \in DOMAIN Pages(toc) : Pages(toc)[m].href = Pages(toc)[n].href => m = n}

Toc == INSTANCE TocDelta WITH
  SourceToc <- Tocs(SourceEntries), TargetToc <- Tocs(TargetEntries),
  Translation <- [A |-> "a", B |-> "b", G |-> "g"], result <- applied

(* Articles of at most three lines: the lines of the text before have      *)
(* texts of their own, the text after keeps some in order and has new ones.*)
Lined(texts, anchors) ==
  {[n \in DOMAIN texts |-> [prose |-> texts[n], anchor |-> a[n]]] : a \in [DOMAIN texts -> anchors]}
Texts == {t \in Seqs!BoundedSeq({1, 2, 3, 4}, 3) :
            \A m, n \in DOMAIN t : m < n /\ t[m] # 4 /\ t[n] # 4 => t[m] < t[n]}
SmallEdits ==
  UNION {Lined(b, {0, 1, 2}) \X Lined(t, {0, 1, 2}) : b \in {<<1>>, <<1, 2>>}, t \in Texts}
    \cup UNION {Lined(<<1, 2, 3>>, {1, 2}) \X Lined(t, {1, 2}) : t \in Texts}

Update == INSTANCE SurgicalUpdate WITH
  Prose <- {1, 2, 3, 4}, Anchor <- {1, 2}, Edits <- SmallEdits, before <- textBefore,
  after <- textAfter, target <- textTarget, changes <- differing, stage <- updating,
  result <- updated

(* Hunks of two or three blocks, of a table, and of HTML.                  *)
SmallHunks ==
  {<<"word", "code", "gap", "word", "code">>,
   <<"word", "code", "gap", "open", "word", "close", "code">>,
   <<"word", "gap", "word", "code", "gap", "word", "span">>,
   <<"word", "span", "cell", "word", "code">>,
   <<"owned", "gap", "owned", "gap", "word", "code">>}

Response == INSTANCE DocumentResponse WITH
  Sources <- SmallHunks, MaxMarks <- 6, source <- hunk, answer <- answered, attempt <- asked

-----------------------------------------------------------------------------
TocAtRest ==
  /\ before = <<>> /\ after = <<>> /\ target = <<>> /\ hash = FALSE
  /\ applied = "none" /\ output = <<>>
UpdateAtRest ==
  /\ textBefore = <<>> /\ textAfter = <<>> /\ textTarget = <<>> /\ differing = {}
  /\ updating = "compare" /\ mode = "none" /\ hunks = <<>> /\ translated = 0 /\ updated = <<>>
HunkAtRest ==
  /\ hunk = <<>> /\ answered = <<>> /\ form = "none" /\ asked = 1 /\ ruling = "none" /\ restored = <<>>
PartsInit ==
  /\ scene \in {"comments", "publication", "money", "session", "toc", "update", "hunk"}
  /\ CommentInit /\ Init /\ LoopInit /\ PublicationInit
  /\ IF scene = "toc" THEN Toc!TocInit ELSE TocAtRest
  /\ IF scene = "update" THEN Update!UpdateInit ELSE UpdateAtRest
  /\ IF scene = "hunk" THEN Response!ResponseInit ELSE HunkAtRest

CommentScene == scene = "comments" /\ UNCHANGED <<vars, loopVars, publicationVars, tocVars, updateVars, hunkVars, scene>>
MoneyScene   == scene = "money" /\ UNCHANGED <<commentVars, loopVars, publicationVars, tocVars, updateVars, hunkVars, scene>>
SessionScene == scene = "session" /\ UNCHANGED <<commentVars, vars, publicationVars, tocVars, updateVars, hunkVars, scene>>
PublicationScene == scene = "publication" /\ UNCHANGED <<commentVars, vars, loopVars, tocVars, updateVars, hunkVars, scene>>
TocScene    == scene = "toc" /\ UNCHANGED <<commentVars, vars, loopVars, publicationVars, updateVars, hunkVars, scene>>
UpdateScene == scene = "update" /\ UNCHANGED <<commentVars, vars, loopVars, publicationVars, tocVars, hunkVars, scene>>
HunkScene ==
  scene = "hunk" /\ UNCHANGED <<commentVars, vars, loopVars, publicationVars, tocVars, updateVars, scene>>

PartsNext ==
  \/ CommentScene /\ CommentNext
  \/ PublicationScene /\ PublicationNext
  \/ MoneyScene /\ Next
  \/ SessionScene /\ LoopNext
  \/ TocScene /\ Toc!ApplyDelta
  \/ UpdateScene /\ Update!UpdateNext
  \/ HunkScene /\ Response!ResponseNext
PartsSpec == PartsInit /\ [][PartsNext]_partsVars

-----------------------------------------------------------------------------
(* Every state is well formed.                                             *)
PartsTypeOK ==
  /\ CommentTypeOK /\ TypeOK /\ LoopTypeOK
  /\ PublicationTypeOK /\ Update!UpdateTypeOK
  /\ scene = "hunk" => Response!ResponseTypeOK

(* The promises of the modules brought in by INSTANCE: of the TOC delta,   *)
(* of the surgical planner, and of the acceptance of an answer.            *)
TocFollows      == Toc!TocFollows
ChangesCarried  == Update!ChangesCarried
AnswerFits      == scene = "hunk" => Response!AnswerFits

(* What REQUIREMENTS_RU.md says of the planner, see SurgicalUpdate.        *)
UntouchedSurvives == Update!UntouchedSurvives
================================================================================
