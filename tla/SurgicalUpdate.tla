----------------------------- MODULE SurgicalUpdate -----------------------------
(***************************************************************************)
(* translation/surgical.py and its use by _translate_document: the change  *)
(* of a source article is carried over to its existing target, line by     *)
(* line, instead of translating the article again.                         *)
(*                                                                         *)
(* A source line is its prose and its anchor: the link destination, inline *)
(* code or heading anchor which reads the same in both languages.  A line  *)
(* of the target is known by the line it stands for: `of` is a line of the *)
(* source before, `new` of the source after, 0 is none.  Prose of the      *)
(* source is never found in the target.  A change that the markup of both  *)
(* languages shares without being an anchor (a number) is left out.        *)
(***************************************************************************)
EXTENDS Integers, Sequences, FiniteSets, SequencesExt

CONSTANTS
  Prose,       \* texts of a line
  Anchor,      \* anchors; NoAnchor is not one of them
  MaxLines,    \* lines of an article
  Edits        \* pull requests: pairs <<before, after>> of sequences of lines

NoAnchor == 0
SourceLine == [prose : Prose, anchor : Anchor \cup {NoAnchor}]
TargetLine == [of : 0..MaxLines, new : 0..MaxLines, anchor : Anchor \cup {NoAnchor}]
Modes == {"none", "unique", "hunks", "noop", "whole"}

VARIABLES
  before,     \* the source article before the pull request
  after,      \* and after it
  target,     \* its existing translation
  changes,    \* the differing parts: <<lines before, lines after>>
  stage,      \* "compare", "plan", "translate", "done"
  mode,       \* SurgicalMode
  hunks,      \* sequence of [at, size, lines]: what replaces lines of the target
  translated, \* number of hunks translated
  result      \* what becomes of the target

articles == <<before, after, target>>
updateVars == <<articles, changes, stage, mode, hunks, translated, result>>

Hunk == [at : 1..MaxLines + 1, size : 0..1, lines : Seq(1..MaxLines)]

(* The state is well formed.                                               *)
UpdateTypeOK ==
  /\ before \in Seq(SourceLine) /\ after \in Seq(SourceLine)
  /\ target \in Seq(TargetLine) /\ result \in Seq(TargetLine)
  /\ changes \subseteq (SUBSET (1..MaxLines)) \X (SUBSET (1..MaxLines))
  /\ stage \in {"compare", "plan", "translate", "done"} /\ mode \in Modes
  /\ hunks \in Seq(Hunk) /\ translated \in 0..Len(hunks)

(* The target stands for the lines of the source, some of which it lacks.  *)
Counterpart(n) == [of |-> n, new |-> 0, anchor |-> before[n].anchor]
Counterparts(lines) == [n \in 1..Len(lines) |-> Counterpart(lines[n])]

UpdateInit ==
  /\ \E edit \in Edits : before = edit[1] /\ after = edit[2]
  /\ \E had \in SUBSET DOMAIN before : target = Counterparts(SetToSortSeq(had, <))
  /\ changes = {} /\ stage = "compare" /\ mode = "none" /\ hunks = <<>> /\ translated = 0 /\ result = <<>>

-----------------------------------------------------------------------------
(* collect_unique_replacements: the lines differ in their anchors only.    *)
Differ == {n \in DOMAIN before : before[n] # after[n]}
AnchorsOnly ==
  /\ Len(before) = Len(after) /\ Differ # {}
  /\ \A n \in Differ : /\ before[n].prose = after[n].prose
                       /\ NoAnchor \notin {before[n].anchor, after[n].anchor}

(* The pairs are applied one after the other, in the order they were met.  *)
ReplacedOne(lines, pair) ==
  [n \in DOMAIN lines |-> IF lines[n].anchor = pair[1]
                          THEN [lines[n] EXCEPT !.anchor = pair[2]] ELSE lines[n]]
Replaced(lines, pairs) == FoldLeft(ReplacedOne, lines, pairs)

PairAt(n) == <<before[n].anchor, after[n].anchor>>
FirstMet(n) == \A m \in Differ : PairAt(m) = PairAt(n) => n <= m
Pairs == LET met == SetToSortSeq({n \in Differ : FirstMet(n)}, <)
         IN  [k \in 1..Len(met) |-> PairAt(met[k])]

(* One replacement for an anchor, and the source before becomes the source *)
(* after by them.                                                          *)
UniqueSome == AnchorsOnly                          \* faulty: some of its places will do
Unique ==
  /\ AnchorsOnly
  /\ \A m, n \in Differ : before[m].anchor = before[n].anchor => after[m].anchor = after[n].anchor
  /\ Replaced(before, Pairs) = after

(* apply_unique_replacements: each finds its old anchor, or its new one.   *)
Has(lines, a) == \E n \in DOMAIN lines : lines[n].anchor = a
Applicable ==
  \A k \in DOMAIN Pairs :
    LET now == Replaced(target, SubSeq(Pairs, 1, k - 1))
    IN  Has(now, Pairs[k][1]) \/ Has(now, Pairs[k][2])

-----------------------------------------------------------------------------
(* difflib.SequenceMatcher: the longest run of equal lines, the first of   *)
(* them in the text before and then in the text after; and the same on     *)
(* either side of it.                                                      *)
Runs(w) == {r \in (w[1]..w[2]) \X (w[3]..w[4]) \X (1..MaxLines) :
              /\ r[1] + r[3] - 1 <= w[2] /\ r[2] + r[3] - 1 <= w[4]
              /\ \A k \in 0..r[3] - 1 : before[r[1] + k] = after[r[2] + k]}
Longest(runs) ==
  CHOOSE r \in runs : \A q \in runs :
    \/ r[3] > q[3]
    \/ r[3] = q[3] /\ (r[1] < q[1] \/ (r[1] = q[1] /\ r[2] <= q[2]))

Place == 0..MaxLines + 1
Equal[a1 \in Place, a2 \in Place, b1 \in Place, b2 \in Place] ==
  LET runs == Runs(<<a1, a2, b1, b2>>)
      r == Longest(runs)
  IN  IF runs = {} THEN {}
      ELSE {<<r[1] + k, r[2] + k>> : k \in 0..r[3] - 1}
             \cup Equal[a1, r[1] - 1, b1, r[2] - 1]
             \cup Equal[r[1] + r[3], a2, r[2] + r[3], b2]

(* _changed_line_hunks: what lies between.                                 *)
Fixed == {<<0, 0>>, <<Len(before) + 1, Len(after) + 1>>}
           \cup Equal[1, Len(before), 1, Len(after)]
Between(e, f) == <<e[1] + 1 .. f[1] - 1, e[2] + 1 .. f[2] - 1>>

Compare ==
  /\ stage = "compare" /\ stage' = "plan"
  /\ LET fixed == Fixed
         After(e) == CHOOSE f \in fixed : f[1] > e[1] /\ \A g \in fixed : g[1] <= e[1] \/ g[1] >= f[1]
     IN  changes' = {Between(e, After(e)) : e \in {x \in fixed : x[1] <= Len(before)}} \ {<<{}, {}>>}
  /\ UNCHANGED <<articles, mode, hunks, translated, result>>

Inserts(c) == c[1] = {} /\ c[2] # {}
Deletes(c) == c[1] # {} /\ c[2] = {}

(* _locate_target_span: the only line of the target with an anchor of the  *)
(* text that goes, or, when none goes, of the text that comes.             *)
Anchors(c) ==
  (IF c[1] # {} THEN {before[n].anchor : n \in c[1]} ELSE {after[n].anchor : n \in c[2]})
    \ {NoAnchor}
With(a) == {n \in DOMAIN target : target[n].anchor = a}
SpansAny(c) == UNION {With(a) : a \in Anchors(c)}  \* faulty: one of several lines
Spans(c) == UNION {With(a) : a \in {x \in Anchors(c) : Cardinality(With(x)) = 1}}

-----------------------------------------------------------------------------
(* plan_surgical_update                                                    *)
Ordered(lines) == SetToSortSeq(lines, <)
Appended == UNION {c[2] : c \in changes}

Whole == mode' = "whole" /\ stage' = "translate" /\ UNCHANGED <<hunks, result>>

PlanUnique ==
  /\ mode' = "unique" /\ stage' = "done" /\ result' = Replaced(target, Pairs)
  /\ UNCHANGED hunks

PlanAppend ==
  /\ mode' = "hunks" /\ stage' = "translate" /\ UNCHANGED result
  /\ hunks' = <<[at |-> Len(target) + 1, size |-> 0, lines |-> Ordered(Appended)]>>

PlanNoop == mode' = "noop" /\ stage' = "done" /\ result' = target /\ UNCHANGED hunks

(* Among anchors of one length any may be taken.                           *)
DistinctNever(at) == TRUE                          \* faulty: two changes of one line
Distinct(at) == \A c, d \in changes : c # d => at[c] # at[d]

PlanHunks ==
  \E at \in [changes -> DOMAIN target] :
    /\ \A c \in changes : at[c] \in Spans(c)
    /\ IF Distinct(at)
       THEN /\ mode' = "hunks" /\ stage' = "translate" /\ UNCHANGED result
            /\ hunks' = SetToSortSeq({[at |-> at[c], size |-> 1, lines |-> Ordered(c[2])] : c \in changes},
                                     LAMBDA g, h : g.at < h.at)
       ELSE Whole

Plan ==
  /\ stage = "plan"
  /\ IF before = <<>> \/ after = <<>> \/ target = <<>> \/ before = after THEN Whole
     ELSE IF Unique /\ Applicable THEN PlanUnique
     ELSE IF \A c \in changes : Inserts(c) THEN PlanAppend
     ELSE IF \A c \in changes : Deletes(c) /\ Spans(c) = {} THEN PlanNoop
     ELSE IF \E c \in changes : Deletes(c) \/ Spans(c) = {} THEN Whole
     ELSE PlanHunks
  /\ UNCHANGED <<articles, changes, translated>>

(* The hunks are translated one by one; one that fails sends the whole     *)
(* article to the model (TranslationGroup.tla counts the calls).           *)
TranslateKeeps ==                                  \* faulty: the count is not reset
  /\ stage = "translate" /\ mode = "hunks" /\ translated < Len(hunks)
  /\ \/ translated' = translated + 1 /\ UNCHANGED <<mode, hunks>>
     \/ mode' = "whole" /\ hunks' = <<>> /\ UNCHANGED translated
  /\ UNCHANGED <<articles, changes, stage, result>>
Translate ==
  /\ stage = "translate" /\ mode = "hunks" /\ translated < Len(hunks)
  /\ \/ translated' = translated + 1 /\ UNCHANGED <<mode, hunks>>
     \/ mode' = "whole" /\ hunks' = <<>> /\ translated' = 0
  /\ UNCHANGED <<articles, changes, stage, result>>

Translation(lines) ==
  [k \in 1..Len(lines) |-> [of |-> 0, new |-> lines[k], anchor |-> after[lines[k]].anchor]]

TranslateWhole ==
  /\ stage = "translate" /\ mode = "whole" /\ stage' = "done"
  /\ result' = Translation([n \in DOMAIN after |-> n])
  /\ UNCHANGED <<articles, changes, mode, hunks, translated>>

(* The hunks are put in from the last to the first, so that the places of  *)
(* the others stay what they were.                                         *)
Put(lines, h) ==
  SubSeq(lines, 1, h.at - 1) \o Translation(h.lines) \o SubSeq(lines, h.at + h.size, Len(lines))

Assembled == FoldLeft(Put, target, Reverse(hunks))

Assemble ==
  /\ stage = "translate" /\ mode = "hunks" /\ translated = Len(hunks)
  /\ result' = Assembled /\ stage' = "done"
  /\ UNCHANGED <<articles, changes, mode, hunks, translated>>

UpdateNext == Compare \/ Plan \/ Translate \/ TranslateWhole \/ Assemble
UpdateSpec == UpdateInit /\ [][UpdateNext]_updateVars

-----------------------------------------------------------------------------
Updated == stage = "done"
Lines(s) == {s[n] : n \in DOMAIN s}
Arrived == {line.new : line \in Lines(result)} \ {0}
Complete == Len(target) = Len(before)
Gone == UNION {c[1] : c \in changes}
Come == UNION {c[2] : c \in changes}

(* What the pull request wrote is in the target, whatever mode was chosen. *)
NewTextArrives ==
  Updated /\ mode \in {"hunks", "whole"} => Come \subseteq Arrived

(* Replacements change the anchors of a complete target to those of the    *)
(* source after, on every line.                                            *)
AnchorsFollow ==
  Updated /\ mode = "unique" =>
    \A line \in Lines(result) : line.anchor = after[line.of].anchor

(* A change of existing text is put where that text was: of a complete     *)
(* target no line goes that the pull request did not touch, unless the     *)
(* change only inserts.                                                    *)
ChangesInPlace ==
  Updated /\ mode = "hunks" /\ Complete /\ (\A c \in changes : ~Inserts(c)) =>
    \A line \in Lines(target) : line.of \notin Gone => line \in Lines(result)

(* The promise of the planner, as far as it is kept.                       *)
ChangesCarried == NewTextArrives /\ AnchorsFollow /\ ChangesInPlace

(* Claimed by REQUIREMENTS_RU.md 1.2: only the delta of the source is      *)
(* carried over to the existing target.                                    *)
UntouchedSurvives ==
  Updated /\ mode = "hunks" /\ Complete =>
    \A line \in Lines(target) : line.of \notin Gone => line \in Lines(result)

=============================================================================
