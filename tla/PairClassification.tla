-------------------------- MODULE PairClassification --------------------------
(***************************************************************************)
(* classify_pairs of pair_classification.py, for one pair of articles: the *)
(* changes of both locales are judged by a model, all at once or, when a   *)
(* request is too long, in parts; the judgements of the parts are put      *)
(* together into one decision on where to translate, if anywhere.          *)
(*                                                                         *)
(* A change is its locale and its place in the article.  Whether a request *)
(* fits and what the model answers is anyone's guess.                      *)
(***************************************************************************)
EXTENDS Integers, Sequences, FiniteSets

CONSTANT Change          \* of either locale, numbered

ASSUME ChangeAssumption == Change \subseteq {"ru", "en"} \X (Nat \ {0})

Toward == [ru |-> "ru_to_en", en |-> "en_to_ru"]
Directions == {"ru_to_en", "en_to_ru"}
Actions == Directions \cup {"no_translation", "need_context", "conflict"}

VARIABLES
  changes,   \* what the pull request did to the pair
  russian,   \* does the Russian article exist?
  pending,   \* sequence of the parts not judged yet
  focus,     \* the part being judged
  phase,     \* "next", "request", "call", "verdict", "done"
  turn,      \* the attempt on this part, 1 or 2
  expanded,  \* does the request carry the whole sections?
  action,    \* the judgement of this part so far
  technical, \* was that a technical failure?
  parts      \* sequence of the judgements

partVars == <<focus, turn, expanded, action, technical>>
pairVars == <<changes, russian, pending, partVars, phase, parts>>

PairTypeOK ==
  /\ changes \subseteq Change /\ russian \in BOOLEAN
  /\ pending \in Seq(SUBSET Change) /\ focus \subseteq Change
  /\ phase \in {"next", "request", "call", "verdict", "done"} /\ turn \in 1..2
  /\ expanded \in BOOLEAN /\ action \in Actions /\ technical \in BOOLEAN
  /\ parts \in Seq([focus : SUBSET Change, action : Actions, technical : BOOLEAN])

(* The changes of a locale are numbered without gaps.                      *)
PairInit ==
  /\ changes \in SUBSET Change /\ \A c \in changes : \A n \in 1..c[2] : <<c[1], n>> \in changes
  /\ russian \in BOOLEAN /\ pending = <<changes>> /\ phase = "next"
  /\ focus = {} /\ turn = 1 /\ expanded = FALSE /\ action = "no_translation" /\ technical = FALSE
  /\ parts = <<>>

-----------------------------------------------------------------------------
NextPart ==
  /\ phase = "next" /\ pending # <<>>
  /\ focus' = Head(pending) /\ pending' = Tail(pending)
  /\ phase' = "request" /\ turn' = 1 /\ expanded' = FALSE
  /\ UNCHANGED <<changes, russian, action, technical, parts>>

Ruled(a, f) == action' = a /\ technical' = f /\ phase' = "verdict"

(* A part too long is cut in two, the locales interleaved; a single change *)
(* is not cut.                                                             *)
Earlier(c, d) == c[2] < d[2] \/ (c[2] = d[2] /\ c[1] = "en" /\ d[1] = "ru")
PlaceOf(part, c) == Cardinality({d \in part : Earlier(d, c)})
HalvesShort(part) ==                               \* faulty: a change of an odd part is lost
  LET half == Cardinality(part) \div 2
  IN  <<{c \in part : PlaceOf(part, c) < half},
        {c \in part : PlaceOf(part, c) >= Cardinality(part) - half}>>
Halves(part) ==
  LET first == {c \in part : PlaceOf(part, c) < Cardinality(part) \div 2}
  IN  <<first, part \ first>>

Cut ==
  \/ /\ Cardinality(focus) > 1 /\ pending' = Halves(focus) \o pending
     /\ phase' = "next" /\ UNCHANGED <<action, technical>>
  \/ Cardinality(focus) <= 1 /\ Ruled("need_context", TRUE) /\ UNCHANGED pending

Request ==
  /\ phase = "request"
  /\ \/ phase' = "call" /\ UNCHANGED <<pending, action, technical>>
     \/ Cut
     \/ expanded /\ Ruled("need_context", FALSE) /\ UNCHANGED pending    \* no such section
     \/ Ruled("conflict", TRUE) /\ UNCHANGED pending                     \* not text
  /\ UNCHANGED <<changes, russian, focus, turn, expanded, parts>>

(* parse_pair_response and the check that follows it.                      *)
AcceptableAny(a) == TRUE                           \* faulty: any action is accepted
Acceptable(a) == a \in Directions => \E c \in focus : Toward[c[1]] = a

MayRepeatTwice == turn <= 2                        \* faulty: a third attempt
MayRepeat == turn = 1
AskPartAgain == phase' = "request" /\ turn' = turn + 1

Answered(a) ==
  /\ Acceptable(a)
  /\ IF a = "need_context" /\ MayRepeat
     THEN AskPartAgain /\ expanded' = TRUE /\ action' = a /\ technical' = FALSE
     ELSE Ruled(a, FALSE) /\ UNCHANGED <<turn, expanded>>

Unusable ==
  /\ action' = "conflict" /\ technical' = TRUE /\ UNCHANGED expanded
  /\ IF MayRepeat THEN AskPartAgain ELSE phase' = "verdict" /\ UNCHANGED turn

Call ==
  /\ phase = "call"
  /\ (\E a \in Actions : Answered(a)) \/ Unusable
  /\ UNCHANGED <<changes, russian, pending, focus, parts>>

Collect ==
  /\ phase = "verdict" /\ phase' = "next"
  /\ parts' = Append(parts, [focus |-> focus, action |-> action, technical |-> technical])
  /\ UNCHANGED <<changes, russian, pending, partVars>>

Done == phase = "next" /\ pending = <<>> /\ phase' = "done"
        /\ UNCHANGED <<changes, russian, pending, partVars, parts>>

PairNext == NextPart \/ Request \/ Call \/ Collect \/ Done
PairSpec == PairInit /\ [][PairNext]_pairVars
FairPairSpec == PairSpec /\ WF_pairVars(PairNext)

-----------------------------------------------------------------------------
(* The decision on the pair.                                               *)
Said == {parts[n].action : n \in DOMAIN parts}

AggregateMajority ==                               \* faulty: doubt yields to an answer
  IF Directions \subseteq Said THEN "conflict"
  ELSE IF Said \cap Directions # {} THEN CHOOSE a \in Directions : a \in Said
  ELSE IF "no_translation" \in Said THEN "no_translation" ELSE "need_context"

Aggregate ==
  CASE "conflict" \in Said \/ Directions \subseteq Said -> "conflict"
    [] "conflict" \notin Said /\ ~(Directions \subseteq Said) /\ "need_context" \in Said -> "need_context"
    [] Said \in {{}, {"no_translation"}} -> "no_translation"
    [] OTHER -> CHOOSE a \in Directions : a \in Said

(* Doubt about the meaning is settled in favour of Russian.                *)
PreferRussianAlways == russian /\ \E c \in changes : c[1] = "ru"     \* faulty: and so is failure
PreferRussian ==
  /\ \A n \in DOMAIN parts : ~parts[n].technical
  /\ russian /\ \E c \in changes : c[1] = "ru"

Decision ==
  IF Aggregate \in {"conflict", "need_context"} /\ PreferRussian THEN "ru_to_en" ELSE Aggregate

-----------------------------------------------------------------------------
Decided == phase = "done"

(* Every change of both locales is judged in exactly one part, however     *)
(* often a part had to be cut (REQUIREMENTS 1.1: full coverage).           *)
EveryChangeIsJudged ==
  Decided => /\ changes = UNION {parts[n].focus : n \in DOMAIN parts}
             /\ \A m, n \in DOMAIN parts : m # n => parts[m].focus \cap parts[n].focus = {}

(* A call that failed, an answer that could not be used or a change that   *)
(* did not fit is no licence to translate, whatever the other parts say.   *)
FailureIsNoLicence ==
  Decided /\ Decision \in Directions => \A n \in DOMAIN parts : ~parts[n].technical

(* Nothing is translated away from a locale the pull request left alone.   *)
DirectionHasChange ==
  Decided /\ Decision \in Directions => \E c \in changes : Toward[c[1]] = Decision

(* A pair is passed over only when every part of it may be.                *)
SkipIsUnanimous ==
  Decided /\ Decision = "no_translation" => \A n \in DOMAIN parts : parts[n].action = "no_translation"

(* The promise of a judgement: it covers every change, a direction is      *)
(* neither guessed nor without a change, and doubt is not passed over.     *)
JudgementIsSound ==
  EveryChangeIsJudged /\ FailureIsNoLicence /\ DirectionHasChange /\ SkipIsUnanimous

=============================================================================
