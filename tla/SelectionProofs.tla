---------------------------- MODULE SelectionProofs ----------------------------
(***************************************************************************)
(* What is selected for translation: the promise of PairClassification,    *)
(* which decides on a pair of articles, holds for any number of changes,   *)
(* however often a request has to be cut; and that of TranslationScope,    *)
(* which decides what goes with a pair, for every pull request, link graph *)
(* and set of redirects.                                                   *)
(***************************************************************************)
EXTENDS PairClassification, TranslationScope, FiniteSetTheorems, TLAPS

(* The part whose judgement is under way.                                  *)
InHand == IF phase \in {"request", "call", "verdict"} THEN focus ELSE {}

(* Nothing is lost: a change has been judged, is being judged or waits.    *)
Judged(c) == \E n \in DOMAIN parts : c \in parts[n].focus
Waits(c)  == \E n \in DOMAIN pending : c \in pending[n]
Covered   == \A c \in Change : c \in changes <=> Judged(c) \/ c \in InHand \/ Waits(c)

(* And nothing is judged twice.                                            *)
Apart ==
  /\ \A m, n \in DOMAIN parts : m # n => parts[m].focus \cap parts[n].focus = {}
  /\ \A m, n \in DOMAIN pending : m # n => pending[m] \cap pending[n] = {}
  /\ \A m \in DOMAIN parts, n \in DOMAIN pending : parts[m].focus \cap pending[n] = {}
  /\ \A n \in DOMAIN parts : parts[n].focus \cap InHand = {}
  /\ \A n \in DOMAIN pending : pending[n] \cap InHand = {}

(* What failed is in doubt, and a direction starts from a change.          *)
Sound(part) ==
  /\ part.technical => part.action \in {"conflict", "need_context"}
  /\ part.action \in Directions => \E c \in part.focus : Toward[c[1]] = part.action
Founded ==
  /\ phase = "verdict" => Sound([focus |-> focus, action |-> action, technical |-> technical])
  /\ \A n \in DOMAIN parts : Sound(parts[n])

PairInv == PairTypeOK /\ Covered /\ Apart /\ Founded

-----------------------------------------------------------------------------
LEMMA OneIsATurn == 1 \in 1..2 /\ 2 \in 1..2
OBVIOUS

LEMMA PairInitInv == PairInit => PairInv
<1> SUFFICES ASSUME PairInit PROVE PairInv
  OBVIOUS
<1>1. pending = <<changes>> /\ DOMAIN pending = {1} /\ parts = <<>> /\ DOMAIN parts = {}
  BY DEF PairInit
<1>2. InHand = {}
  BY DEF PairInit, InHand
<1>3. PairTypeOK
  <2>1. pending \in Seq(SUBSET Change) /\ changes \subseteq Change
    BY DEF PairInit
  <2>2. parts \in Seq([focus : SUBSET Change, action : Actions, technical : BOOLEAN])
    BY <1>1
  <2>3. action \in Actions
    BY DEF PairInit, Actions
  <2>4. russian \in BOOLEAN /\ expanded \in BOOLEAN /\ technical \in BOOLEAN
    BY Zenon DEF PairInit
  <2>5. turn \in 1..2 /\ focus \subseteq Change
    BY DEF PairInit
  <2>6. phase \in {"next", "request", "call", "verdict", "done"}
    BY DEF PairInit
  <2> QED
    BY <2>1, <2>2, <2>3, <2>4, <2>5, <2>6, Zenon DEF PairTypeOK
<1>4. Covered
  BY <1>1, <1>2 DEF Covered, Judged, Waits
<1>5. Apart
  BY <1>1, <1>2 DEF Apart
<1>6. Founded
  BY <1>1 DEF PairInit, Founded
<1> QED
  BY <1>3, <1>4, <1>5, <1>6 DEF PairInv

(* The next part leaves the sequence and is in hand.                       *)
LEMMA NextPartInv == PairInv /\ NextPart => PairInv'
<1> SUFFICES ASSUME PairInv, NextPart PROVE PairInv'
  OBVIOUS
<1> USE DEF PairInv, NextPart
<1>1. /\ pending \in Seq(SUBSET Change) /\ pending # <<>> /\ DOMAIN pending = 1..Len(pending)
      /\ Len(pending) \in Nat \ {0} /\ pending' = Tail(pending)
      /\ DOMAIN pending' = 1..Len(pending) - 1
      /\ \A n \in DOMAIN pending' : n + 1 \in DOMAIN pending /\ pending'[n] = pending[n + 1]
      /\ \A n \in DOMAIN pending : n = 1 \/ (n - 1 \in DOMAIN pending' /\ pending'[n - 1] = pending[n])
      /\ focus' = pending[1] /\ 1 \in DOMAIN pending /\ focus' \in SUBSET Change
  BY DEF PairTypeOK
<1>2. InHand = {} /\ InHand' = pending[1]
  BY <1>1 DEF InHand
<1>3. PairTypeOK'
  <2>1. pending' \in Seq(SUBSET Change)
    BY <1>1
  <2>2. expanded' \in BOOLEAN /\ turn' \in 1..2
    BY Zenon, OneIsATurn
  <2>3. phase' \in {"next", "request", "call", "verdict", "done"}
    OBVIOUS
  <2> QED
    BY <1>1, <2>1, <2>2, <2>3, Zenon DEF PairTypeOK
<1>4. Covered'
  <2> SUFFICES ASSUME NEW c \in Change
               PROVE  c \in changes <=> Judged(c)' \/ c \in InHand' \/ Waits(c)'
    BY DEF Covered
  <2>1. Waits(c) <=> c \in pending[1] \/ Waits(c)'
    BY <1>1 DEF Waits
  <2>2. Judged(c)' <=> Judged(c)
    BY DEF Judged
  <2> QED
    BY <1>2, <2>1, <2>2 DEF Covered
<1>5. Apart'
  <2>1. \A m, n \in DOMAIN pending' : m # n => pending'[m] \cap pending'[n] = {}
    BY <1>1 DEF Apart
  <2>2. \A m \in DOMAIN parts, n \in DOMAIN pending' : parts[m].focus \cap pending'[n] = {}
    BY <1>1 DEF Apart
  <2>3. \A n \in DOMAIN parts : parts[n].focus \cap InHand' = {}
    BY <1>1, <1>2 DEF Apart
  <2>4. \A n \in DOMAIN pending' : pending'[n] \cap InHand' = {}
    BY <1>1, <1>2 DEF Apart
  <2> QED
    BY <2>1, <2>2, <2>3, <2>4 DEF Apart
<1>6. Founded'
  BY DEF Founded, Sound
<1> QED
  BY <1>3, <1>4, <1>5, <1>6

LEMMA TwoBefore ==
  ASSUME NEW S, NEW a \in S, NEW b \in S, NEW s \in Seq(S), NEW t, t = <<a, b>> \o s
  PROVE  /\ t \in Seq(S) /\ 1 \in DOMAIN t /\ 2 \in DOMAIN t /\ t[1] = a /\ t[2] = b
         /\ \A n \in DOMAIN s : n + 2 \in DOMAIN t /\ t[n + 2] = s[n]
         /\ \A n \in DOMAIN t : n = 1 \/ n = 2 \/ (n - 2 \in DOMAIN s /\ t[n] = s[n - 2])
OBVIOUS

(* A part that is cut waits again, in two halves.                          *)
LEMMA CutInv ==
  ASSUME PairInv, phase = "request", Cardinality(focus) > 1, pending' = Halves(focus) \o pending,
         phase' = "next",
         UNCHANGED <<changes, russian, focus, turn, expanded, action, technical, parts>>
  PROVE  PairInv'
<1> DEFINE first == {c \in focus : PlaceOf(focus, c) < Cardinality(focus) \div 2}
           other == focus \ first
<1>1. pending \in Seq(SUBSET Change) /\ focus \in SUBSET Change
  BY DEF PairInv, PairTypeOK
<1>2. first \in SUBSET Change /\ other \in SUBSET Change
  BY <1>1
<1>3. pending' = <<first, other>> \o pending
  BY DEF Halves
<1> HIDE DEF first, other
<1>4. /\ pending' \in Seq(SUBSET Change)
      /\ 1 \in DOMAIN pending' /\ 2 \in DOMAIN pending' /\ pending'[1] = first /\ pending'[2] = other
      /\ \A n \in DOMAIN pending : n + 2 \in DOMAIN pending' /\ pending'[n + 2] = pending[n]
      /\ \A n \in DOMAIN pending' :
           n = 1 \/ n = 2 \/ (n - 2 \in DOMAIN pending /\ pending'[n] = pending[n - 2])
  BY <1>1, <1>2, <1>3, TwoBefore
<1>5. first \cap other = {} /\ first \cup other = focus
  BY DEF first, other
<1>6. InHand = focus /\ InHand' = {}
  BY DEF InHand
<1>7. PairTypeOK'
  BY <1>4, Zenon DEF PairInv, PairTypeOK
<1>8. Covered'
  <2> SUFFICES ASSUME NEW c \in Change
               PROVE  c \in changes <=> Judged(c)' \/ c \in InHand' \/ Waits(c)'
    BY DEF Covered
  <2>1. Waits(c)' <=> c \in first \/ c \in other \/ Waits(c)
    BY <1>4 DEF Waits
  <2>2. Judged(c)' <=> Judged(c)
    BY DEF Judged
  <2> QED
    BY <1>5, <1>6, <2>1, <2>2 DEF PairInv, Covered
<1>9. Apart'
  <2>1. \A m, n \in DOMAIN pending' : m # n => pending'[m] \cap pending'[n] = {}
    <3> SUFFICES ASSUME NEW m \in DOMAIN pending', NEW n \in DOMAIN pending', m # n
                 PROVE  pending'[m] \cap pending'[n] = {}
      OBVIOUS
    <3>1. m \in Nat /\ n \in Nat
      BY <1>4
    <3>2. CASE m \in {1, 2} /\ n \in {1, 2}
      BY <3>2, <1>4, <1>5
    <3>3. CASE m \in {1, 2} /\ n \notin {1, 2}
      <4>1. pending'[n] \cap focus = {}
        BY <3>3, <1>4, <1>6 DEF PairInv, Apart
      <4> QED
        BY <4>1, <3>3, <1>4, <1>5
    <3>4. CASE m \notin {1, 2} /\ n \in {1, 2}
      <4>1. pending'[m] \cap focus = {}
        BY <3>4, <1>4, <1>6 DEF PairInv, Apart
      <4> QED
        BY <4>1, <3>4, <1>4, <1>5
    <3>5. CASE m \notin {1, 2} /\ n \notin {1, 2}
      <4>1. m - 2 # n - 2 /\ m - 2 \in DOMAIN pending /\ n - 2 \in DOMAIN pending
        BY <3>1, <3>5, <1>4
      <4>2. pending[m - 2] \cap pending[n - 2] = {}
        BY <4>1 DEF PairInv, Apart
      <4> QED
        BY <4>2, <3>5, <1>4
    <3> QED
      BY <3>2, <3>3, <3>4, <3>5
  <2>2. \A m \in DOMAIN parts, n \in DOMAIN pending' : parts[m].focus \cap pending'[n] = {}
    <3> SUFFICES ASSUME NEW m \in DOMAIN parts, NEW n \in DOMAIN pending'
                 PROVE  parts[m].focus \cap pending'[n] = {}
      OBVIOUS
    <3>1. parts[m].focus \cap focus = {}
      BY <1>6 DEF PairInv, Apart
    <3>2. CASE n \in {1, 2}
      BY <3>1, <3>2, <1>4, <1>5
    <3>3. CASE n \notin {1, 2}
      BY <3>3, <1>4 DEF PairInv, Apart
    <3> QED
      BY <3>2, <3>3
  <2> QED
    BY <2>1, <2>2, <1>6 DEF PairInv, Apart
<1>10. Founded'
  BY DEF PairInv, Founded, Sound
<1> QED
  BY <1>7, <1>8, <1>9, <1>10 DEF PairInv

(* A judgement that is reached, or asked for again, stays with the part.   *)
LEMMA SameHand ==
  ASSUME PairInv, phase \in {"request", "call"}, PairTypeOK',
         UNCHANGED <<changes, focus, pending, parts>>, phase' \in {"request", "call", "verdict"},
         phase' = "verdict" =>
           Sound([focus |-> focus, action |-> action', technical |-> technical'])
  PROVE  PairInv'
<1>1. InHand' = InHand
  BY DEF InHand
<1>2. Covered'
  BY <1>1 DEF PairInv, Covered, Judged, Waits
<1>3. Apart'
  BY <1>1 DEF PairInv, Apart
<1>4. Founded'
  BY DEF PairInv, Founded, Sound
<1> QED
  BY <1>2, <1>3, <1>4 DEF PairInv

LEMMA RequestInv == PairInv /\ Request => PairInv'
<1> SUFFICES ASSUME PairInv, Request PROVE PairInv'
  OBVIOUS
<1>1. CASE Cardinality(focus) > 1 /\ pending' = Halves(focus) \o pending /\ phase' = "next"
           /\ UNCHANGED <<action, technical>>
  BY <1>1, CutInv DEF Request
<1>2. CASE phase' = "call" /\ UNCHANGED <<pending, action, technical>>
  <2>1. PairTypeOK'
    BY <1>2, Zenon DEF Request, PairInv, PairTypeOK
  <2> QED
    BY <1>2, <2>1, SameHand DEF Request
<1>3. ASSUME NEW a \in {"need_context", "conflict"}, NEW f \in BOOLEAN, Ruled(a, f), UNCHANGED pending
      PROVE  PairInv'
  <2>1. a \in Actions /\ a \notin Directions
    BY <1>3 DEF Actions, Directions
  <2>2. PairTypeOK'
    BY <1>3, <2>1, Zenon DEF Request, PairInv, PairTypeOK, Ruled
  <2>3. Sound([focus |-> focus, action |-> action', technical |-> technical'])
    BY <1>3, <2>1 DEF Sound, Ruled
  <2> QED
    BY <1>3, <2>2, <2>3, SameHand DEF Request, Ruled
<1> QED
  BY <1>1, <1>2, <1>3 DEF Request, Cut

LEMMA AnsweredInv ==
  ASSUME PairInv, Call, NEW a \in Actions, Answered(a)
  PROVE  PairInv'
<1>1. PairTypeOK'
  <2>1. turn' \in 1..2
    <3>1. turn' = turn \/ (turn = 1 /\ turn' = turn + 1)
      BY Zenon DEF Answered, MayRepeat, AskPartAgain
    <3> QED
      BY <3>1 DEF PairInv, PairTypeOK
  <2>2. action' = a /\ technical' = FALSE /\ phase' \in {"request", "verdict"}
    BY DEF Answered, Ruled, AskPartAgain
  <2>3. expanded' \in BOOLEAN
    BY Zenon DEF PairInv, PairTypeOK, Answered
  <2> QED
    BY <2>1, <2>2, <2>3, Zenon DEF Call, PairInv, PairTypeOK
<1>2. phase' \in {"request", "verdict"} /\ action' = a /\ technical' = FALSE
  BY DEF Answered, Ruled, AskPartAgain
<1>3. Sound([focus |-> focus, action |-> action', technical |-> technical'])
  BY <1>2 DEF Sound, Answered, Acceptable
<1> QED
  BY <1>1, <1>2, <1>3, SameHand DEF Call

LEMMA UnusableInv == PairInv /\ Call /\ Unusable => PairInv'
<1> SUFFICES ASSUME PairInv, Call, Unusable PROVE PairInv'
  OBVIOUS
<1>1. phase' \in {"request", "verdict"} /\ action' = "conflict" /\ technical' = TRUE
  BY DEF Unusable, AskPartAgain
<1>2. PairTypeOK'
  <2>1. turn' \in 1..2
    BY DEF PairInv, PairTypeOK, Unusable, MayRepeat, AskPartAgain
  <2>2. action' \in Actions
    BY <1>1 DEF Actions
  <2> QED
    BY <2>1, <2>2, <1>1, Zenon DEF Call, Unusable, PairInv, PairTypeOK
<1>3. Sound([focus |-> focus, action |-> action', technical |-> technical'])
  BY <1>1 DEF Sound, Directions
<1> QED
  BY <1>1, <1>2, <1>3, SameHand DEF Call

(* A judgement joins the others.                                           *)
LEMMA CollectInv == PairInv /\ Collect => PairInv'
<1> SUFFICES ASSUME PairInv, Collect PROVE PairInv'
  OBVIOUS
<1> DEFINE S == [focus : SUBSET Change, action : Actions, technical : BOOLEAN]
           part == [focus |-> focus, action |-> action, technical |-> technical]
<1>1. parts \in Seq(S) /\ part \in S
  BY Zenon DEF PairInv, PairTypeOK
<1>2. parts' = Append(parts, part)
  BY DEF Collect
<1>3. part.focus = focus /\ Sound(part)
  BY DEF PairInv, Founded, Collect
<1> HIDE DEF S, part
<1>4. /\ parts' \in Seq(S) /\ DOMAIN parts = 1..Len(parts) /\ DOMAIN parts' = 1..Len(parts) + 1
      /\ Len(parts) \in Nat /\ parts'[Len(parts) + 1] = part
      /\ \A n \in DOMAIN parts : parts'[n] = parts[n]
  BY <1>1, <1>2
<1>5. DOMAIN parts' = DOMAIN parts \cup {Len(parts) + 1}
  BY <1>4
<1>6. InHand = focus /\ InHand' = {}
  BY DEF Collect, InHand
<1>7. PairTypeOK'
  BY <1>4, Zenon DEF S, Collect, PairInv, PairTypeOK, partVars
<1>8. Covered'
  <2> SUFFICES ASSUME NEW c \in Change
               PROVE  c \in changes' <=> Judged(c)' \/ c \in InHand' \/ Waits(c)'
    BY DEF Covered
  <2>1. Judged(c)' <=> Judged(c) \/ c \in focus
    BY <1>3, <1>4, <1>5 DEF Judged
  <2>2. Waits(c)' <=> Waits(c)
    BY DEF Waits, Collect
  <2> QED
    BY <1>6, <2>1, <2>2 DEF PairInv, Covered, Collect
<1>9. Apart'
  <2>1. \A n \in DOMAIN parts : parts[n].focus \cap focus = {}
    BY <1>6 DEF PairInv, Apart
  <2>2. \A n \in DOMAIN pending : pending[n] \cap focus = {}
    BY <1>6 DEF PairInv, Apart
  <2>3. \A m, n \in DOMAIN parts' : m # n => parts'[m].focus \cap parts'[n].focus = {}
    BY <1>3, <1>4, <1>5, <2>1 DEF PairInv, Apart
  <2>4. \A m \in DOMAIN parts', n \in DOMAIN pending : parts'[m].focus \cap pending[n] = {}
    BY <1>3, <1>4, <1>5, <2>2 DEF PairInv, Apart
  <2> QED
    BY <2>3, <2>4, <1>6 DEF PairInv, Apart, Collect
<1>10. Founded'
  BY <1>3, <1>4, <1>5 DEF PairInv, Founded, Collect, Sound
<1> QED
  BY <1>7, <1>8, <1>9, <1>10 DEF PairInv

LEMMA PairStepInv == PairInv /\ [PairNext]_pairVars => PairInv'
<1> SUFFICES ASSUME PairInv, [PairNext]_pairVars PROVE PairInv'
  OBVIOUS
<1>1. CASE UNCHANGED pairVars
  BY <1>1 DEF pairVars, partVars, PairInv, PairTypeOK, Covered, Apart, Founded, Sound, InHand, Judged, Waits
<1>2. CASE Done
  <2>1. PairTypeOK'
    BY <1>2, Zenon DEF Done, partVars, PairInv, PairTypeOK
  <2> QED
    BY <1>2, <2>1 DEF Done, partVars, PairInv, Covered, Apart, Founded, Sound, InHand, Judged, Waits
<1> QED
  BY <1>1, <1>2, NextPartInv, RequestInv, AnsweredInv, UnusableInv, CollectInv DEF PairNext, Call

(* What a pair has judged and has still to judge, at every step of asking. *)
THEOREM PairInvariant == PairSpec => []PairInv
BY PairInitInv, PairStepInv, PTL DEF PairSpec

(* Every state of a pair is well formed.                                   *)
THEOREM PairTyped == PairSpec => []PairTypeOK
<1>1. PairInv => PairTypeOK
  BY DEF PairInv
<1> QED
  BY <1>1, PairInvariant, PTL

-----------------------------------------------------------------------------
LEMMA PartTypes ==
  ASSUME PairInv, NEW n \in DOMAIN parts
  PROVE  parts[n].focus \subseteq Change /\ parts[n].action \in Actions
<1> DEFINE S == [focus : SUBSET Change, action : Actions, technical : BOOLEAN]
<1>1. parts \in Seq(S)
  BY DEF PairInv, PairTypeOK
<1> HIDE DEF S
<1>2. parts[n] \in S
  BY <1>1
<1> QED
  BY <1>2 DEF S

(* The decision: what failed leaves it to nobody, a direction was said.    *)
LEMMA DecisionSound ==
  ASSUME PairInv, Decided
  PROVE  FailureIsNoLicence /\ DirectionHasChange /\ SkipIsUnanimous
<1>1. \A n \in DOMAIN parts : parts[n].action \in Said /\ parts[n].action \in Actions
  BY PartTypes DEF Said
<1>2. \A a \in Said : a \in Actions /\ \E n \in DOMAIN parts : parts[n].action = a
  BY <1>1 DEF Said
<1>3. CASE Aggregate \in {"conflict", "need_context"} /\ PreferRussian
  BY <1>3 DEF PreferRussian, Decision, FailureIsNoLicence, DirectionHasChange, SkipIsUnanimous, Toward
<1>4. CASE ~(Aggregate \in {"conflict", "need_context"} /\ PreferRussian)
  <2>1. Decision = Aggregate
    BY <1>4 DEF Decision
  <2>2. CASE "conflict" \in Said \/ "need_context" \in Said \/ Directions \subseteq Said
    <3>1. CASE "conflict" \in Said \/ Directions \subseteq Said
      <4>1. Aggregate = "conflict"
        BY <3>1 DEF Aggregate, Directions
      <4> QED
        BY <2>1, <4>1 DEF FailureIsNoLicence, DirectionHasChange, SkipIsUnanimous, Directions
    <3>2. CASE "conflict" \notin Said /\ ~(Directions \subseteq Said)
      <4>1. Aggregate = "need_context"
        BY <2>2, <3>2 DEF Aggregate
      <4> QED
        BY <2>1, <4>1 DEF FailureIsNoLicence, DirectionHasChange, SkipIsUnanimous, Directions
    <3> QED
      BY <3>1, <3>2
  <2>3. CASE "conflict" \notin Said /\ "need_context" \notin Said /\ Said \in {{}, {"no_translation"}}
    <3>1. Aggregate = "no_translation"
      BY <2>3 DEF Aggregate, Directions
    <3> QED
      BY <1>1, <2>1, <2>3, <3>1 DEF FailureIsNoLicence, DirectionHasChange, SkipIsUnanimous, Directions
  <2>4. CASE /\ "conflict" \notin Said /\ "need_context" \notin Said /\ ~(Directions \subseteq Said)
             /\ Said \notin {{}, {"no_translation"}}
    <3>1. \E a \in Directions : a \in Said
      BY <1>2, <2>4 DEF Actions
    <3>2. Aggregate = CHOOSE a \in Directions : a \in Said
      BY <2>4 DEF Aggregate
    <3>3. Aggregate \in Directions /\ Aggregate \in Said
      BY <3>1, <3>2
    <3>4. \A n \in DOMAIN parts : ~parts[n].technical
      BY <1>1, <2>4 DEF PairInv, Founded, Sound
    <3>5. \E c \in changes : Toward[c[1]] = Decision
      <4>1. PICK n \in DOMAIN parts : parts[n].action = Aggregate
        BY <1>2, <3>3
      <4>2. PICK c \in parts[n].focus : Toward[c[1]] = Aggregate
        BY <3>3, <4>1 DEF PairInv, Founded, Sound
      <4>3. c \in Change
        BY PartTypes
      <4>4. c \in changes
        BY <4>1, <4>2, <4>3 DEF PairInv, Covered, Judged
      <4> QED
        BY <2>1, <4>2, <4>4
    <3> QED
      BY <2>1, <3>3, <3>4, <3>5 DEF FailureIsNoLicence, DirectionHasChange, SkipIsUnanimous, Directions
  <2> QED
    BY <2>2, <2>3, <2>4
<1> QED
  BY <1>3, <1>4

(* At the end nobody waits and nothing is in hand.                         *)
LEMMA JudgedAtEnd == PairInv /\ (Decided => pending = <<>>) => EveryChangeIsJudged
<1> SUFFICES ASSUME PairInv, Decided, pending = <<>>
             PROVE  /\ changes = UNION {parts[n].focus : n \in DOMAIN parts}
                    /\ \A m, n \in DOMAIN parts : m # n => parts[m].focus \cap parts[n].focus = {}
  BY DEF EveryChangeIsJudged
<1>1. InHand = {} /\ DOMAIN pending = {}
  BY DEF InHand, Decided
<1>2. \A n \in DOMAIN parts : parts[n].focus \subseteq Change
  BY PartTypes
<1>3. changes \subseteq Change /\ \A c \in Change : c \in changes <=> Judged(c)
  BY <1>1 DEF PairInv, PairTypeOK, Covered, Waits
<1>4. \A c : c \in changes <=> \E n \in DOMAIN parts : c \in parts[n].focus
  BY <1>2, <1>3 DEF Judged
<1>5. changes = UNION {parts[n].focus : n \in DOMAIN parts}
  BY <1>4
<1> QED
  BY <1>5 DEF PairInv, Apart

(***************************************************************************)
(* The promise of classify_pairs: whatever is cut, fails or is in doubt,   *)
(* every change is judged in one part, a failure is no licence to          *)
(* translate, a direction starts from a change, and a pair is passed over  *)
(* only when all its parts are.                                            *)
(***************************************************************************)
THEOREM SoundJudgement == PairSpec => []JudgementIsSound
<1> DEFINE Empty == Decided => pending = <<>>
<1>1. PairInit => Empty
  BY DEF PairInit, Decided
<1>2. Empty /\ [PairNext]_pairVars => Empty'
  BY DEF Decided, PairNext, pairVars, NextPart, Request, Cut, Ruled, Call, Answered, Unusable,
         AskPartAgain, Collect, Done
<1>3. PairInv /\ Empty => JudgementIsSound
  <2> SUFFICES ASSUME PairInv, Empty PROVE JudgementIsSound
    OBVIOUS
  <2>1. CASE Decided
    BY <2>1, DecisionSound, JudgedAtEnd DEF JudgementIsSound
  <2>2. CASE ~Decided
    BY <2>2 DEF JudgementIsSound, EveryChangeIsJudged, FailureIsNoLicence, DirectionHasChange, SkipIsUnanimous
  <2> QED
    BY <2>1, <2>2
<1> HIDE DEF Empty
<1> QED
  BY <1>1, <1>2, <1>3, PairInvariant, PTL DEF PairSpec

-----------------------------------------------------------------------------
(* The scope of a translation.  Its promise rests on seven parts: the      *)
(* snapshot (InputInv) and the order in which directions are built         *)
(* (FlowInv); what a scan has read and what the edges have spread          *)
(* (ScanInv, ReachInv); that a finished scope is sound (SoundInv); what    *)
(* has been measured and allowed (RoomInv); and where the links of what is *)
(* planned lead (LandInv).                                                 *)

(* The articles that the links of k lead to, through missing counterparts. *)
Needs(d, k) ==
  LET closed == {S \in SUBSET Article : k \in S /\ \A p \in S : Lacking(d, p) \subseteq S}
  IN  {p \in Article : \A S \in closed : p \in S}

(* What a scope promises: the operations of its own pages, and that every  *)
(* page a translated article lacks is one of them or a dependency needed   *)
(* for whatever the article is needed for.                                 *)
Grounded(d, ps, es) ==
  /\ \A p \in ps : InitialEntry(d, p) \in es
  /\ \A e \in es : e.origin = "initial" =>
       e.page \in ps /\ e = InitialEntry(d, e.page) /\ e.op \notin Refused
Hangs(d, ps, es, e, s) ==
  \/ s \in ps
  \/ \E f \in es : f.page = s /\ f.origin = "dependency" /\ e.keys \subseteq f.keys
SoundScope(d, ps, es) ==
  /\ Grounded(d, ps, es)
  /\ \A e \in es : e.origin # "initial" => e.op = "translate" /\ e.target = Follow(Other[d], e.page)
  /\ \A e \in TranslatingEntries(es) :
       /\ \A q \in link[e.page] : ~Cyclic(d, q)
       /\ \A s \in Lacking(d, e.page) : Hangs(d, ps, es, e, s)

InputInv ==
  /\ diff \subseteq FileChange /\ tree \in [Side -> SUBSET Article] /\ link \in [Article -> SUBSET Article]
  /\ \A d \in Side : Fits(d)

(* The order in which the directions are built.                            *)
Building == {"scan", "spread", "measure"}
Ahead == IF "ru" \in todo THEN "ru" ELSE "en"
FlowInv ==
  /\ pass \in {"prepare", "group"} /\ todo \subseteq Side /\ toward \in Side
  /\ scoping \in {"discover", "decide"} => pass = "prepare"
  /\ pass = "prepare" /\ scoping \in {"limit", "decide", "freeze", "merge"} => todo = {}
  /\ pass = "prepare" /\ scoping \notin {"discover", "done"} => pairs = ChangedPages
  /\ pass = "prepare" /\ scoping = "freeze" =>
       \A p \in pairs : chosen[p] = (IF Complete(p) THEN "complete" ELSE toward)
  /\ pass = "group" => \A p \in Article : chosen[p] \in Side => chosen[p] \in Sides(p)
  /\ pass = "group" /\ scoping = "build" => todo # {} /\ pairs = GroupPairs(Ahead, chosen)
  /\ pass = "group" /\ scoping \in Building \cup {"limit", "freeze"} =>
       toward \notin todo /\ pairs = GroupPairs(toward, chosen)

(* A scope that is being built.                                            *)
ScanInv == scoping \in Building =>
  /\ entries = {InitialEntry(toward, p) : p \in pairs}
  /\ \A p \in pairs : InitialOp(toward, p) \notin Refused
  /\ Seeds(entries) \subseteq queue /\ scanned \subseteq queue /\ queue \subseteq Article
  /\ \A p \in scanned : ~BadLink(toward, p) /\ \A s \in Lacking(toward, p) : <<p, s>> \in edges /\ s \in queue
  /\ \A e \in edges : e[1] \in scanned /\ e[2] \in Lacking(toward, e[1])
  /\ scoping # "scan" => scanned = queue
ReachInv == scoping \in Building =>
  /\ reach = [p \in Article |-> reach[p]]
  /\ \A k \in Seeds(entries) : k \in reach[k]
  /\ \A p \in Article : \A k \in reach[p] : k \in Seeds(entries) /\ p \in queue /\ p \in Needs(toward, k)
  /\ scoping = "measure" => \A e \in edges : reach[e[1]] \subseteq reach[e[2]]

SoundInv ==
  /\ scoping \in {"limit", "freeze"} => SoundScope(toward, pairs, entries)
  /\ prepared = [d \in Side |-> prepared[d]]
  /\ pass = "prepare" /\ scoping # "done" =>
       \A d \in Side : prepared[d] # {} => SoundScope(d, ChangedPages, prepared[d])

(* The limits: what has been measured, and what has been allowed.          *)
Asking(d) == {k \in ChangedPages : InitialOp(d, k) \in Translating}
Counted(d) == \A k \in Asking(d) : Cardinality(Needs(d, k)) \in counts
Small(d) == \A k \in Asking(d) : Allowed(Cardinality(Needs(d, k)))
RoomInv ==
  /\ pass = "prepare" /\ scoping \in Building \cup {"build", "limit"} =>
       \A d \in Possible : d \in todo \/ (d = toward /\ scoping \in Building) \/ Counted(d)
  /\ scoping = "decide" => counts = {}
  /\ scoping = "decide" \/ pass = "group" => \A d \in Possible : Small(d)
  /\ pass = "group" => \A n \in counts : Allowed(n)
  /\ LimitBeforeModels

LandsOn(t) == \A e \in TranslatingEntries(On(t)) :
    \A s \in Destinations(Other[t], e.page) \cap tree[Other[t]] :
      \/ Follow(t, s) \in After(t)
      \/ Follow(t, s) # s /\ Follow(t, s) \in Removed(t)
      \/ PassedOver(t, s)
LandInv ==
  /\ manifest = [d \in Side |-> manifest[d]]
  /\ pass = "prepare" /\ scoping \notin {"merge", "done"} => manifest = [d \in Side |-> {}]
  /\ (scoping # "done" \/ outcome = "planned") => \A t \in Side : LandsOn(t)

ScopeInv == InputInv /\ FlowInv /\ ScanInv /\ ReachInv /\ SoundInv /\ RoomInv /\ LandInv

-----------------------------------------------------------------------------
LEMMA OtherSide == \A d \in Side : Other[d] \in Side /\ Other[Other[d]] = d /\ Other[d] # d
BY DEF Side, Other

LEMMA FollowFixed ==
  ASSUME UNCHANGED input
  PROVE  \A d, p : Follow(d, p)' = Follow(d, p)
BY DEF input, Follow

LEMMA LackingFixed ==
  ASSUME UNCHANGED input
  PROVE  /\ \A d, p : Lacking(d, p)' = Lacking(d, p)
         /\ \A d, p : Destinations(d, p)' = Destinations(d, p)
         /\ \A d, p : Cyclic(d, p)' = Cyclic(d, p)
         /\ \A d, p : BadLink(d, p)' = BadLink(d, p)
<1>1. \A d, p : Destinations(d, p)' = Destinations(d, p)
  BY FollowFixed DEF input, Destinations
<1>2. \A d, p : Lacking(d, p)' = Lacking(d, p)
  BY <1>1, FollowFixed DEF input, Lacking
<1>3. \A d, p : Cyclic(d, p)' = Cyclic(d, p)
  BY FollowFixed DEF input, Cyclic
<1>4. \A d, p : BadLink(d, p)' = BadLink(d, p)
  BY <1>1, <1>3 DEF input, BadLink
<1> QED
  BY <1>1, <1>2, <1>3, <1>4

LEMMA EntryFixed ==
  ASSUME UNCHANGED input
  PROVE  /\ \A d, p : InitialEntry(d, p)' = InitialEntry(d, p)
         /\ \A d, p : InitialOp(d, p)' = InitialOp(d, p)
BY DEF input, InitialEntry, InitialOp, FromOf, RenameOf, RenamedOp, ChangedOn

LEMMA NeedsFixed ==
  ASSUME UNCHANGED input
  PROVE  \A d, k : Needs(d, k)' = Needs(d, k)
BY LackingFixed DEF Needs

LEMMA ScopeFixed ==
  ASSUME UNCHANGED input
  PROVE  \A d, ps, es : SoundScope(d, ps, es)' = SoundScope(d, ps, es)
BY LackingFixed, EntryFixed, FollowFixed DEF SoundScope, Grounded, Hangs, TranslatingEntries, input

LEMMA PagesFixed ==
  ASSUME UNCHANGED input
  PROVE  /\ ChangedPages' = ChangedPages /\ Possible' = Possible
         /\ \A p : Sides(p)' = Sides(p)
         /\ \A p : Complete(p)' = Complete(p)
         /\ \A d : ChangedOn(d)' = ChangedOn(d)
         /\ \A d : Asking(d)' = Asking(d)
<1>1. ChangedPages' = ChangedPages /\ Possible' = Possible
  BY DEF input, ChangedPages, Possible, ChangedOn
<1>2. \A d : ChangedOn(d)' = ChangedOn(d)
  BY DEF input, ChangedOn
<1>3. \A p : Sides(p)' = Sides(p)
  BY DEF input, Sides
<1>4. \A p : Complete(p)' = Complete(p)
  BY <1>2 DEF input, Complete
<1>5. \A d : Asking(d)' = Asking(d)
  BY <1>1, EntryFixed DEF Asking
<1> QED
  BY <1>1, <1>2, <1>3, <1>4, <1>5

LEMMA InputKept == [ScopeNext]_scopeVars => UNCHANGED input
BY DEF ScopeNext, scopeVars, Discover, Scanned, Spreaded, Measure, Limit, Freeze, Merge, Build, Frozen,
       Scan, Spread, Decide, input
LEMMA InputInvKept == InputInv /\ [ScopeNext]_scopeVars => InputInv'
BY InputKept DEF InputInv, Fits, ChangedOn, input

LEMMA InInput ==
  ASSUME InputInv
  PROVE  /\ ChangedPages \subseteq Article
         /\ \A d \in Side : \A p : Lacking(d, p) \subseteq Article
         /\ \A p : Sides(p) \subseteq Side
         /\ \A d \in Side, p \in Article : d \in Sides(p) => p \in ChangedPages /\ d \in Possible
<1>1. ChangedPages \subseteq Article
  BY DEF InputInv, ChangedPages, FileChange
<1>2. \A d \in Side : \A p : Lacking(d, p) \subseteq Article
  BY DEF InputInv, Lacking
<1>3. \A p : Sides(p) \subseteq Side
  BY DEF InputInv, Sides, FileChange
<1>4. \A d \in Side, p \in Article : d \in Sides(p) => p \in ChangedPages /\ d \in Possible
  BY DEF InputInv, Sides, ChangedPages, Possible, ChangedOn, FileChange
<1> QED
  BY <1>1, <1>2, <1>3, <1>4

-----------------------------------------------------------------------------
LEMMA FlowKept ==
  ASSUME InputInv, FlowInv, ScopeNext
  PROVE  FlowInv'
<1>f. UNCHANGED input
  BY InputKept
<1>g. /\ ChangedPages' = ChangedPages
      /\ \A p : Sides(p)' = Sides(p)
      /\ \A p : Complete(p)' = Complete(p)
  BY <1>f, PagesFixed
<1>1. CASE Discover
  <2>1. Possible \subseteq Side
    BY DEF Possible
  <2> QED
    BY <1>1, <1>g, <2>1 DEF Discover, FlowInv, Stop, Building
<1>2. CASE Scanned \/ Spreaded
  BY <1>2, <1>g DEF Scanned, Spreaded, FlowInv, buildVars, Building, Ahead, GroupPairs
<1>3. CASE Measure
  BY <1>3, <1>g DEF Measure, FlowInv, Stop, Building, Ahead, GroupPairs
<1>4. CASE Limit
  BY <1>4, <1>g DEF Limit, FlowInv, Stop, Building, buildVars, Ahead, GroupPairs
<1>5. CASE Freeze
  <2>1. /\ UNCHANGED <<pass, todo, toward, chosen>>
        /\ \/ scoping' = "done"
           \/ todo # {} /\ scoping' = "build" /\ pairs' = GroupPairs(Other[toward], chosen)
           \/ scoping' = "merge" /\ pairs' = pairs
    BY <1>5 DEF Freeze, Stop
  <2>2. scoping = "freeze"
    BY <1>5 DEF Freeze
  <2>3. todo # {} => pass = "group" /\ toward \notin todo /\ Ahead = Other[toward]
    <3> SUFFICES ASSUME NEW d \in todo PROVE pass = "group" /\ toward \notin todo /\ Ahead = Other[toward]
      OBVIOUS
    <3>1. toward \in Side /\ todo \subseteq Side
      BY DEF FlowInv
    <3>2. pass = "group" /\ toward \notin todo
      BY <2>2 DEF FlowInv, Building
    <3>3. Ahead = Other[toward]
      BY <3>1, <3>2 DEF Ahead, Side, Other
    <3> QED
      BY <3>2, <3>3
  <2>4. GroupPairs(Ahead, chosen)' = GroupPairs(Ahead, chosen)
    BY <2>1 DEF GroupPairs, Ahead
  <2> QED
    BY <2>1, <2>2, <2>3, <2>4, <1>g DEF FlowInv, Building
<1>6. CASE Merge
  BY <1>6, <1>g DEF Merge, FlowInv, Stop, Building, buildVars, Ahead, GroupPairs
<1>7. ASSUME NEW d \in Side, Build(d) PROVE FlowInv'
  BY <1>7, <1>g DEF Build, FlowInv, Stop, Building, Ahead, GroupPairs, Side
<1>8. ASSUME NEW d \in Side, Frozen(d) PROVE FlowInv'
  BY <1>8, <1>g DEF Frozen, FlowInv, Stop, Building, InputInv, ChangedPages, FileChange
<1>9. ASSUME NEW p \in Article, Scan(p) PROVE FlowInv'
  BY <1>9, <1>g DEF Scan, FlowInv, Stop, Building, Ahead, GroupPairs
<1>10. ASSUME NEW e \in edges, Spread(e) PROVE FlowInv'
  BY <1>10, <1>g DEF Spread, FlowInv, Building, Ahead, GroupPairs
<1>11. ASSUME NEW c \in [Article -> Side \cup {"unchanged", "no_translation", "unresolved"}], Decide(c)
       PROVE  FlowInv'
  BY <1>11, <1>g DEF Decide, FlowInv, Stop, Building, Ahead, GroupPairs, Side, Decisions
<1> QED
  BY <1>1, <1>2, <1>3, <1>4, <1>5, <1>6, <1>7, <1>8, <1>9, <1>10, <1>11 DEF ScopeNext

-----------------------------------------------------------------------------
LEMMA NeedsRules ==
  ASSUME InputInv, NEW d \in Side, NEW k \in Article
  PROVE  /\ k \in Needs(d, k)
         /\ \A p \in Needs(d, k) : \A s \in Lacking(d, p) : s \in Needs(d, k)
         /\ \A R \in SUBSET Article :
              k \in R /\ (\A p \in R : Lacking(d, p) \subseteq R) => Needs(d, k) \subseteq R
BY InInput DEF Needs

LEMMA SeedsOfEntries ==
  ASSUME NEW d, NEW ps
  PROVE  /\ Seeds({InitialEntry(d, p) : p \in ps}) = {p \in ps : InitialOp(d, p) \in Translating}
         /\ \A p : /\ InitialEntry(d, p).page = p /\ InitialEntry(d, p).op = InitialOp(d, p)
                  /\ InitialEntry(d, p).target = p /\ InitialEntry(d, p).keys = {p}
                  /\ InitialEntry(d, p).origin = "initial"
                  /\ InitialEntry(d, p).from = FromOf(d, p, InitialOp(d, p))
<1>1. \A p : /\ InitialEntry(d, p).page = p /\ InitialEntry(d, p).op = InitialOp(d, p)
             /\ InitialEntry(d, p).target = p /\ InitialEntry(d, p).keys = {p}
             /\ InitialEntry(d, p).origin = "initial"
             /\ InitialEntry(d, p).from = FromOf(d, p, InitialOp(d, p))
  BY DEF InitialEntry
<1>2. Seeds({InitialEntry(d, p) : p \in ps}) = {p \in ps : InitialOp(d, p) \in Translating}
  BY <1>1 DEF Seeds
<1> QED
  BY <1>1, <1>2

(* When no edge is behind, what reaches an article is what needs it.       *)
LEMMA ClosureFound ==
  ASSUME InputInv, FlowInv, ScanInv, ReachInv, scoping = "measure", NEW k \in Seeds(entries)
  PROVE  {p \in Article : k \in reach[p]} = Needs(toward, k)
<1> DEFINE R == {p \in Article : k \in reach[p]}
<1>1. k \in Article /\ toward \in Side /\ k \in queue
  BY DEF ScanInv, FlowInv, Building
<1>2. R \subseteq Needs(toward, k)
  BY DEF ReachInv, Building
<1>3. k \in R
  BY <1>1 DEF ReachInv, Building
<1>4. ASSUME NEW p \in R, NEW s \in Lacking(toward, p) PROVE s \in R
  <2>1. p \in scanned
    BY DEF ReachInv, ScanInv, Building
  <2>2. <<p, s>> \in edges
    BY <2>1 DEF ScanInv, Building
  <2>3. reach[p] \subseteq reach[s]
    BY <2>2 DEF ReachInv, Building
  <2> QED
    BY <2>3, <1>1, InInput
<1>5. Needs(toward, k) \subseteq R
  BY <1>1, <1>3, <1>4, NeedsRules
<1> QED
  BY <1>2, <1>5

LEMMA BuildScans ==
  ASSUME InputInv, FlowInv, NEW d \in Side, Build(d), scoping' \in Building
  PROVE  ScanInv' /\ ReachInv'
<1>f. UNCHANGED input
  BY DEF Build, input
<1>1. /\ scoping' = "scan" /\ toward' = d /\ pairs' = pairs
      /\ \A p \in pairs : InitialOp(d, p) \notin Refused
      /\ entries' = {InitialEntry(d, p) : p \in pairs} /\ queue' = Seeds(entries')
      /\ scanned' = {} /\ edges' = {} /\ reach' = [p \in Article |-> IF p \in queue' THEN {p} ELSE {}]
  BY DEF Build, Stop, Building
<1>2. pairs \subseteq Article
  BY InInput DEF FlowInv, GroupPairs, Build
<1>3. queue' = {p \in pairs : InitialOp(d, p) \in Translating} /\ Seeds(entries)' = queue'
  BY <1>1, SeedsOfEntries DEF Seeds
<1>4. ScanInv'
  BY <1>1, <1>2, <1>3, <1>f, EntryFixed DEF ScanInv
<1>5. \A k \in queue' : k \in Needs(d, k)
  BY <1>2, <1>3, NeedsRules
<1>6. ReachInv'
  BY <1>1, <1>2, <1>3, <1>5, <1>f, NeedsFixed DEF ReachInv
<1> QED
  BY <1>4, <1>6

LEMMA ScanScans ==
  ASSUME InputInv, FlowInv, ScanInv, ReachInv, NEW p \in Article, Scan(p), scoping' \in Building
  PROVE  ScanInv' /\ ReachInv'
<1>f. UNCHANGED input
  BY DEF Scan, input
<1>1. /\ scoping = "scan" /\ scoping' = "scan" /\ toward' = toward /\ pairs' = pairs /\ entries' = entries
      /\ p \in queue /\ scanned' = scanned \cup {p} /\ ~BadLink(toward, p) /\ reach' = reach
      /\ edges' = edges \cup {<<p, s>> : s \in Lacking(toward, p)}
      /\ queue' = queue \cup Lacking(toward, p)
  BY DEF Scan, Stop, Building, Visited
<1>2. toward \in Side /\ Lacking(toward, p) \subseteq Article /\ Seeds(entries)' = Seeds(entries)
  BY <1>1, InInput DEF FlowInv, Seeds
<1>3. ScanInv'
  BY <1>1, <1>2, <1>f, EntryFixed, LackingFixed DEF ScanInv, Building
<1>4. ReachInv'
  BY <1>1, <1>2, <1>f, NeedsFixed DEF ReachInv, Building
<1> QED
  BY <1>3, <1>4

LEMMA SpreadScans ==
  ASSUME InputInv, FlowInv, ScanInv, ReachInv, NEW e \in edges, Spread(e)
  PROVE  ScanInv' /\ ReachInv'
<1>f. UNCHANGED input
  BY DEF Spread, input
<1>1. /\ scoping = "spread" /\ UNCHANGED <<scoping, toward, pairs, entries, scanned, queue, edges>>
      /\ reach' = [reach EXCEPT ![e[2]] = @ \cup reach[e[1]]]
  BY DEF Spread
<1>2. Seeds(entries)' = Seeds(entries)
  BY <1>1 DEF Seeds
<1>3. ScanInv'
  BY <1>1, <1>2, <1>f, EntryFixed, LackingFixed DEF ScanInv, Building
<1>4. toward \in Side /\ e[1] \in Article /\ e[2] \in Lacking(toward, e[1]) /\ e[2] \in queue
      /\ e[2] \in Article
  BY <1>1 DEF ScanInv, FlowInv, Building
<1>5. \A k \in Seeds(entries) : k \in Article
  BY <1>1 DEF ScanInv, Building
<1>6. \A k \in reach[e[1]] : k \in Seeds(entries) /\ e[2] \in Needs(toward, k)
  BY <1>1, <1>4, <1>5, NeedsRules DEF ReachInv, Building
<1>7. /\ reach' = [p \in Article |-> reach'[p]]
      /\ \A p \in Article : reach'[p] = (IF p = e[2] THEN reach[p] \cup reach[e[1]] ELSE reach[p])
  BY <1>1, <1>4 DEF ReachInv, Building
<1>8. ReachInv'
  BY <1>1, <1>2, <1>4, <1>5, <1>6, <1>7, <1>f, NeedsFixed DEF ReachInv, Building
<1> QED
  BY <1>3, <1>8

LEMMA ScanKept ==
  ASSUME InputInv, FlowInv, ScanInv, ReachInv, ScopeNext
  PROVE  ScanInv' /\ ReachInv'
<1>f. UNCHANGED input
  BY InputKept
<1>1. CASE scoping' \notin Building
  BY <1>1 DEF ScanInv, ReachInv, Building
<1>2. CASE Scanned \/ Spreaded
  <2>1. UNCHANGED <<toward, pairs, entries, scanned, queue, edges, reach>>
    BY <1>2 DEF Scanned, Spreaded, buildVars
  <2>2. \/ scoping = "scan" /\ queue = scanned /\ scoping' = "spread"
        \/ scoping = "spread" /\ (\A e \in edges : ~Behind(e)) /\ scoping' = "measure"
    BY <1>2 DEF Scanned, Spreaded
  <2>3. Seeds(entries)' = Seeds(entries)
    BY <2>1 DEF Seeds
  <2>4. ScanInv'
    BY <2>1, <2>2, <2>3, <1>f, EntryFixed, LackingFixed DEF ScanInv, Building
  <2>5. ReachInv'
    BY <2>1, <2>2, <2>3, <1>f, NeedsFixed DEF ReachInv, Building, Behind
  <2> QED
    BY <2>4, <2>5
<1>3. CASE Discover \/ Measure \/ Limit \/ Freeze \/ Merge
  BY <1>1, <1>3 DEF Discover, Measure, Limit, Freeze, Merge, Stop, Building
<1>4. ASSUME NEW d \in Side, Build(d) PROVE ScanInv' /\ ReachInv'
  BY <1>1, <1>4, BuildScans
<1>5. ASSUME NEW d \in Side, Frozen(d) PROVE ScanInv' /\ ReachInv'
  BY <1>1, <1>5 DEF Frozen, Stop, Building
<1>6. ASSUME NEW p \in Article, Scan(p) PROVE ScanInv' /\ ReachInv'
  BY <1>1, <1>6, ScanScans
<1>7. ASSUME NEW e \in edges, Spread(e) PROVE ScanInv' /\ ReachInv'
  BY <1>7, SpreadScans
<1>8. ASSUME NEW c \in [Article -> Side \cup {"unchanged", "no_translation", "unresolved"}], Decide(c)
      PROVE  ScanInv' /\ ReachInv'
  BY <1>1, <1>8 DEF Decide, Stop, Building
<1> QED
  BY <1>2, <1>3, <1>4, <1>5, <1>6, <1>7, <1>8 DEF ScopeNext

-----------------------------------------------------------------------------
(* A scope that has been measured is sound, and its sizes are the sizes of *)
(* the closures of its translated articles.                                *)
LEMMA MeasureSound ==
  ASSUME InputInv, FlowInv, ScanInv, ReachInv, Measure, scoping' # "done"
  PROVE  /\ SoundScope(toward, pairs, entries')
         /\ prepared' = (IF pass = "prepare" THEN [prepared EXCEPT ![toward] = entries'] ELSE prepared)
         /\ \A k \in pairs : InitialOp(toward, k) \in Translating =>
              Cardinality(Needs(toward, k)) \in counts'
         /\ \A n \in counts' : n \in counts \/ \E k \in pairs :
              InitialOp(toward, k) \in Translating /\ n = Cardinality(Needs(toward, k))
         /\ counts \subseteq counts'
<1> DEFINE all == entries \cup {DependencyEntry(p) : p \in Dependencies}
<1>1. /\ scoping = "measure" /\ entries' = all /\ counts' = counts \cup Sizes(all)
      /\ prepared' = (IF pass = "prepare" THEN [prepared EXCEPT ![toward] = all] ELSE prepared)
  BY DEF Measure, Stop
<1>2. /\ entries = {InitialEntry(toward, p) : p \in pairs} /\ scanned = queue
      /\ \A p \in pairs : InitialOp(toward, p) \notin Refused
      /\ \A p \in scanned : ~BadLink(toward, p) /\ \A s \in Lacking(toward, p) : <<p, s>> \in edges
      /\ \A e \in edges : e[1] \in scanned /\ e[2] \in Lacking(toward, e[1]) /\ e[2] \in queue
  BY <1>1 DEF ScanInv, Building
<1>3. Seeds(entries) = {p \in pairs : InitialOp(toward, p) \in Translating} /\ Seeds(entries) \subseteq queue
  BY <1>1, <1>2, SeedsOfEntries DEF ScanInv, Building
<1>4. \A p \in Dependencies :
        /\ DependencyEntry(p).page = p /\ DependencyEntry(p).op = "translate"
        /\ DependencyEntry(p).target = Follow(Other[toward], p)
        /\ DependencyEntry(p).keys = reach[p] /\ DependencyEntry(p).origin = "dependency"
  BY DEF DependencyEntry
<1>5. \A p \in Dependencies : p \in scanned /\ p \notin pairs
  BY <1>2 DEF Dependencies
<1>6. Grounded(toward, pairs, all)
  BY <1>2, <1>4, SeedsOfEntries DEF Grounded
<1>7. \A e \in all : e.origin # "initial" => e.op = "translate" /\ e.target = Follow(Other[toward], e.page)
  BY <1>2, <1>4, SeedsOfEntries
<1>8. \A e \in TranslatingEntries(all) : e.page \in scanned /\ e.keys \subseteq reach[e.page]
  <2> SUFFICES ASSUME NEW e \in TranslatingEntries(all)
               PROVE  e.page \in scanned /\ e.keys \subseteq reach[e.page]
    OBVIOUS
  <2>1. CASE e \in entries
    <3>1. PICK p \in pairs : e = InitialEntry(toward, p)
      BY <2>1, <1>2
    <3>2. e.page = p /\ e.keys = {p} /\ e.op = InitialOp(toward, p)
      BY <3>1, SeedsOfEntries
    <3>3. p \in Seeds(entries)
      BY <3>2, <1>3 DEF TranslatingEntries
    <3> QED
      BY <3>2, <3>3, <1>1, <1>2, <1>3 DEF ReachInv, Building
  <2>2. CASE e \notin entries
    BY <2>2, <1>4, <1>5 DEF TranslatingEntries
  <2> QED
    BY <2>1, <2>2
<1>9. \A e \in TranslatingEntries(all) : \A q \in link[e.page] : ~Cyclic(toward, q)
  BY <1>2, <1>8 DEF BadLink
<1>10. \A e \in TranslatingEntries(all) : \A s \in Lacking(toward, e.page) : Hangs(toward, pairs, all, e, s)
  <2> SUFFICES ASSUME NEW e \in TranslatingEntries(all), NEW s \in Lacking(toward, e.page), s \notin pairs
               PROVE  \E f \in all : f.page = s /\ f.origin = "dependency" /\ e.keys \subseteq f.keys
    BY DEF Hangs
  <2>1. <<e.page, s>> \in edges
    BY <1>2, <1>8
  <2>2. s \in Dependencies /\ reach[e.page] \subseteq reach[s]
    BY <2>1, <1>1 DEF Dependencies, ReachInv, Building
  <2> QED
    BY <2>2, <1>4, <1>8
<1>11. SoundScope(toward, pairs, all)
  BY <1>6, <1>7, <1>9, <1>10 DEF SoundScope
<1>12. Seeds(all) = Seeds(entries)
  BY <1>4 DEF Seeds
<1>13. \A k \in Seeds(entries) : Size(k) = Cardinality(Needs(toward, k))
  BY <1>1, ClosureFound DEF Size
<1>14. Sizes(all) = {Cardinality(Needs(toward, k)) : k \in Seeds(entries)}
  BY <1>12, <1>13 DEF Sizes
<1> QED
  BY <1>1, <1>3, <1>11, <1>14

LEMMA SoundKept ==
  ASSUME InputInv, FlowInv, ScanInv, ReachInv, SoundInv, ScopeNext
  PROVE  SoundInv'
<1>f. UNCHANGED input
  BY InputKept
<1>g. ChangedPages' = ChangedPages /\ \A d, ps, es : SoundScope(d, ps, es)' = SoundScope(d, ps, es)
  BY <1>f, PagesFixed, ScopeFixed
<1>1. CASE Measure
  <2>1. CASE scoping' = "done"
    <3>1. prepared' = prepared
      BY <1>1, <2>1 DEF Measure, Stop
    <3> QED
      BY <2>1, <3>1 DEF SoundInv
  <2>2. CASE scoping' # "done"
    <3>1. /\ SoundScope(toward, pairs, entries') /\ toward' = toward /\ pairs' = pairs /\ pass' = pass
          /\ prepared' = (IF pass = "prepare" THEN [prepared EXCEPT ![toward] = entries'] ELSE prepared)
      BY <1>1, <2>2, MeasureSound DEF Measure
    <3>2. toward \in Side /\ scoping = "measure" /\ (pass = "prepare" => pairs = ChangedPages)
      BY <1>1 DEF Measure, FlowInv
    <3> QED
      BY <3>1, <3>2, <1>g DEF SoundInv
  <2> QED
    BY <2>1, <2>2
<1>2. CASE Limit
  BY <1>2, <1>g DEF Limit, SoundInv, Stop, buildVars
<1>3. ASSUME NEW d \in Side, Frozen(d) PROVE SoundInv'
  <2>1. pass = "prepare" /\ pairs = ChangedPages
    BY <1>3 DEF Frozen, FlowInv
  <2>2. SoundScope(d, ChangedPages, prepared[d])
    BY <1>3, <2>1 DEF Frozen, SoundInv
  <2> QED
    BY <1>3, <1>g, <2>1, <2>2 DEF Frozen, SoundInv, Stop
<1>4. ASSUME UNCHANGED prepared, scoping' \notin {"limit", "freeze"}, pass' = pass \/ pass' = "group",
             scoping # "done"
      PROVE  SoundInv'
  BY <1>4, <1>g DEF SoundInv
<1>5. CASE Discover \/ Scanned \/ Spreaded \/ Freeze \/ Merge
  BY <1>4, <1>5 DEF Discover, Scanned, Spreaded, Freeze, Merge, Stop
<1>6. ASSUME NEW d \in Side, Build(d) PROVE SoundInv'
  BY <1>4, <1>6 DEF Build, Stop
<1>7. ASSUME NEW p \in Article, Scan(p) PROVE SoundInv'
  BY <1>4, <1>7 DEF Scan, Stop
<1>8. ASSUME NEW e \in edges, Spread(e) PROVE SoundInv'
  BY <1>4, <1>8 DEF Spread
<1>9. ASSUME NEW c \in [Article -> Side \cup {"unchanged", "no_translation", "unresolved"}], Decide(c)
      PROVE  SoundInv'
  BY <1>4, <1>9 DEF Decide, Stop
<1> QED
  BY <1>1, <1>2, <1>3, <1>5, <1>6, <1>7, <1>8, <1>9 DEF ScopeNext

(* A group asks only for articles and directions that were prepared.       *)
LEMMA GroupCounted ==
  ASSUME InputInv, FlowInv, pass = "group", scoping = "measure", NEW k \in pairs
  PROVE  k \in ChangedPages /\ toward \in Possible
<1>1. k \in Article /\ chosen[k] = toward /\ toward \in Side
  BY DEF FlowInv, Building, GroupPairs
<1>2. toward \in Sides(k)
  BY <1>1 DEF FlowInv
<1> QED
  BY <1>1, <1>2, InInput

LEMMA RoomKept ==
  ASSUME InputInv, FlowInv, ScanInv, ReachInv, RoomInv, ScopeNext
  PROVE  RoomInv'
<1>f. UNCHANGED input
  BY InputKept
<1>g. /\ Possible' = Possible /\ \A d : Asking(d)' = Asking(d)
      /\ \A d, k : Needs(d, k)' = Needs(d, k)
      /\ \A n : Allowed(n)' = Allowed(n)
      /\ \A d : Small(d)' = Small(d)
  BY <1>f, PagesFixed, NeedsFixed DEF Small, Allowed
<1>h. counts \subseteq counts' => \A d : Counted(d) => Counted(d)'
  BY <1>g DEF Counted
<1>1. CASE Discover
  BY <1>1, <1>g DEF Discover, RoomInv, Stop, LimitBeforeModels, Building
<1>2. CASE Measure
  <2>0. scoping = "measure" /\ UNCHANGED <<toward, todo, pass, pairs>> /\ (scoping' = "done" => counts' = counts)
        /\ (scoping' # "done" => outcome' = outcome) /\ scoping' \in {"done", "build", "limit"}
        /\ outcome' # "limit_group"
    BY <1>2 DEF Measure, Stop, RoomInv, LimitBeforeModels
  <2>1. CASE scoping' = "done"
    BY <2>0, <2>1, <1>g DEF RoomInv, LimitBeforeModels, Building
  <2>2. CASE scoping' # "done"
    <3>1. /\ \A k \in pairs : InitialOp(toward, k) \in Translating =>
              Cardinality(Needs(toward, k)) \in counts'
          /\ \A n \in counts' : n \in counts \/ \E k \in pairs :
              InitialOp(toward, k) \in Translating /\ n = Cardinality(Needs(toward, k))
          /\ counts \subseteq counts'
      BY <1>2, <2>2, MeasureSound
    <3>2. pass = "prepare" => Counted(toward)'
      BY <2>0, <3>1, <1>g DEF FlowInv, Counted, Asking
    <3>3. pass = "prepare" => \A d \in Possible : d \in todo' \/ Counted(d)'
      BY <2>0, <3>1, <3>2, <1>h DEF RoomInv, Building
    <3>4. pass = "group" => \A n \in counts' : Allowed(n)
      <4> SUFFICES ASSUME pass = "group", NEW k \in pairs, InitialOp(toward, k) \in Translating
                   PROVE  Allowed(Cardinality(Needs(toward, k)))
        BY <3>1 DEF RoomInv
      <4>1. toward \in Possible /\ k \in Asking(toward)
        BY <2>0, GroupCounted DEF Asking
      <4> QED
        BY <4>1 DEF RoomInv, Small
    <3> QED
      BY <2>0, <2>2, <3>3, <3>4, <1>g DEF RoomInv, LimitBeforeModels, Building
  <2> QED
    BY <2>1, <2>2
<1>3. CASE Limit
  <2>1. /\ scoping = "limit" /\ counts' = {} /\ UNCHANGED <<pass, todo, toward>>
        /\ \/ scoping' = "done" /\ (\E n \in counts : ~Allowed(n))
              /\ outcome' = (IF pass = "prepare" THEN "limit_prepared" ELSE "limit_group")
           \/ /\ \A n \in counts : Allowed(n)
              /\ scoping' = (IF pass = "prepare" THEN "decide" ELSE "freeze") /\ outcome' = outcome
    BY <1>3 DEF Limit, Stop
  <2>2. pass = "prepare" => \A d \in Possible : Counted(d)
    BY <2>1 DEF RoomInv, FlowInv, Building
  <2>3. pass = "prepare" /\ (\A n \in counts : Allowed(n)) => \A d \in Possible : Small(d)
    BY <2>2 DEF Counted, Small
  <2> QED
    BY <2>1, <2>3, <1>g DEF RoomInv, LimitBeforeModels, Building, FlowInv
<1>4. CASE Scanned \/ Spreaded
  BY <1>4, <1>g, <1>h DEF Scanned, Spreaded, RoomInv, LimitBeforeModels, Building
<1>5. CASE Freeze
  <2>1. scoping = "freeze" /\ UNCHANGED <<pass, counts, todo>> /\ outcome' \in {"operation_mismatch", outcome}
        /\ (scoping' = "build" => todo # {}) /\ scoping' \in {"build", "merge", "done"}
    BY <1>5 DEF Freeze, Stop
  <2>2. scoping' = "build" => pass = "group"
    BY <2>1 DEF FlowInv
  <2> QED
    BY <2>1, <2>2, <1>g DEF RoomInv, LimitBeforeModels, Building
<1>6. CASE Merge
  BY <1>6, <1>g DEF Merge, RoomInv, LimitBeforeModels, Stop, Building
<1>7. ASSUME NEW d \in Side, Build(d) PROVE RoomInv'
  BY <1>7, <1>g, <1>h DEF Build, RoomInv, LimitBeforeModels, Stop, Building
<1>8. ASSUME NEW d \in Side, Frozen(d) PROVE RoomInv'
  BY <1>8, <1>g DEF Frozen, RoomInv, LimitBeforeModels, Stop, Building, FlowInv
<1>9. ASSUME NEW p \in Article, Scan(p) PROVE RoomInv'
  BY <1>9, <1>g, <1>h DEF Scan, RoomInv, LimitBeforeModels, Stop, Building
<1>10. ASSUME NEW e \in edges, Spread(e) PROVE RoomInv'
  BY <1>10, <1>g, <1>h DEF Spread, RoomInv, LimitBeforeModels, Building
<1>11. ASSUME NEW c \in [Article -> Side \cup {"unchanged", "no_translation", "unresolved"}], Decide(c)
       PROVE  RoomInv'
  BY <1>11, <1>g DEF Decide, RoomInv, LimitBeforeModels, Stop, Building
<1> QED
  BY <1>1, <1>2, <1>3, <1>4, <1>5, <1>6, <1>7, <1>8, <1>9, <1>10, <1>11 DEF ScopeNext

-----------------------------------------------------------------------------
LEMMA OpFacts ==
  ASSUME NEW d \in Side, NEW p
  PROVE  /\ InitialOp(d, p) = "delete" => p \notin tree[d]
         /\ InitialOp(d, p) \in {"rename", "rename_translate"} => RenameOf(d, p) # {}
         /\ p \in DOMAIN redirect[Other[d]] => InitialOp(d, p) \in {"skip_source", "skip_target"}
         /\ p \in tree[d] /\ p \notin DOMAIN redirect[d] /\ p \notin DOMAIN redirect[Other[d]]
              /\ p \notin tree[Other[d]] /\ InitialOp(d, p) \notin Refused
              => InitialOp(d, p) \in Translating \cup {"rename"}
<1>1. \A c : RenamedOp(d, c) \notin {"delete", "skip_source", "skip_target"}
  BY DEF RenamedOp
<1>2. \A c \in RenameOf(d, p) : c.page = p
  BY DEF RenameOf
<1>3. RenameOf(d, p) # {} => (CHOOSE c \in RenameOf(d, p) : TRUE) \in RenameOf(d, p)
  OBVIOUS
<1>4. \A c \in RenameOf(d, p) : p \notin tree[Other[d]] =>
        RenamedOp(d, c) \in Refused \cup Translating \cup {"rename"}
  BY <1>2 DEF RenamedOp, Refused, Translating
<1> QED
  BY <1>1, <1>3, <1>4 DEF InitialOp, Translating, Refused

LEMMA RenameLeaves ==
  ASSUME InputInv, NEW d \in Side, NEW p, RenameOf(d, p) # {}
  PROVE  (CHOOSE c \in RenameOf(d, p) : TRUE).from \notin tree[d]
<1>1. PICK c : c = (CHOOSE x \in RenameOf(d, p) : TRUE)
  OBVIOUS
<1>2. c \in ChangedOn(d) /\ c.kind = "renamed"
  BY <1>1 DEF RenameOf
<1> QED
  BY <1>1, <1>2 DEF InputInv, Fits

(* What a side of the plan removes is no article that the other side has.  *)
LEMMA RemovedAbsent ==
  ASSUME InputInv, NEW d \in Side, NEW ps, NEW es, SoundScope(d, ps, es), NEW s \in tree[d], NEW e \in es
  PROVE  /\ e.op = "delete" => e.target # s
         /\ e.op \in {"rename", "rename_translate"} => e.from # s
<1>1. CASE e.origin = "initial"
  <2>1. PICK p : e = InitialEntry(d, p)
    BY <1>1 DEF SoundScope, Grounded
  <2>2. e.op = InitialOp(d, p) /\ e.target = p /\ e.from = FromOf(d, p, e.op)
    BY <2>1, SeedsOfEntries
  <2>3. e.op = "delete" => p \notin tree[d]
    BY <2>2, OpFacts
  <2>4. e.op \in {"rename", "rename_translate"} => e.from \notin tree[d]
    BY <2>2, OpFacts, RenameLeaves DEF FromOf
  <2> QED
    BY <2>2, <2>3, <2>4
<1>2. CASE e.origin # "initial"
  BY <1>2 DEF SoundScope
<1> QED
  BY <1>1, <1>2

(* A link of an article in the plan lands: on a page that is there, on a   *)
(* dependency kept with the article, or on a page of the scope itself,     *)
(* which is kept too and written, unless it is passed over.                *)
LEMMA LandsKept ==
  ASSUME InputInv, FlowInv, SoundInv, LandInv, Freeze, scoping' # "done",
         NEW d \in Side, d = toward, NEW t \in Side, t = Other[d]
  PROVE  LandsOn(t)'
<1> DEFINE kept == {e \in entries : Kept(e)}
<1>f. UNCHANGED input
  BY DEF Freeze, input
<1>1. PICK rows \in Mirrored : ~Mismatch(rows, kept)
  BY DEF Freeze, Stop
<1>2. /\ scoping = "freeze" /\ manifest' = [manifest EXCEPT ![d] = kept] /\ pass' = pass /\ toward' = d
      /\ pass = "prepare" => pairs' = pairs
  BY DEF Freeze, Stop, FlowInv
<1>3. d \in Side /\ t \in Side /\ Other[t] = d /\ SoundScope(d, pairs, entries)
  BY <1>2, OtherSide DEF FlowInv, SoundInv
<1>4. On(t)' = kept
  BY <1>2, <1>3 DEF On, LandInv
<1>5. SUFFICES ASSUME NEW e \in TranslatingEntries(kept), NEW s \in Destinations(d, e.page), s \in tree[d],
                      ~PassedOver(t, s)'
               PROVE  \/ Follow(t, s) \in After(t)'
                      \/ Follow(t, s) # s /\ Follow(t, s) \in Removed(t)'
  <2>1. TranslatingEntries(On(t))' = TranslatingEntries(kept)
    BY <1>4 DEF TranslatingEntries
  <2>2. \A p : Destinations(d, p)' = Destinations(d, p) /\ Follow(t, p)' = Follow(t, p)
    BY <1>f, LackingFixed, FollowFixed
  <2>3. tree' = tree
    BY <1>f DEF input
  <2> QED
    BY <1>3, <1>5, <2>1, <2>2, <2>3 DEF LandsOn
<1>6. /\ Removed(t)' = {x.target : x \in {y \in kept : y.op = "delete"}}
                       \cup {x.from : x \in {y \in kept : y.op \in {"rename", "rename_translate"}}}
      /\ Written(t)' = {x.target : x \in {y \in kept : y.op \in Translating \cup {"rename"}}}
      /\ After(t)' = (tree[t] \ Removed(t)') \cup Written(t)'
  BY <1>4, <1>f DEF Removed, Written, After, input
<1>7. s \notin Removed(t)'
  BY <1>3, <1>5, <1>6, RemovedAbsent
<1>8. CASE Follow(t, s) \in tree[t]
  BY <1>6, <1>7, <1>8
<1>9. CASE Follow(t, s) \notin tree[t]
  <2>1. s \in Lacking(d, e.page) /\ s \notin DOMAIN redirect[d] /\ Hangs(d, pairs, entries, e, s)
    <3>1. s \in Lacking(d, e.page)
      BY <1>5, <1>9 DEF Lacking
    <3>2. e \in TranslatingEntries(entries)
      BY <1>5 DEF TranslatingEntries
    <3>3. (\A q \in link[e.page] : ~Cyclic(d, q)) /\ Hangs(d, pairs, entries, e, s)
      BY <1>3, <3>1, <3>2 DEF SoundScope
    <3>4. PICK q \in link[e.page] : s = Follow(d, q)
      BY <1>5 DEF Destinations
    <3> QED
      BY <3>1, <3>3, <3>4 DEF Cyclic
  <2>2. ASSUME NEW f \in entries, f.page = s, f.origin = "dependency", e.keys \subseteq f.keys
        PROVE  Follow(t, s) \in After(t)'
    <3>1. f.op = "translate" /\ f.target = Follow(t, s)
      BY <1>3, <2>2 DEF SoundScope
    <3>2. f \in kept
      BY <1>5, <2>2 DEF Kept, TranslatingEntries
    <3> QED
      BY <1>6, <3>1, <3>2 DEF Translating
  <2>3. CASE s \in pairs
    <3> DEFINE g == InitialEntry(d, s)
    <3>1. g \in entries /\ g.page = s /\ g.op = InitialOp(d, s) /\ g.target = s /\ g.keys = {s}
          /\ g.origin = "initial" /\ g.op \notin Refused
      BY <1>3, <2>3, SeedsOfEntries DEF SoundScope, Grounded
    <3> HIDE DEF g
    <3>2. s \in DOMAIN redirect[t] => pass = "group"
      <4>1. ~(pass' = "prepare" /\ s \in pairs' /\ s \in DOMAIN redirect'[t])
        BY <1>5 DEF PassedOver
      <4> QED
        BY <4>1, <1>2, <1>f, <2>3 DEF FlowInv, input
    <3>3. s \notin DOMAIN redirect[t] => Follow(t, s) = s
      BY DEF Follow
    <3>4. chosen[s] = d
      <4>1. CASE pass = "group"
        BY <4>1, <1>2, <2>3 DEF FlowInv, Building, GroupPairs
      <4>2. CASE pass = "prepare"
        <5>1. s \notin tree[t]
          BY <4>2, <3>2, <3>3, <1>9
        <5>2. ~Complete(s)
          BY <5>1, <1>3 DEF Complete, InputInv, Fits
        <5> QED
          BY <4>2, <5>2, <1>2, <2>3 DEF FlowInv
      <4> QED
        BY <4>1, <4>2 DEF FlowInv
    <3>5. g \in kept
      BY <3>1, <3>4 DEF Kept
    <3>6. s \notin DOMAIN redirect[t]
      <4> SUFFICES ASSUME s \in DOMAIN redirect[t] PROVE FALSE
        OBVIOUS
      <4>1. pass = "group" /\ rows = ChangedOn(d)
        BY <3>2, <1>1 DEF Mirrored
      <4>2. d \in Sides(s)
        BY <4>1, <3>4, <1>3, <1>5 DEF FlowInv, InputInv
      <4>3. PICK c \in ChangedOn(d) : c.page = s
        BY <4>2 DEF Sides, ChangedOn
      <4>4. g.op \in {"skip_source", "skip_target"}
        BY <3>1, <1>3, OpFacts
      <4>5. c.kind \in {"written", "deleted", "renamed"}
        BY <4>3 DEF InputInv, ChangedOn, FileChange
      <4>6. g.op \notin Permitted[c.kind]
        BY <4>4, <4>5 DEF Permitted
      <4> QED
        BY <4>1, <4>3, <4>6, <3>1, <3>5, <1>1 DEF Mismatch
    <3>7. g.op \in Translating \cup {"rename"}
      BY <3>1, <3>3, <3>6, <2>1, <1>3, <1>5, <1>9, OpFacts
    <3> QED
      BY <3>1, <3>3, <3>5, <3>6, <3>7, <1>6
  <2> QED
    BY <2>1, <2>2, <2>3 DEF Hangs
<1> QED
  BY <1>8, <1>9

LEMMA LandsFixed ==
  ASSUME UNCHANGED <<input, manifest, pass>>, pass = "prepare" => UNCHANGED pairs,
         NEW t \in Side, LandsOn(t)
  PROVE  LandsOn(t)'
<1>f. UNCHANGED input
  OBVIOUS
<1>1. On(t)' = On(t)
  BY DEF On
<1>2. Removed(t)' = Removed(t) /\ After(t)' = After(t)
  BY <1>1, <1>f DEF Removed, After, Written, input
<1>3. \A s : PassedOver(t, s) => PassedOver(t, s)'
  BY <1>f DEF PassedOver, input
<1>4. \A d, p : Destinations(d, p)' = Destinations(d, p) /\ Follow(d, p)' = Follow(d, p)
  BY <1>f, LackingFixed, FollowFixed
<1> QED
  BY <1>1, <1>2, <1>3, <1>4, <1>f DEF LandsOn, TranslatingEntries, input

LEMMA LandKept ==
  ASSUME InputInv, FlowInv, SoundInv, LandInv, ScopeNext
  PROVE  LandInv'
<1>f. UNCHANGED input
  BY InputKept
<1>2. ASSUME manifest' = [d \in Side |-> {}] PROVE \A t \in Side : LandsOn(t)'
  <2> SUFFICES ASSUME NEW t \in Side PROVE LandsOn(t)'
    OBVIOUS
  <2>1. On(t)' = {}
    BY <1>2, OtherSide DEF On
  <2> QED
    BY <2>1 DEF LandsOn, TranslatingEntries
<1>3. CASE Freeze
  <2>1. /\ scoping = "freeze" /\ pass' = pass /\ scoping' \in {"build", "merge", "done"} /\ toward \in Side
        /\ scoping' = "done" => outcome' # "planned"
        /\ scoping' = "build" => todo # {}
        /\ pass = "prepare" => UNCHANGED pairs
        /\ \E kept : manifest' = [manifest EXCEPT ![toward] = kept]
    BY <1>3 DEF Freeze, Stop, FlowInv
  <2>2. manifest' = [d \in Side |-> manifest'[d]] /\ manifest'[Other[toward]] = manifest[Other[toward]]
    BY <2>1, OtherSide DEF LandInv
  <2>3. scoping' = "build" => pass = "group"
    BY <2>1 DEF FlowInv
  <2>4. ASSUME NEW d \in Side, d = toward PROVE LandsOn(d)'
    <3>1. On(d)' = On(d)
      BY <2>2, <2>4 DEF On
    <3>2. Removed(d)' = Removed(d) /\ After(d)' = After(d)
      BY <3>1, <1>f DEF Removed, After, Written, input
    <3>3. \A s : PassedOver(d, s) => PassedOver(d, s)'
      BY <2>1, <1>f DEF PassedOver, input
    <3>4. \A x, p : Destinations(x, p)' = Destinations(x, p) /\ Follow(x, p)' = Follow(x, p)
      BY <1>f, LackingFixed, FollowFixed
    <3>5. LandsOn(d)
      BY <2>1 DEF LandInv
    <3> QED
      BY <3>1, <3>2, <3>3, <3>4, <3>5, <1>f DEF LandsOn, TranslatingEntries, input
  <2>5. ASSUME scoping' # "done", NEW t \in Side PROVE LandsOn(t)'
    <3>1. CASE t = toward
      BY <3>1, <2>4
    <3>2. CASE t # toward
      <4>1. PICK d \in Side : d = toward
        BY <2>1
      <4>2. t = Other[d]
        BY <3>2, <4>1 DEF Side, Other
      <4> QED
        BY <4>1, <4>2, <1>3, <2>5, LandsKept
    <3> QED
      BY <3>1, <3>2
  <2> QED
    BY <2>1, <2>2, <2>3, <2>5 DEF LandInv
<1>4. ASSUME UNCHANGED <<manifest, pass>>, pass = "prepare" => UNCHANGED pairs, scoping \notin {"merge", "done"},
             scoping' = "done" => outcome' # "planned"
      PROVE  LandInv'
  BY <1>4, <1>f, LandsFixed DEF LandInv
<1>5. CASE Discover
  BY <1>2, <1>5 DEF Discover, Stop, LandInv, FlowInv
<1>6. CASE Measure \/ Limit
  BY <1>4, <1>6 DEF Measure, Limit, Stop, buildVars
<1>7. CASE Scanned \/ Spreaded
  BY <1>4, <1>7 DEF Scanned, Spreaded, buildVars
<1>8. CASE Merge
  BY <1>8, <1>f, LandsFixed DEF Merge, Stop, buildVars, LandInv
<1>9. ASSUME NEW d \in Side, Build(d) PROVE LandInv'
  BY <1>4, <1>9 DEF Build, Stop
<1>10. ASSUME NEW d \in Side, Frozen(d) PROVE LandInv'
  BY <1>4, <1>10 DEF Frozen, Stop
<1>11. ASSUME NEW p \in Article, Scan(p) PROVE LandInv'
  BY <1>4, <1>11 DEF Scan, Stop
<1>12. ASSUME NEW e \in edges, Spread(e) PROVE LandInv'
  BY <1>4, <1>12 DEF Spread
<1>13. ASSUME NEW c \in [Article -> Side \cup {"unchanged", "no_translation", "unresolved"}], Decide(c)
       PROVE  LandInv'
  BY <1>2, <1>13 DEF Decide, Stop, LandInv, FlowInv
<1> QED
  BY <1>3, <1>5, <1>6, <1>7, <1>8, <1>9, <1>10, <1>11, <1>12, <1>13 DEF ScopeNext

-----------------------------------------------------------------------------
LEMMA ScopeInitInv == ScopeInit => ScopeInv
<1> SUFFICES ASSUME ScopeInit PROVE ScopeInv
  OBVIOUS
<1>1. InputInv
  BY ScopeAssumption DEF ScopeInit, InputInv
<1>2. FlowInv
  BY DEF ScopeInit, FlowInv, Side, Building
<1>3. ScanInv /\ ReachInv
  BY DEF ScopeInit, ScanInv, ReachInv, Building
<1>4. SoundInv
  BY DEF ScopeInit, SoundInv
<1>5. RoomInv
  BY DEF ScopeInit, RoomInv, LimitBeforeModels, Building
<1>6. LandInv
  <2>1. \A t \in Side : On(t) = {}
    BY OtherSide DEF ScopeInit, On
  <2> QED
    BY <2>1 DEF ScopeInit, LandInv, LandsOn, TranslatingEntries
<1> QED
  BY <1>1, <1>2, <1>3, <1>4, <1>5, <1>6 DEF ScopeInv

LEMMA ScopeStutter ==
  ASSUME ScopeInv, UNCHANGED scopeVars
  PROVE  ScopeInv'
<1>f. UNCHANGED input
  BY DEF scopeVars
<1>1. /\ UNCHANGED <<scoping, pass, todo, toward, prepared, counts, chosen, manifest, outcome>>
      /\ UNCHANGED <<pairs, entries, scanned, queue, edges, reach>>
  BY DEF scopeVars, buildVars
<1>2. InputInv'
  BY InputInvKept DEF ScopeInv
<1>3. FlowInv'
  BY <1>1, <1>f, PagesFixed DEF ScopeInv, FlowInv, Building, Ahead, GroupPairs
<1>4. ScanInv' /\ ReachInv'
  <2>1. Seeds(entries)' = Seeds(entries)
    BY <1>1 DEF Seeds
  <2> QED
    BY <2>1, <1>1, <1>f, EntryFixed, LackingFixed, NeedsFixed DEF ScopeInv, ScanInv, ReachInv, Building
<1>5. SoundInv'
  BY <1>1, <1>f, PagesFixed, ScopeFixed DEF ScopeInv, SoundInv
<1>6. RoomInv'
  BY <1>1, <1>f, PagesFixed, NeedsFixed
     DEF ScopeInv, RoomInv, Counted, Small, Allowed, LimitBeforeModels, Building
<1>7. LandInv'
  <2>1. \A t \in Side : LandsOn(t) => LandsOn(t)'
    BY <1>1, <1>f, LandsFixed
  <2> QED
    BY <2>1, <1>1 DEF ScopeInv, LandInv
<1> QED
  BY <1>2, <1>3, <1>4, <1>5, <1>6, <1>7 DEF ScopeInv

LEMMA ScopeInvRight == ScopeInv => ScopeIsRight
<1> SUFFICES ASSUME ScopeInv PROVE ScopeIsRight
  OBVIOUS
<1>1. ReachIsClosure
  BY ClosureFound DEF ScopeInv, ReachIsClosure, Needed, Needs
<1>2. LinksLand
  BY DEF ScopeInv, LandInv, LandsOn, LinksLand
<1>3. LimitBeforeModels
  BY DEF ScopeInv, RoomInv
<1> QED
  BY <1>1, <1>2, <1>3 DEF ScopeIsRight

(* The seven parts hold in every state of a scope.                         *)
THEOREM ScopeInvariant == ScopeSpec => []ScopeInv
<1>1. ScopeInv /\ [ScopeNext]_scopeVars => ScopeInv'
  <2>1. ASSUME ScopeInv, ScopeNext PROVE ScopeInv'
    <3>1. InputInv'
      BY <2>1, InputInvKept DEF ScopeInv
    <3>2. FlowInv' /\ ScanInv' /\ ReachInv' /\ SoundInv'
      BY <2>1, FlowKept, ScanKept, SoundKept DEF ScopeInv
    <3>3. RoomInv' /\ LandInv'
      BY <2>1, RoomKept, LandKept DEF ScopeInv
    <3> QED
      BY <3>1, <3>2, <3>3 DEF ScopeInv
  <2> QED
    BY <2>1, ScopeStutter
<1> QED
  BY <1>1, ScopeInitInv, PTL DEF ScopeSpec

(***************************************************************************)
(* The promise of the scope: each translated article brings exactly the    *)
(* articles its links need, the links of a plan that is carried out land,  *)
(* and no group that was allowed turns out too large when it is built      *)
(* again for the chosen pairs.                                             *)
(***************************************************************************)
THEOREM ScopeRight == ScopeSpec => []ScopeIsRight
BY ScopeInvariant, ScopeInvRight, PTL

-----------------------------------------------------------------------------
(* A set of numbers that is not empty has a least one.                     *)
LEMMA LeastNumber ==
  ASSUME NEW S \in SUBSET Nat, S # {}
  PROVE  \E n \in S : \A k \in S : n <= k
<1> DEFINE R == {p \in Nat \X Nat : p[1] < p[2]}
<1>1. IsWellFoundedOn(R, Nat)
  BY NatLessThanWellFounded DEF OpToRel
<1>2. ASSUME NEW n \in S, NEW k \in S, ~(<<k, n>> \in R)
      PROVE  n <= k
  <2>1. <<k, n>> \in Nat \X Nat
    OBVIOUS
  <2> QED
    BY <1>2, <2>1
<1> HIDE DEF R
<1>3. \E n \in S : \A k \in S : ~(<<k, n>> \in R)
  BY <1>1, WFMin
<1> QED
  BY <1>2, <1>3

(* Redirects lead from article to article, and so does following them as   *)
(* many times as there are articles.  A walk of n steps is a function; no  *)
(* number of steps is the first without one.                               *)
LEMMA FollowStays ==
  ASSUME redirect \in Redirects, NEW d \in Side, NEW p \in Article
  PROVE  Follow(d, p) \in Article
<1> DEFINE N == Cardinality(Article)
           To(q) == IF q \in DOMAIN redirect[d] THEN redirect[d][q] ELSE q
           Walk(n, f) == f \in [0..n -> Article] /\ f[0] = p /\ \A k \in 1..n : f[k] = To(f[k - 1])
           Bad == {n \in Nat : ~\E f : Walk(n, f)}
<1>1. N \in Nat
  BY ScopeAssumption, FS_CardinalityType
<1>2. \A q \in Article : To(q) \in Article
  BY ScopeAssumption
<1>3. Bad = {}
  <2> SUFFICES ASSUME Bad # {} PROVE FALSE
    OBVIOUS
  <2>1. PICK n \in Bad : \A k \in Bad : n <= k
    <3> HIDE DEF Walk
    <3> QED
      BY LeastNumber
  <2>2. n # 0
    <3>1. Walk(0, [k \in 0..0 |-> p])
      OBVIOUS
    <3> QED
      BY <3>1
  <2>3. n - 1 \in Nat /\ n - 1 \notin Bad
    <3> HIDE DEF Walk
    <3> QED
      BY <2>1, <2>2
  <2>4. PICK f : Walk(n - 1, f)
    BY <2>3
  <2> DEFINE g == [k \in 0..n |-> IF k = n THEN To(f[n - 1]) ELSE f[k]]
  <2>5. Walk(n, g)
    <3> HIDE DEF To
    <3>1. n \in Nat /\ \A k \in 0..n : k # n => k \in 0..n - 1
      OBVIOUS
    <3>2. g \in [0..n -> Article]
      BY <1>2, <2>3, <2>4, <3>1
    <3>3. g[0] = p
      BY <2>2, <2>4, <3>1
    <3>4. \A k \in 1..n : k - 1 \in 0..n - 1 /\ g[k - 1] = f[k - 1] /\ (k # n => k \in 1..n - 1)
      BY <3>1
    <3>5. \A k \in 1..n : g[k] = To(g[k - 1])
      BY <2>4, <3>1, <3>4
    <3> QED
      BY <3>2, <3>3, <3>5
  <2> QED
    BY <2>5
<1>4. PICK f : Walk(N, f)
  BY <1>1, <1>3
<1> DEFINE Rule(h) ==
      h = [n \in 0..N |-> IF n = 0 THEN p
                          ELSE IF h[n - 1] \in DOMAIN redirect[d] THEN redirect[d][h[n - 1]]
                          ELSE h[n - 1]]
           after == CHOOSE h : Rule(h)
<1>5. Rule(f)
  <2>1. \A n \in 0..N : n # 0 => n \in 1..N
    BY <1>1
  <2> QED
    BY <1>4, <2>1
<1>6. Rule(after)
  <2> HIDE DEF Rule
  <2> QED
    BY <1>5
<1>7. \A n \in 0..N : after[n] = IF n = 0 THEN p ELSE To(after[n - 1])
  <2> HIDE DEF after
  <2> QED
    BY <1>6
<1>8. after[N] \in Article
  <2> HIDE DEF after, To
  <2> DEFINE Out == {n \in 0..N : after[n] \notin Article}
  <2> SUFFICES ASSUME Out # {} PROVE FALSE
    BY <1>1
  <2>1. PICK n \in Out : \A k \in Out : n <= k
    <3>1. Out \in SUBSET Nat
      BY <1>1
    <3> HIDE DEF Out
    <3> QED
      BY <3>1, LeastNumber
  <2>2. n # 0
    BY <1>1, <1>7
  <2>3. n - 1 \in 0..N /\ n - 1 \notin Out
    BY <1>1, <2>1, <2>2
  <2>4. after[n - 1] \in Article
    BY <2>3
  <2>5. after[n] = To(after[n - 1])
    BY <1>7, <2>1, <2>2
  <2> QED
    BY <1>2, <2>1, <2>4, <2>5
<1> QED
  BY <1>8 DEF Follow

(* The first entries of a direction, and the ones for what articles lack.  *)
LEMMA InitialTyped ==
  ASSUME ScopeTypeOK, NEW d \in Side, NEW p \in ChangedPages, InitialOp(d, p) \notin Refused
  PROVE  InitialEntry(d, p) \in Entry
<1>1. p \in Article
  BY DEF ScopeTypeOK, ChangedPages, FileChange
<1>2. InitialOp(d, p) \in Operation
  BY DEF InitialOp, RenamedOp, Operation, Translating, Resting, Refused
<1>3. FromOf(d, p, InitialOp(d, p)) \in Article
  <2>1. CASE InitialOp(d, p) \in {"rename", "rename_translate"}
    <3>1. RenameOf(d, p) # {}
      BY <2>1 DEF InitialOp
    <3>2. RenameOf(d, p) \subseteq FileChange
      BY DEF ScopeTypeOK, RenameOf, ChangedOn
    <3>3. (CHOOSE c \in RenameOf(d, p) : TRUE) \in RenameOf(d, p)
      BY <3>1
    <3>4. (CHOOSE c \in RenameOf(d, p) : TRUE).from \in Article
      BY <3>2, <3>3 DEF FileChange
    <3> QED
      BY <2>1, <3>4 DEF FromOf
  <2>2. CASE InitialOp(d, p) \notin {"rename", "rename_translate"}
    BY <1>1, <2>2 DEF FromOf
  <2> QED
    BY <2>1, <2>2
<1> QED
  BY <1>1, <1>2, <1>3 DEF InitialEntry, Entry

LEMMA ScopeInitTyped == ScopeInit => ScopeTypeOK /\ redirect \in Redirects
<1> SUFFICES ASSUME ScopeInit PROVE ScopeTypeOK /\ redirect \in Redirects
  OBVIOUS
<1>1. diff \subseteq FileChange /\ link \in [Article -> SUBSET Article]
  BY ScopeAssumption DEF ScopeInit
<1>2. /\ reach \in [Article -> SUBSET ChangedPages] /\ prepared \in [Side -> SUBSET Entry]
      /\ manifest \in [Side -> SUBSET Entry]
      /\ chosen \in [Article -> Side \cup {"unchanged", "no_translation", "complete", "unresolved"}]
  BY DEF ScopeInit
<1> QED
  BY <1>1, <1>2 DEF ScopeInit, ScopeTypeOK, Side, Outcomes

LEMMA TypesOfInput == ASSUME UNCHANGED input PROVE Entry' = Entry /\ ChangedPages' = ChangedPages
BY DEF input, Entry, ChangedPages

(* Discovery, the decision and the manifest.                               *)
LEMMA DecisionTyped ==
  ASSUME ScopeTypeOK, UNCHANGED input,
         \/ Discover \/ Limit \/ Freeze \/ Merge \/ Scanned \/ Spreaded
         \/ \E d \in Side : Frozen(d)
         \/ \E c \in [Article -> Side \cup {"unchanged", "no_translation", "unresolved"}] : Decide(c)
  PROVE  ScopeTypeOK'
<1>0. /\ Entry' = Entry /\ ChangedPages' = ChangedPages /\ UNCHANGED <<diff, tree, link>>
      /\ ChangedPages \subseteq Article
      /\ \A d \in Side : Other[d] \in Side
  BY TypesOfInput, OtherSide DEF input, ScopeTypeOK, ChangedPages, FileChange
<1>1. CASE Discover
  <2>1. Possible \subseteq Side
    BY DEF Possible
  <2> QED
    BY <1>0, <1>1, <2>1 DEF Discover, Stop, ScopeTypeOK, Outcomes
<1>2. CASE Limit
  BY <1>0, <1>2 DEF Limit, Stop, ScopeTypeOK, Outcomes, buildVars
<1>3. CASE Merge \/ Scanned \/ Spreaded
  BY <1>0, <1>3 DEF Merge, Scanned, Spreaded, Stop, ScopeTypeOK, Outcomes, buildVars
<1>4. CASE Freeze
  <2>1. manifest' \in [Side -> SUBSET Entry]
    BY <1>4 DEF Freeze, ScopeTypeOK
  <2>2. pairs' \subseteq Article
    BY <1>4 DEF Freeze, ScopeTypeOK, GroupPairs
  <2>3. scoping' = "done" <=> outcome' # "none"
    BY <1>4 DEF Freeze, ScopeTypeOK, Stop
  <2>4. outcome' \in Outcomes
    BY <1>4 DEF Freeze, ScopeTypeOK, Stop, Outcomes
  <2> QED
    BY <1>0, <1>4, <2>1, <2>2, <2>3, <2>4 DEF Freeze, ScopeTypeOK
<1>5. ASSUME NEW d \in Side, Frozen(d) PROVE ScopeTypeOK'
  <2>1. chosen' \in [Article -> Side \cup {"unchanged", "no_translation", "complete", "unresolved"}]
    BY <1>5 DEF Frozen
  <2>2. entries' \subseteq Entry
    BY <1>5 DEF Frozen, ScopeTypeOK
  <2>3. (scoping' = "done" <=> outcome' # "none") /\ outcome' \in Outcomes
    BY <1>5 DEF Frozen, ScopeTypeOK, Stop, Outcomes
  <2> QED
    BY <1>0, <1>5, <2>1, <2>2, <2>3 DEF Frozen, ScopeTypeOK
<1>6. ASSUME NEW c \in [Article -> Side \cup {"unchanged", "no_translation", "unresolved"}], Decide(c)
      PROVE  ScopeTypeOK'
  <2>1. pairs' \subseteq Article
    BY <1>6 DEF Decide, GroupPairs
  <2>2. /\ (scoping' = "done" <=> outcome' # "none") /\ outcome' \in Outcomes
        /\ pass' \in {"prepare", "group"} /\ todo' \subseteq Side
    BY <1>6 DEF Decide, ScopeTypeOK, Stop, Outcomes
  <2>3. chosen' \in [Article -> Side \cup {"unchanged", "no_translation", "complete", "unresolved"}]
    BY <1>6 DEF Decide
  <2> QED
    BY <1>0, <1>6, <2>1, <2>2, <2>3 DEF Decide, ScopeTypeOK
<1> QED
  BY <1>1, <1>2, <1>3, <1>4, <1>5, <1>6

(* Building a direction.                                                   *)
LEMMA BuildTyped ==
  ASSUME ScopeTypeOK, ScopeInv, UNCHANGED input, NEW d \in Side, Build(d)
  PROVE  ScopeTypeOK'
<1>0. Entry' = Entry /\ ChangedPages' = ChangedPages /\ UNCHANGED <<diff, tree, link>>
  BY TypesOfInput DEF input
<1>1. pairs \subseteq ChangedPages
  <2>1. CASE pass = "prepare"
    BY <2>1 DEF ScopeInv, FlowInv, Build
  <2>2. CASE pass = "group"
    <3>1. pairs = GroupPairs(Ahead, chosen) /\ Ahead \in Side
      BY <2>2 DEF ScopeInv, FlowInv, Build, Ahead, Side
    <3>2. \A p \in pairs : p \in Article /\ chosen[p] \in Sides(p) /\ chosen[p] \in Side
      BY <2>2, <3>1 DEF ScopeInv, FlowInv, GroupPairs
    <3> QED
      BY <3>2, InInput DEF ScopeInv
  <2> QED
    BY <2>1, <2>2 DEF ScopeTypeOK
<1>2. CASE scoping' = "done"
  <2>1. /\ UNCHANGED <<entries, scanned, queue, edges, reach>> /\ outcome' = "ambiguous_or_collision"
        /\ todo' \subseteq Side /\ toward' \in Side
    BY <1>2 DEF Build, Stop, ScopeTypeOK
  <2> QED
    BY <1>0, <1>2, <2>1 DEF Build, ScopeTypeOK, Outcomes
<1>3. CASE scoping' # "done"
  <2>1. /\ \A p \in pairs : InitialOp(d, p) \notin Refused
        /\ entries' = {InitialEntry(d, p) : p \in pairs}
        /\ queue' = Seeds(entries') /\ scanned' = {} /\ edges' = {}
        /\ reach' = [p \in Article |-> IF p \in queue' THEN {p} ELSE {}]
        /\ scoping' = "scan" /\ outcome' = outcome
    BY <1>3 DEF Build, Stop
  <2>2. entries' \subseteq Entry
    BY <1>1, <2>1, InitialTyped
  <2>3. queue' \subseteq pairs
    BY <2>1 DEF Seeds, InitialEntry
  <2>4. reach' \in [Article -> SUBSET ChangedPages]
    BY <1>1, <2>1, <2>3
  <2>5. todo' \subseteq Side /\ toward' \in Side /\ outcome' = "none"
    BY <2>1 DEF Build, ScopeTypeOK
  <2>6. queue' \subseteq Article
    BY <2>3 DEF ScopeTypeOK
  <2> QED
    BY <1>0, <2>1, <2>2, <2>4, <2>5, <2>6 DEF Build, ScopeTypeOK
<1> QED
  BY <1>2, <1>3

LEMMA ScanTyped ==
  ASSUME ScopeTypeOK, ScopeInv, UNCHANGED input,
         (\E p \in Article : Scan(p)) \/ \E e \in edges : Spread(e)
  PROVE  ScopeTypeOK'
<1>0. Entry' = Entry /\ ChangedPages' = ChangedPages /\ UNCHANGED <<diff, tree, link>>
  BY TypesOfInput DEF input
<1>1. ASSUME NEW p \in Article, Scan(p) PROVE ScopeTypeOK'
  <2>1. Lacking(toward, p) \subseteq Article
    BY InInput DEF ScopeInv, ScopeTypeOK
  <2>2. p \in queue /\ scanned' = scanned \cup {p}
    BY <1>1 DEF Scan, Visited
  <2>3. queue' \subseteq Article /\ scanned' \subseteq queue' /\ edges' \subseteq scanned' \X queue'
    <3>1. CASE queue' = queue /\ edges' = edges
      BY <2>2, <3>1 DEF ScopeTypeOK
    <3>2. CASE /\ edges' = edges \cup {<<p, s>> : s \in Lacking(toward, p)}
               /\ queue' = queue \cup Lacking(toward, p)
      BY <2>1, <2>2, <3>2 DEF ScopeTypeOK
    <3> QED
      BY <1>1, <3>1, <3>2 DEF Scan
  <2>4. (scoping' = "done" <=> outcome' # "none") /\ outcome' \in Outcomes
    BY <1>1 DEF Scan, ScopeTypeOK, Stop, Outcomes
  <2> QED
    BY <1>0, <1>1, <2>3, <2>4 DEF Scan, ScopeTypeOK
<1>2. ASSUME NEW e \in edges, Spread(e) PROVE ScopeTypeOK'
  <2>1. e[1] \in Article /\ e[2] \in Article
    BY DEF ScopeTypeOK
  <2>2. reach' \in [Article -> SUBSET ChangedPages]
    BY <1>2, <2>1 DEF Spread, ScopeTypeOK
  <2> QED
    BY <1>0, <1>2, <2>2 DEF Spread, ScopeTypeOK
<1> QED
  BY <1>1, <1>2

LEMMA MeasureTyped ==
  ASSUME ScopeTypeOK, redirect \in Redirects, UNCHANGED input, Measure
  PROVE  ScopeTypeOK'
<1>0. Entry' = Entry /\ ChangedPages' = ChangedPages /\ UNCHANGED <<diff, tree, link>>
  BY TypesOfInput DEF input
<1> DEFINE all == entries \cup {DependencyEntry(p) : p \in Dependencies}
<1>1. \A p \in Dependencies : DependencyEntry(p) \in Entry
  <2> SUFFICES ASSUME NEW p \in Dependencies PROVE DependencyEntry(p) \in Entry
    OBVIOUS
  <2>1. p \in Article
    BY DEF Dependencies, ScopeTypeOK
  <2>2. Follow(Other[toward], p) \in Article
    BY <2>1, FollowStays, OtherSide DEF ScopeTypeOK
  <2> QED
    BY <2>1, <2>2 DEF DependencyEntry, Entry, ScopeTypeOK, Operation, Translating
<1>2. all \subseteq Entry
  BY <1>1 DEF ScopeTypeOK
<1>3. Sizes(all) \subseteq 0..Cardinality(Article)
  <2>1. \A k : Size(k) \in 0..Cardinality(Article)
    <3> SUFFICES ASSUME NEW k PROVE Size(k) \in 0..Cardinality(Article)
      OBVIOUS
    <3> DEFINE S == {p \in Article : k \in reach[p]}
    <3>1. IsFiniteSet(Article) /\ S \subseteq Article
      BY ScopeAssumption
    <3> HIDE DEF S
    <3>2. Cardinality(S) \in Nat /\ Cardinality(Article) \in Nat /\ Cardinality(S) <= Cardinality(Article)
      BY <3>1, FS_Subset, FS_CardinalityType
    <3> QED
      BY <3>2 DEF Size, S
  <2> QED
    BY <2>1 DEF Sizes
<1>4. \/ scoping' = "done" /\ outcome' \in Outcomes \ {"none"} /\ UNCHANGED <<entries, prepared, counts>>
      \/ /\ entries' = all /\ counts' = counts \cup Sizes(all)
         /\ prepared' \in {prepared, [prepared EXCEPT ![toward] = all]}
         /\ scoping' # "done" /\ outcome' = outcome /\ outcome = "none"
  <2> HIDE DEF all
  <2> USE DEF all
  <2> QED
    BY DEF Measure, Stop, Outcomes, ScopeTypeOK
<1>5. prepared' \in [Side -> SUBSET Entry] /\ entries' \subseteq Entry /\ counts' \subseteq 0..Cardinality(Article)
  <2> HIDE DEF all
  <2> QED
    BY <1>2, <1>3, <1>4 DEF ScopeTypeOK
<1>6. (scoping' = "done" <=> outcome' # "none") /\ outcome' \in Outcomes
  <2> HIDE DEF all
  <2> QED
    BY <1>4 DEF Outcomes
<1> QED
  BY <1>0, <1>5, <1>6 DEF Measure, ScopeTypeOK

(* Every state of a scope is well formed: in particular a redirect leads   *)
(* to an article, an edge to one that is read, and a size is one of a set  *)
(* of articles.                                                            *)
THEOREM ScopeTyped == ScopeSpec => []ScopeTypeOK
<1> DEFINE Typed == ScopeTypeOK /\ redirect \in Redirects
<1>1. Typed /\ ScopeInv /\ [ScopeNext]_scopeVars => Typed'
  <2> SUFFICES ASSUME Typed, ScopeInv, [ScopeNext]_scopeVars PROVE Typed'
    OBVIOUS
  <2>1. UNCHANGED input
    BY InputKept
  <2>2. CASE UNCHANGED scopeVars
    BY <2>1, <2>2, TypesOfInput DEF scopeVars, buildVars, input, ScopeTypeOK
  <2>3. CASE ScopeNext
    <3>1. ScopeTypeOK'
      BY <2>1, <2>3, DecisionTyped, BuildTyped, ScanTyped, MeasureTyped DEF ScopeNext
    <3> QED
      BY <2>1, <3>1 DEF input
  <2> QED
    BY <2>2, <2>3
<1> QED
  BY <1>1, ScopeInitTyped, ScopeInvariant, PTL DEF ScopeSpec
=============================================================================
