---------------------------- MODULE DocumentResponse ----------------------------
(***************************************************************************)
(* One hunk of an article before its translator: translation/document.py   *)
(* and the two questions of runtime_content.py.  What must not be          *)
(* translated leaves the text as a numbered token; the answer is accepted  *)
(* when it holds every token once and where it may stand, as far as it can *)
(* be told: what is told of an answer depends on its form.                 *)
(*                                                                         *)
(* A text is a sequence of marks: a token is its number, Word is prose,    *)
(* Cell ends a cell of a table, Gap is blank lines.  Blank lines at either *)
(* end are put back as the source has them, so nothing is told by them.    *)
(***************************************************************************)
EXTENDS Integers, FiniteSets, Sequences
LOCAL INSTANCE SequencesExt

CONSTANTS
  Sources,     \* hunks: sequences of Kind
  MaxMarks     \* marks of an answer

Kind == {"word", "cell", "gap", "code", "span", "open", "close", "owned"}
Word == 0
Cell == -1
Gap  == -2

(* An answer is Markdown; or a JSON object, which is looked at no further; *)
(* or a text the parser fails on, which none should be.                    *)
Form == {"markdown", "object", "unread"}

VARIABLES
  source,    \* the hunk
  answer,    \* the answer ruled on, <<>> while there is none
  form,      \* of that answer
  attempt,   \* 1 or 2
  ruling,    \* "asked", "accepted", "restored" or "failed"
  restored   \* the hunk in the other language: 0 for prose, else the place in the
             \* source of the piece that stands there

responseVars == <<source, answer, form, attempt, ruling, restored>>

-----------------------------------------------------------------------------
(* The request.  Numbers are taken from left to right; a link takes its    *)
(* number where it opens and stands, as the token of its address, where it *)
(* closes.                                                                 *)
Numbered == {"code", "span", "owned", "open"}
NumberAt(s, p) == Cardinality({q \in 1..p : s[q] \in Numbered})
Opening(s, p) == CHOOSE q \in 1..p : s[q] = "open" /\ \A r \in q + 1..p : s[r] # "open"
MarkAt(s, p) ==
  CASE s[p] \in {"code", "span", "owned"} -> NumberAt(s, p)
    [] s[p] = "close" -> NumberAt(s, Opening(s, p))
    [] s[p] = "cell"  -> Cell
    [] s[p] = "gap"   -> Gap
    [] OTHER          -> Word
Chunk(s) == [p \in DOMAIN s |-> MarkAt(s, p)]

IsToken(m) == m > 0
TokensOf(text) == SelectSeq(text, IsToken)
NumbersOf(s, kinds) == {MarkAt(s, p) : p \in {q \in DOMAIN s : s[q] \in kinds}}
Mobile(s) == NumbersOf(s, {"code"})     \* may move within its field
Owned(s)  == NumbersOf(s, {"owned"})    \* HTML and the like, a block of its own

-----------------------------------------------------------------------------
(* How a text parses.  A piece of HTML ends its line: it is a block of its *)
(* own when it begins a line, and else prose of the paragraph, which       *)
(* reaches over its end only when more follows.  Otherwise blocks are      *)
(* parted by blank lines, which are blocks too, and cells of a table by    *)
(* their ends.  A field is a cell, or a block that is no table, with prose *)
(* in it.                                                                  *)
BlockStarts(s, text) ==
  LET begins[p \in DOMAIN text] ==
        /\ text[p] # Gap
        /\ \/ p = 1 \/ text[p - 1] = Gap
           \/ text[p - 1] \in Owned(s) /\ (text[p] \in Owned(s) \/ begins[p - 1])
  IN  {p \in DOMAIN text : begins[p]}
BlankStarts(text) ==
  {p \in DOMAIN text :
     /\ text[p] = Gap /\ p > 1 /\ text[p - 1] # Gap
     /\ \E q \in p..Len(text) : text[q] # Gap}
PlaceIn(starts, p) == Cardinality({q \in starts : q <= p})
BlockOf(s, text, p) == PlaceIn(BlockStarts(s, text) \cup BlankStarts(text), p)

SegmentStarts(s, text) ==
  BlockStarts(s, text) \cup {p \in DOMAIN text : p > 1 /\ text[p - 1] = Cell /\ text[p] \notin {Gap, Cell}}
FieldStarts(s, text) ==
  LET segments == SegmentStarts(s, text)
  IN  {p \in segments :
         \E q \in p..Len(text) :
           /\ text[q] = Word \/ (text[q] \in Owned(s) /\ q # p)
           /\ segments \cap (p + 1..q) = {}}
LastOfBlock(s, text, p) == p = Len(text) \/ text[p + 1] = Gap \/ p + 1 \in BlockStarts(s, text)
(* 0 when the mark is in no field.                                         *)
FieldOf(s, text, p) ==
  LET segments == SegmentStarts(s, text)
      own == CHOOSE q \in segments : q <= p /\ segments \cap (q + 1..p) = {}
  IN  IF own \in FieldStarts(s, text) /\ (text[p] \in Owned(s) => ~LastOfBlock(s, text, p))
      THEN PlaceIn(FieldStarts(s, text), own)
      ELSE 0

At(text, t) == CHOOSE p \in DOMAIN text : text[p] = t
Numbers(text) == {text[p] : p \in {q \in DOMAIN text : IsToken(text[q])}}
Owners(s, text) ==
  [t \in Numbers(text) |-> <<BlockOf(s, text, At(text, t)), FieldOf(s, text, At(text, t))>>]
BlockCount(s, text) == Cardinality(BlockStarts(s, text) \cup BlankStarts(text))
BlockMasks(s, text) ==
  LET starts == BlockStarts(s, text)
  IN  [b \in 1..Cardinality(starts) |-> {t \in Numbers(text) : PlaceIn(starts, At(text, t)) = b}]
FieldMasks(s, text) ==
  [f \in 1..Cardinality(FieldStarts(s, text)) |-> {t \in Numbers(text) : FieldOf(s, text, At(text, t)) = f}]

-----------------------------------------------------------------------------
(* May one text's regions be the other's with neighbours put together?     *)
ReachableByNone(many, starts, expected) ==     \* faulty: a run may be empty
  {end \in 0..Len(many) :
     \E start \in starts : start <= end /\ UNION {many[k] : k \in start + 1..end} = expected}
Reachable(many, starts, expected) ==
  {end \in 1..Len(many) :
     \E start \in starts : start < end /\ UNION {many[k] : k \in start + 1..end} = expected}
MergedMatch(many, few) ==
  Len(many) \in FoldLeft(LAMBDA starts, expected : Reachable(many, starts, expected), {0}, few)
Compatible(ours, theirs) ==
  CASE Len(ours) = Len(theirs) -> ours = theirs
    [] Len(ours) > Len(theirs) -> MergedMatch(ours, theirs)
    [] OTHER                   -> MergedMatch(theirs, ours)

(* validate_chunk_response; differences of form, such as the shape of a    *)
(* table, are let through.                                                 *)
SameTokensAtLeast(s, text) == Numbers(text) = Numbers(Chunk(s))     \* faulty: not counted
SameTokens(s, text) ==
  /\ Len(TokensOf(text)) = Len(TokensOf(Chunk(s)))
  /\ Numbers(text) = Numbers(Chunk(s))
SameOrder(s, text) ==
  LET Fixed(t) == t \notin Mobile(s)
  IN  SelectSeq(TokensOf(text), Fixed) = SelectSeq(TokensOf(Chunk(s)), Fixed)
SamePlacesIfCounted(s, text) ==     \* faulty: other numbers of blocks pass
  BlockCount(s, text) = BlockCount(s, Chunk(s)) => Owners(s, text) = Owners(s, Chunk(s))
SamePlaces(s, text) ==
  IF BlockCount(s, text) = BlockCount(s, Chunk(s))
  THEN Owners(s, text) = Owners(s, Chunk(s))
  ELSE /\ Compatible(BlockMasks(s, Chunk(s)), BlockMasks(s, text))
       /\ Compatible(FieldMasks(s, Chunk(s)), FieldMasks(s, text))
Fits(s, text) == SameTokens(s, text) /\ SameOrder(s, text) /\ SamePlaces(s, text)

(* Not refused.  "structure_mismatch" is no refusal, whatever it left      *)
(* unlooked at: of an object all of it, of a text not parsed the places.   *)
Passes(s, f, text) ==
  CASE f = "markdown" -> Fits(s, text)
    [] f = "unread"   -> SameTokens(s, text) /\ SameOrder(s, text)
    [] f = "object"   -> TRUE

-----------------------------------------------------------------------------
(* Answers of n marks; no table where the source has none, and nothing but *)
(* prose and tokens in the values of an object.                            *)
Answers(s, f, n) ==
  LET separators == IF "cell" \in ToSet(s) THEN {Cell, Gap} ELSE {Gap}
  IN  [1..n -> Numbers(Chunk(s)) \cup {Word} \cup (IF f = "object" THEN {} ELSE separators)]

ResponseTypeOK ==
  /\ source \in Sources /\ Len(answer) <= MaxMarks /\ form \in Form
  /\ answer \in Answers(source, form, Len(answer))
  /\ attempt \in {1, 2} /\ ruling \in {"asked", "accepted", "restored", "failed"}
  /\ Len(restored) \in {0, Len(answer)} /\ ToSet(restored) \subseteq 0..Len(source)

ResponseInit ==
  /\ source \in Sources /\ answer = <<>> /\ form = "markdown" /\ attempt = 1 /\ ruling = "asked" /\ restored = <<>>

(* A first answer that does not fit is asked for again.                    *)
RefuseAgain(f, text) == attempt' = attempt + 1 /\ UNCHANGED <<answer, form, ruling>>   \* faulty: no end
Refuse(f, text) ==
  IF attempt = 1
  THEN attempt' = 2 /\ UNCHANGED <<answer, form, ruling>>
  ELSE ruling' = "failed" /\ answer' = text /\ form' = f /\ UNCHANGED attempt

(* A call that brings nothing ends the hunk at once.                       *)
CallFails ==
  ruling = "asked" /\ ruling' = "failed" /\ UNCHANGED <<source, answer, form, attempt, restored>>

(* The map of segments that was asked for in older builds.                 *)
AnswersMap == ruling = "asked" /\ Refuse("markdown", <<>>) /\ UNCHANGED <<source, restored>>

(* Any other answer; source prose left in it is asked about once and then  *)
(* let by.                                                                 *)
AnswersText ==
  /\ ruling = "asked"
  /\ \E n \in 1..MaxMarks, echo \in BOOLEAN, f \in Form : \E text \in Answers(source, f, n) :
       IF Passes(source, f, text) /\ (echo => attempt = 2)
       THEN answer' = text /\ form' = f /\ ruling' = "accepted" /\ UNCHANGED attempt
       ELSE Refuse(f, text)
  /\ UNCHANGED <<source, restored>>

(* The tokens give way to the pieces they stand for, once the answer has   *)
(* been looked at again, in the same way, and its tokens been counted.     *)
MayRestoreUncounted(s, f, text) == Passes(s, f, text)     \* faulty: not counted
MayRestore(s, f, text) == Passes(s, f, text) /\ SameTokens(s, text)
Piece(s, m) == IF IsToken(m) THEN CHOOSE p \in DOMAIN s : s[p] # "open" /\ MarkAt(s, p) = m ELSE 0
Restore ==
  /\ ruling = "accepted"
  /\ IF MayRestore(source, form, answer)
     THEN /\ ruling' = "restored"
          /\ restored' = [p \in DOMAIN answer |-> Piece(source, answer[p])]
     ELSE ruling' = "failed" /\ UNCHANGED restored
  /\ UNCHANGED <<source, answer, form, attempt>>

ResponseNext == CallFails \/ AnswersMap \/ AnswersText \/ Restore

-----------------------------------------------------------------------------
(* The search of _merged_block_masks_match finds a grouping exactly when   *)
(* there is one: cuts of the longer list into as many runs of neighbours   *)
(* as the shorter has entries, each run holding what its entry holds.      *)
Grouped(many, few) ==
  \E cut \in [0..Len(few) -> 0..Len(many)] :
    /\ cut[0] = 0 /\ cut[Len(few)] = Len(many)
    /\ \A k \in 1..Len(few) :
         cut[k - 1] < cut[k] /\ few[k] = UNION {many[n] : n \in cut[k - 1] + 1..cut[k]}
MergesAreGroupings ==
  SameTokens(source, answer) =>
    LET ours == BlockMasks(source, Chunk(source))
        theirs == BlockMasks(source, answer)
    IN  Compatible(ours, theirs) <=>
          \/ Len(ours) >= Len(theirs) /\ Grouped(ours, theirs)
          \/ Len(ours) < Len(theirs) /\ Grouped(theirs, ours)

(* A restored hunk holds every piece that was not to be translated once,   *)
(* whatever the form of the answer was; and those that may not move in the *)
(* order of the source, unless it was an object.                           *)
Kept == {p \in DOMAIN source : source[p] \in {"code", "span", "close", "owned"}}
PiecesKept ==
  ruling = "restored" =>
    /\ \A p \in Kept : Cardinality({n \in DOMAIN restored : restored[n] = p}) = 1
    /\ form # "object" =>
         \A m, n \in DOMAIN restored :
           m < n /\ restored[m] # 0 /\ restored[n] # 0 /\ "code" \notin {source[restored[m]], source[restored[n]]}
             => restored[m] < restored[n]

(* An accepted Markdown answer may part blocks or join them, never both,   *)
(* and no token gets before one of an earlier block.                       *)
NothingCrosses ==
  ruling \in {"accepted", "restored"} /\ form = "markdown" =>
    LET ours == BlockStarts(source, Chunk(source))
        theirs == BlockStarts(source, answer)
        Was(t) == PlaceIn(ours, At(Chunk(source), t))
        Is(t) == PlaceIn(theirs, At(answer, t))
    IN  \A t, u \in Numbers(answer) :
          Was(t) < Was(u) =>
            /\ Is(t) <= Is(u)
            /\ Cardinality(theirs) >= Cardinality(ours) => Is(t) # Is(u)

(* The promise of the acceptance: nothing that is not to be translated is  *)
(* lost or doubled in a page; what stood in order stays in order, but for  *)
(* an answer that is an object; and where the answer is Markdown, it       *)
(* stays where it was.                                                     *)
AnswerFits == MergesAreGroupings /\ PiecesKept /\ NothingCrosses

================================================================================
