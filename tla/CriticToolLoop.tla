---------------------------- MODULE CriticToolLoop ----------------------------
(***************************************************************************)
(* The tool session of quality/tool_loop.py over quality/workspace.py, as  *)
(* quality/tool_critic.py runs it for one pair: a model reads and patches  *)
(* a draft in turns until it says finish; what it has patched it must read *)
(* again first.  A session that breaks the protocol is run once more from  *)
(* the original draft.                                                     *)
(*                                                                         *)
(* A line is known by its number in the draft, or is New; fresh says that  *)
(* it was written and has not been shown to the model since.               *)
(***************************************************************************)
EXTENDS Integers, FiniteSets
LOCAL INSTANCE Sequences

CONSTANTS
  DraftLines,       \* lines of the draft
  MaxTurns,    \* max_tool_turns
  MaxLines,    \* bound on what patches may grow the file to
  MaxPatchHunks     \* hunks of a patch

ASSUME ToolLoopAssumption ==
  /\ DraftLines \in Nat /\ MaxTurns \in Nat \ {0}
  /\ MaxLines \in Nat /\ MaxLines >= DraftLines /\ MaxPatchHunks \in {1, 2}

New    == 0
Line   == [text : 0..DraftLines, fresh : BOOLEAN]
Window == {w \in (1..MaxLines + 3) \X (1..MaxLines + 3) : w[1] <= w[2]}
File   == {"target", "source"}

VARIABLES
  lines,     \* the writable file
  unread,   \* ranges to be read again
  turns,     \* turns used in the session
  session,   \* 1 or 2
  shown,     \* has the model read anything since its last patch?
  reviewed,  \* lines that left with the result, <<>> before
  result     \* "none", "ok", "failed" or "aborted"

loopVars == <<lines, unread, turns, session, shown, reviewed, result>>

Original == [n \in 1..DraftLines |-> [text |-> n, fresh |-> FALSE]]

LoopTypeOK ==
  /\ lines \in Seq(Line) /\ Len(lines) <= MaxLines
  /\ unread \subseteq Window
  /\ turns \in 0..MaxTurns /\ session \in 1..2 /\ shown \in BOOLEAN
  /\ reviewed \in Seq(Line) /\ result \in {"none", "ok", "failed", "aborted"}

LoopInit ==
  /\ lines = Original /\ unread = {} /\ turns = 0 /\ session = 1 /\ shown = TRUE
  /\ reviewed = <<>> /\ result = "none"

-----------------------------------------------------------------------------
(* A patch is a sequence of hunks, each found in the lines as the hunks    *)
(* before it left them.  A hunk at offset removes some lines and adds some *)
(* there; one that only adds may name an offset behind the end.            *)
Hunk == [offset : 0..MaxLines + 1, removed : 0..2, added : 0..2]

Located(h, l) ==
  /\ h.removed + h.added > 0
  /\ h.removed > 0 => h.offset + h.removed <= Len(l)

Added(h) == [n \in 1..h.added |-> [text |-> New, fresh |-> TRUE]]

Least(a, b)    == IF a < b THEN a ELSE b
Greatest(a, b) == IF a < b THEN b ELSE a

Spliced(h, l) ==
  SubSeq(l, 1, Least(h.offset, Len(l))) \o Added(h) \o SubSeq(l, h.offset + h.removed + 1, Len(l))

(* Lines added are to be read; of a pure deletion the line before it.      *)
TouchedBelow(h, after) ==                         \* faulty: numbered from zero
  IF h.added > 0 THEN {<<h.offset, h.offset + h.added - 1>>} ELSE {}
Touched(h, after) ==
  CASE h.added > 0                    -> {<<h.offset + 1, h.offset + h.added>>}
    [] h.added = 0 /\ Len(after) > 0  ->
         {<<Least(Greatest(h.offset, 1), Len(after)), Least(Greatest(h.offset, 1), Len(after))>>}
    [] OTHER                          -> {}

(* Ranges that overlap or adjoin are merged.                               *)
Numbers(ranges) == UNION {r[1]..r[2] : r \in ranges}
Merged(ranges) ==
  {r \in Numbers(ranges) \X Numbers(ranges) :
     /\ r[1] <= r[2] /\ r[1]..r[2] \subseteq Numbers(ranges)
     /\ r[1] - 1 \notin Numbers(ranges) /\ r[2] + 1 \notin Numbers(ranges)}

Uncovered(windows, need) == ~\E w \in windows : w[1] <= need[1] /\ w[2] >= need[2]

-----------------------------------------------------------------------------
InSession == result = "none"

(* ProtocolError, ToolError, ValueError: a second session, then no result. *)
CarriedOver == lines' = lines                     \* faulty: the workspace is reused
Restarted == lines' = Original
SessionFails ==
  /\ IF session = 1
     THEN session' = 2 /\ turns' = 0 /\ unread' = {} /\ shown' = TRUE /\ Restarted /\ result' = result
     ELSE result' = "failed" /\ UNCHANGED <<lines, unread, turns, session, shown>>
  /\ UNCHANGED reviewed

(* One more turn, if there is one left and the call may be made now.       *)
Turn(permitted) == InSession /\ turns < MaxTurns /\ permitted
Spend == turns' = turns + 1 /\ UNCHANGED <<session, reviewed, result>>

(* The call to the model fails, or its answer has no call, an unknown one, *)
(* bad arguments, or a patch or a finish among others.                     *)
BadTurn == InSession /\ SessionFails

OutOfTurns == InSession /\ turns = MaxTurns /\ SessionFails

(* What the ports raise (persistence, a moved head) aborts the job.        *)
Infrastructure ==
  /\ InSession /\ result' = "aborted"
  /\ UNCHANGED <<lines, unread, turns, session, shown, reviewed>>

Readable(w, l) == w[2] <= Len(l) \/ (l = <<>> /\ w = <<1, 1>>)

(* A read of a file that has no such line is answered with an error.  The  *)
(* window counts whichever file was read: source files are long enough.    *)
Read(file, w) ==
  /\ Turn(TRUE)
  /\ IF file = "source" \/ Readable(w, lines)
     THEN /\ unread' = {need \in unread : Uncovered({w}, need)}
          /\ lines' = [n \in DOMAIN lines |->
                         IF file = "target" /\ n \in w[1]..w[2]
                         THEN [lines[n] EXCEPT !.fresh = FALSE] ELSE lines[n]]
          /\ shown' = TRUE
     ELSE UNCHANGED <<unread, lines, shown>>
  /\ Spend

(* grep, or a patch that is refused: too large, out of range, read-only.   *)
Look == Turn(unread = {}) /\ Spend /\ UNCHANGED <<lines, unread, shown>>

PatchedLines(hs) == IF Len(hs) = 1 THEN Spliced(hs[1], lines) ELSE Spliced(hs[2], Spliced(hs[1], lines))
TouchedBy(hs) ==
  Merged(Touched(hs[1], Spliced(hs[1], lines)) \cup
         (IF Len(hs) = 1 THEN {} ELSE Touched(hs[2], PatchedLines(hs))))

PatchAccepted(hs) ==
  /\ Turn(unread = {})
  /\ Located(hs[1], lines) /\ (Len(hs) = 2 => Located(hs[2], Spliced(hs[1], lines)))
  /\ Len(PatchedLines(hs)) <= MaxLines
  /\ lines' = PatchedLines(hs) /\ unread' = TouchedBy(hs) /\ shown' = (TouchedBy(hs) = {})
  /\ Spend

(* after_patch: outside the delta of the pull request, or a TOC reference  *)
(* of the target is gone.                                                  *)
PatchForbidden == Turn(unread = {}) /\ SessionFails

(* Anything but a read while a range is unread breaks the protocol.       *)
Hasty == Turn(unread # {}) /\ SessionFails

MayFinishUnread == TRUE                           \* faulty
MayFinish == unread = {}
FinishSession ==
  /\ Turn(MayFinish)
  /\ reviewed' = lines /\ result' = "ok" /\ turns' = turns + 1
  /\ UNCHANGED <<lines, unread, session, shown>>

(* validate_files refuses the finished bytes.                              *)
Invalid == Turn(MayFinish) /\ SessionFails

Patches == {<<h>> : h \in Hunk} \cup (IF MaxPatchHunks = 1 THEN {} ELSE Hunk \X Hunk)

LoopNext ==
  \/ BadTurn \/ OutOfTurns \/ Infrastructure \/ Look \/ PatchForbidden \/ Hasty \/ FinishSession \/ Invalid
  \/ \E f \in File, w \in Window : Read(f, w)
  \/ \E hs \in Patches : PatchAccepted(hs)

LoopSpec == LoopInit /\ [][LoopNext]_loopVars

-----------------------------------------------------------------------------
(* Nothing leaves unread: if a result was ever patched, a read came after  *)
(* the last patch.                                                         *)
ReadBeforeFinish == result = "ok" => shown

(* A session that failed leaves no trace: the second starts from the draft *)
(* as it was, and a failure yields no bytes at all.                        *)
FailureLeavesNothing ==
  /\ result \in {"failed", "aborted"} => reviewed = <<>>
  /\ turns = 0 => lines = Original

(* The promise of a session: bytes that are returned were seen, and bytes  *)
(* of a session that failed are nowhere.                                   *)
SessionIsClean == ReadBeforeFinish /\ FailureLeavesNothing

=============================================================================
