------------------------------- MODULE TocDelta -------------------------------
(***************************************************************************)
(* apply_toc_delta of toc_delta.py: what a pull request did to a source    *)
(* table of contents, done to the target one, which differs from it in     *)
(* language and may have entries, groups and an order of its own.          *)
(*                                                                         *)
(* An entry is a page, known by its href, or a group, known by its title;  *)
(* groups hold pages.  Of the visible strings one, the label, is kept; of  *)
(* the root nothing but its entries.                                       *)
(***************************************************************************)
EXTENDS Integers, Sequences, SequencesExt, FiniteSetsExt

CONSTANTS
  SourceToc,   \* tables of contents of the source locale
  TargetToc,   \* and of the target locale
  Translation  \* [source label -> target label]

Page(h, l)      == [href |-> h, label |-> l, items |-> <<>>, group |-> FALSE]
Group(l, pages) == [href |-> "none", label |-> l, items |-> pages, group |-> TRUE]
NoEntry         == Page("none", "none")

VARIABLES
  before, after,  \* the source TOC on both sides of the pull request
  target,         \* the target TOC
  hash,           \* does the set of deleted entries come in their order?
  result,         \* "none", "unsupported", or "applied"
  output          \* the TOC applied

tocVars == <<before, after, target, hash, result, output>>

-----------------------------------------------------------------------------
Identity(e) == IF e.group THEN <<"group", e.label>> ELSE <<"page", e.href>>
Entries(toc) == ToSet(toc)
Identities(toc) == {Identity(e) : e \in Entries(toc)}
Find(toc, id) ==
  IF id \in Identities(toc) THEN CHOOSE e \in Entries(toc) : Identity(e) = id ELSE NoEntry

(* _subtree_keys: the pages of an entry.                                   *)
Hrefs(e) == IF e.group THEN {c.href : c \in Entries(e.items)} ELSE {e.href}
AllHrefs(toc) == UNION {Hrefs(e) : e \in Entries(toc)}

(* _index refuses a level that has an identity twice.                      *)
Distinct(toc) == \A m, n \in DOMAIN toc : Identity(toc[m]) = Identity(toc[n]) => m = n
Indexable(toc) == Distinct(toc) /\ \A e \in Entries(toc) : Distinct(e.items)

(* _match_rename: a page that went and one that came with the same body,   *)
(* in the order of the two TOCs.                                           *)
Gone(b, a) == SelectSeq(b, LAMBDA e : Identity(e) \notin Identities(a))
Come(b, a) == SelectSeq(a, LAMBDA e : Identity(e) \notin Identities(b))
RenamedTo(b, a) ==
  LET Match(pairs, old) ==
        LET free == SelectSeq(Come(b, a), LAMBDA e :
                      ~e.group /\ e.label = old.label /\ \A p \in pairs : p[2] # Identity(e))
        IN  IF old.group \/ free = <<>> THEN pairs
            ELSE pairs \cup {<<Identity(old), Identity(Head(free))>>}
  IN  FoldLeft(Match, {}, Gone(b, a))

(* The identity an entry of the new TOC had before.                        *)
Former(renames, id) ==
  IF \E p \in renames : p[2] = id THEN (CHOOSE p \in renames : p[2] = id)[1] ELSE id

-----------------------------------------------------------------------------
(* Deletions.  A group that is to go keeps the pages only the target has.  *)
Slot(e) == [entry |-> e, live |-> TRUE, used |-> FALSE]
NoSlot  == [Slot(NoEntry) EXCEPT !.live = FALSE]

PrunedWhole(e, hrefs) == NoSlot                    \* faulty: the target's own pages go too
Pruned(e, hrefs) ==
  LET kept == SelectSeq(e.items, LAMBDA c : c.href \notin hrefs)
  IN  IF Hrefs(e) \subseteq hrefs THEN NoSlot ELSE Slot([e EXCEPT !.items = kept])

Deleted(b, a) ==
  LET renames == RenamedTo(b, a)
      gone    == SelectSeq(Gone(b, a), LAMBDA e : \A p \in renames : p[1] # Identity(e))
  IN  IF hash THEN gone ELSE Reverse(gone)

AfterDeletionByTitle(b, a, e) ==                   \* faulty: a localized group stays
  IF Identity(e) \in Identities(Deleted(b, a)) THEN Pruned(e, Hrefs(Find(Deleted(b, a), Identity(e))))
  ELSE Slot(e)

(* A target entry is deleted by its identity, or, when it is a localized   *)
(* group, by the first deleted entry it shares a page with.                *)
AfterDeletion(b, a, e) ==
  LET deleted == Deleted(b, a)
      Meets(d) == Hrefs(d) \cap Hrefs(e) # {} /\ Hrefs(d) \cap AllHrefs(a) = {}
      first == SelectSeq(deleted, Meets)
  IN  IF Identity(e) \in Identities(deleted)
      THEN LET d == Find(deleted, Identity(e))
           IN  IF Hrefs(d) = {} THEN NoSlot ELSE Pruned(e, Hrefs(d))
      ELSE IF first = <<>> \/ \E p \in RenamedTo(b, a) : p[1] = Identity(e)
           THEN Slot(e) ELSE Pruned(e, Hrefs(Head(first)))

-----------------------------------------------------------------------------
(* Matching a source entry to one of the target, by index; 0 is none.      *)
First(indexes) == IF indexes = {} THEN 0 ELSE CHOOSE m \in indexes : \A n \in indexes : m <= n
Overlap(x, y)  == Cardinality(Hrefs(x) \cap Hrefs(y))

MatchingByTitle(new, old, toc, free) ==            \* faulty: groups by their title
  First({n \in free : Identity(toc[n]) \in {Identity(new), Identity(old)}})

(* _find_target_entry: a page by identity, a group by the pages it shares. *)
Matching(new, old, toc, free) ==
  LET Same(id) == {n \in free : Identity(toc[n]) = id}
      Shared(n) == Overlap(IF old = NoEntry THEN new ELSE old, toc[n])
      groups   == {n \in free : toc[n].group /\ Shared(n) > 0}
  IN  IF new.group THEN First({n \in groups : \A m \in groups : Shared(m) <= Shared(n)})
      ELSE IF Same(Identity(new)) # {} \/ old = NoEntry THEN First(Same(Identity(new)))
      ELSE First(Same(Identity(old)))

Live(slots) == LET live == SelectSeq(slots, LAMBDA s : s.live)
               IN  [n \in DOMAIN live |-> live[n].entry]

(* The first slot not used yet that has the identity matched, or that of   *)
(* the entry before or after the change.                                   *)
SlotOf(slots, new, old, former) ==
  LET toc     == Live(slots)
      matched == Matching(new, old, toc, DOMAIN toc)
  IN  IF matched = 0 THEN 0
      ELSE First({n \in DOMAIN slots :
                    /\ slots[n].live /\ ~slots[n].used
                    /\ Identity(slots[n].entry) \in {Identity(toc[matched]), former, Identity(new)}})

(* _neighbor_insert_index: behind the nearest earlier neighbour, or last.  *)
Place(slots, a, position, renames) ==
  LET At(p) == {n \in DOMAIN slots :
                  /\ slots[n].live
                  /\ Identity(slots[n].entry) \in {Identity(a[p]), Former(renames, Identity(a[p]))}}
      near  == {p \in 1..position - 1 : At(p) # {}}
  IN  IF near = {} THEN Len(slots) + 1
      ELSE 1 + First(At(CHOOSE p \in near : \A q \in near : q <= p))

(* A slot put in at n takes the mark of the slot it displaces.             *)
Inserted(slots, n, e) ==
  LET put == InsertAt(slots, n, [Slot(e) EXCEPT !.used = TRUE])
  IN  [m \in DOMAIN put |-> IF m = n + 1 THEN [put[m] EXCEPT !.used = FALSE] ELSE put[m]]

MovedTo(slots, m, n) ==
  IF n \in {m, m + 1} THEN slots
  ELSE InsertAt(RemoveAt(slots, m), IF n > m THEN n - 1 ELSE n, slots[m])
MovedIndex(m, n) == IF n \in {m, m + 1} THEN m ELSE IF n > m THEN n - 1 ELSE n

-----------------------------------------------------------------------------
(* _apply_items: one level, and the levels below it.                       *)
RECURSIVE Applied(_, _, _)

NewLabel(new, old, present) ==
  IF old # NoEntry /\ old.label = new.label THEN present.label ELSE Translation[new.label]

Edited(new, old, present) ==
  [href  |-> new.href, group |-> new.group, label |-> NewLabel(new, old, present),
   items |-> IF new.group THEN Applied(old.items, new.items, present.items) ELSE <<>>]

CreatedBare(new, old) == [new EXCEPT !.label = Translation[@], !.items = <<>>]  \* faulty: no pages
Created(new, old) ==
  [new EXCEPT !.label = Translation[@], !.items = IF new.group THEN Applied(old.items, @, <<>>) ELSE @]

Reordered(b, a, toc, renames) ==
  LET Take(taken, new) ==
        LET free     == DOMAIN toc \ ToSet(taken)
            Latest(id) == Max({0} \cup {n \in DOMAIN toc : Identity(toc[n]) = id})
            own      == IF Latest(Identity(new)) # 0 THEN Latest(Identity(new))
                        ELSE Latest(Former(renames, Identity(new)))
            index    == IF own \in free THEN own
                        ELSE Matching(new, Find(b, Former(renames, Identity(new))), toc, free)
        IN  IF index = 0 THEN taken ELSE Append(taken, index)
      taken == FoldLeft(Take, <<>>, a)
      order == taken \o SetToSortSeq(DOMAIN toc \ ToSet(taken), <)
  IN  [n \in DOMAIN order |-> toc[order[n]]]

Applied(b, a, t) ==
  LET renames == RenamedTo(b, a)
      Step(slots, position) ==
        LET new    == a[position]
            former == Former(renames, Identity(new))
            old    == Find(b, former)
            index  == SlotOf(slots, new, old, former)
            place  == Place(slots, a, position, renames)
            moved  == IF old = NoEntry THEN MovedTo(slots, index, place) ELSE slots
            at     == IF old = NoEntry THEN MovedIndex(index, place) ELSE index
        IN  CASE index # 0 -> [moved EXCEPT ![at] =
                                 [Slot(Edited(new, old, moved[at].entry)) EXCEPT !.used = TRUE]]
              [] index = 0 /\ old = new -> slots
              [] OTHER -> Inserted(slots, place, Created(new, old))
      start  == [n \in DOMAIN t |-> AfterDeletion(b, a, t[n])]
      toc    == Live(FoldLeft(Step, start, [p \in DOMAIN a |-> p]))
      shared == SelectSeq([p \in DOMAIN a |-> Former(renames, Identity(a[p]))],
                          LAMBDA id : id \in Identities(b))
  IN  IF shared = [p \in DOMAIN b |-> Identity(b[p])] THEN toc ELSE Reordered(b, a, toc, renames)

(* _prune_new_target_items: a target TOC that did not exist gets only what *)
(* the pull request changed.                                               *)
RECURSIVE Scaffold(_, _)
Scaffold(b, a) ==
  LET Former1(e) == Find(b, Former(RenamedTo(b, a), Identity(e)))
      Made(e)    == [e EXCEPT !.label = Translation[@], !.items = Scaffold(Former1(e).items, @)]
      Wanted(e)  == e # Former1(e) /\ ~(Former1(e).group /\ Made(e).items = <<>>)
      wanted     == SelectSeq(a, Wanted)
  IN  [n \in DOMAIN wanted |-> Made(wanted[n])]

-----------------------------------------------------------------------------
Absent == <<NoEntry>>      \* there is no target TOC

TocInit ==
  /\ before \in SourceToc /\ after \in SourceToc /\ target \in TargetToc \cup {Absent}
  /\ hash \in BOOLEAN /\ result = "none" /\ output = <<>>

Outcome ==
  IF before = after THEN target
  ELSE IF target # Absent THEN Applied(before, after, target)
  ELSE IF Scaffold(before, after) = <<>> THEN Absent ELSE Scaffold(before, after)

ApplyDelta ==
  /\ result = "none"
  /\ IF before = after \/ (Indexable(before) /\ Indexable(after))
     THEN result' = "applied" /\ output' = Outcome
     ELSE result' = "unsupported" /\ output' = output
  /\ UNCHANGED <<before, after, target, hash>>

TocSpec == TocInit /\ [][ApplyDelta]_tocVars

-----------------------------------------------------------------------------
Here(toc) == IF toc = Absent THEN {} ELSE AllHrefs(toc)
PagesOf(toc) == FlattenSeq([n \in DOMAIN toc |-> IF toc[n].group THEN toc[n].items ELSE <<toc[n]>>])
Proper(toc) == \A m, n \in DOMAIN PagesOf(toc) : PagesOf(toc)[m].href = PagesOf(toc)[n].href => m = n
Changed == result = "applied" /\ before # after /\ Proper(before) /\ Proper(after)

(* The two trees have the same shape: no page the source has outside of a  *)
(* group is inside one in the target, or the other way round.              *)
Outside(toc) == Here(SelectSeq(toc, LAMBDA e : ~e.group))
Inside(toc)  == Here(toc) \ Outside(toc)
Parallel ==
  /\ target # Absent /\ Proper(target)
  /\ (Outside(before) \cup Outside(after)) \cap Inside(target) = {}
  /\ (Inside(before) \cup Inside(after)) \cap Outside(target) = {}

(* A page was renamed into one the target already has; a page went into a  *)
(* group or left one.                                                      *)
Collides == \E p \in RenamedTo(before, after) : p[2][2] \in Here(target)
Moves    == Outside(before) \cap Inside(after) # {} \/ Inside(before) \cap Outside(after) # {}

(* What only the target has keeps its entry (REQUIREMENTS 3.1), whatever   *)
(* goes around it: a group deleted by the pull request stays for the pages *)
(* the source never had, in every shape of the two trees.                  *)
OwnEntriesKept ==
  Changed => Here(target) \ (AllHrefs(before) \cup AllHrefs(after)) \subseteq Here(output)

(* A page the pull request adds is in the target TOC afterwards, also when *)
(* its group, its neighbours or the whole TOC was not there.               *)
AdditionsArrive ==
  Changed => AllHrefs(after) \ AllHrefs(before) \subseteq Here(output)

(* A page taken out of the source TOC is out of the target one, wherever   *)
(* the trees have the same shape, no renaming collides and no page moves   *)
(* between levels.                                                         *)
DeletionsLeave ==
  Changed /\ Parallel /\ ~Collides /\ ~Moves =>
    (AllHrefs(before) \ AllHrefs(after)) \cap Here(output) = {}

(* "The same resulting href is updated, not duplicated" (REQUIREMENTS 3.2): *)
(* so it is wherever no renaming collides, whatever groups share.          *)
NoneTwice == Changed /\ Parallel /\ ~Collides => Proper(output)

(* The promise of the delta: the pages of the pull request come and go in  *)
(* the target TOC, once each, and those of the target stay.                *)
TocFollows == OwnEntriesKept /\ AdditionsArrive /\ DeletionsLeave /\ NoneTwice

=============================================================================
