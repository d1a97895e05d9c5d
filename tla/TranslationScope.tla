--------------------------- MODULE TranslationScope ---------------------------
(***************************************************************************)
(* What a translation covers: scope.py, dependencies.py, locales.py and    *)
(* the Markdown part of translation_plan.py, driven by prepare_source and  *)
(* _select_pairs of runtime_content.py.                                    *)
(*                                                                         *)
(* A page has a Russian and an English file.  For each direction that the  *)
(* pull request allows the scope is built (an operation for every changed  *)
(* page, then the pages their links lead to whose counterpart is missing,  *)
(* then which changed page each of those is needed for), measured against  *)
(* the limits; the pairs are judged; and the scope of each chosen          *)
(* direction is built again for its own pairs and planned.  A verification *)
(* has its direction already and takes the scope that was prepared.        *)
(*                                                                         *)
(* A pull request without a Markdown change has no scope and is left out.  *)
(***************************************************************************)
EXTENDS Integers, FiniteSets

CONSTANTS
  Article,    \* the articles
  Diffs,      \* the pull requests: sets of changes, see FileChange below
  Links,      \* the link graphs: functions from articles to sets of articles
  Redirects,  \* the redirect files: functions from a side to a function on articles
  MaxFiles    \* YDBDOC_MAX_DEPENDENCY_FILES_PER_ARTICLE

Side == {"ru", "en"}
Other == [ru |-> "en", en |-> "ru"]
FileChange == [side : Side, page : Article, kind : {"written", "deleted", "renamed"},
               from : Article, same : BOOLEAN]

ASSUME ScopeAssumption ==
  /\ IsFiniteSet(Article) /\ MaxFiles \in Nat
  /\ \A D \in Diffs : D \subseteq FileChange
  /\ \A l \in Links : l \in [Article -> SUBSET Article]
  /\ \A r \in Redirects : DOMAIN r = Side /\ \A d \in Side : \A p \in DOMAIN r[d] : r[d][p] \in Article

Translating == {"translate", "rename_translate"}
Resting == {"absent", "already", "skip_source", "skip_target"}
Refused == {"ambiguous", "collision"}
Operation == Translating \cup Resting \cup {"delete", "rename"}

VARIABLES
  diff,      \* the changes of the pull request
  tree,      \* the files of each side in the snapshot
  link,      \* the pages an article links to
  redirect,  \* the redirects of each side
  scoping,   \* "discover", "build", "scan", "spread", "measure", "limit", "decide",
             \* "freeze", "merge", "done"
  pass,      \* "prepare" or "group"
  todo,      \* the directions still to build, each by its source side
  toward,    \* the direction being built
  pairs,     \* the pages this scope starts from
  entries,   \* the operations
  scanned,   \* the articles whose links have been read
  queue,     \* the articles to read
  edges,     \* <<article, linked page whose counterpart is missing>>
  reach,     \* the changed pages that an article is needed for
  prepared,  \* the operations and needs found for each direction
  counts,    \* the sizes of the groups of articles measured so far
  chosen,    \* the direction (its source side) or decision of each pair
  manifest,  \* what is to be done, per source side
  outcome    \* "none", "planned", or why there is no plan

input == <<diff, tree, link, redirect>>
buildVars == <<pairs, entries, scanned, queue, edges, reach>>
scopeVars ==
  <<input, scoping, pass, todo, toward, buildVars, prepared, counts, chosen, manifest, outcome>>

ChangedPages == {c.page : c \in diff}
Entry == [page : Article, op : Operation, target : Article, from : Article,
          keys : SUBSET ChangedPages, origin : {"initial", "dependency"}]
Outcomes == {"none", "planned", "no_translation", "undetermined", "conflicting_metadata",
             "ambiguous_or_collision", "bad_link", "target_collision", "counts_within_scope",
             "limit_prepared", "limit_group", "operation_mismatch", "skipped_output"}

(* The state is well formed.                                               *)
ScopeTypeOK ==
  /\ diff \subseteq FileChange /\ tree \in [Side -> SUBSET Article] /\ link \in [Article -> SUBSET Article]
  /\ pass \in {"prepare", "group"} /\ todo \subseteq Side /\ toward \in Side
  /\ pairs \subseteq Article /\ entries \subseteq Entry
  /\ scanned \subseteq queue /\ queue \subseteq Article /\ edges \subseteq scanned \X queue
  /\ reach \in [Article -> SUBSET ChangedPages] /\ prepared \in [Side -> SUBSET Entry]
  /\ counts \subseteq 0..Cardinality(Article)
  /\ chosen \in [Article -> Side \cup {"unchanged", "no_translation", "complete", "unresolved"}]
  /\ manifest \in [Side -> SUBSET Entry] /\ outcome \in Outcomes
  /\ (outcome # "none") <=> (scoping = "done")

-----------------------------------------------------------------------------
(* Every page a change touches; a pull request is read after its own       *)
(* changes have been made.                                                 *)
Paths(c) == {c.page, c.from}
ChangedOn(d) == {c \in diff : c.side = d}
Fits(d) == \A c \in ChangedOn(d) :
  /\ (c.kind = "deleted") = (c.page \notin tree[d])
  /\ c.kind = "renamed" => c.from \notin tree[d]

ScopeInit ==
  /\ diff \in Diffs /\ tree \in [Side -> SUBSET Article] /\ link \in Links
  /\ redirect \in Redirects /\ \A d \in Side : Fits(d)
  /\ scoping = "discover" /\ pass = "prepare" /\ todo = {} /\ toward = "ru"
  /\ pairs = {} /\ entries = {} /\ scanned = {} /\ queue = {} /\ edges = {}
  /\ reach = [p \in Article |-> {}] /\ prepared = [d \in Side |-> {}] /\ counts = {}
  /\ chosen = [p \in Article |-> "unchanged"]
  /\ manifest = [d \in Side |-> {}] /\ outcome = "none"

Stop(why) == scoping' = "done" /\ outcome' = why

(* Two changes of one file, or one page renamed from two.                  *)
Conflict(c, e) ==
  \/ c.side = e.side /\ Paths(c) \cap Paths(e) # {}
  \/ c.side # e.side /\ c.page = e.page /\ c.kind = "renamed" /\ e.kind = "renamed" /\ c.from # e.from

Possible ==
  LET changed == {d \in Side : ChangedOn(d) # {}}
  IN  IF Cardinality(changed) = 1 THEN changed ELSE Side

(* discover_changed_pairs, and the directions worth building.              *)
Discover ==
  /\ scoping = "discover"
  /\ IF \E c, e \in diff : c # e /\ Conflict(c, e)
     THEN Stop("conflicting_metadata") /\ UNCHANGED <<pairs, todo>>
     ELSE /\ pairs' = ChangedPages
          /\ scoping' = "build" /\ todo' = Possible /\ UNCHANGED outcome
  /\ UNCHANGED <<input, pass, toward, entries, scanned, queue, edges, reach, prepared, counts,
                 chosen, manifest>>

-----------------------------------------------------------------------------
(* The operation on the counterpart of a changed page.                     *)
RenamedOp(d, c) ==
  LET t == Other[d]
      counterpart == {e \in ChangedOn(t) : e.page = c.page}
      alike == \E e \in counterpart : e.kind = "renamed" /\ e.from = c.from
  IN  IF c.from \in tree[t]
      THEN IF c.page \in tree[t] THEN "ambiguous"
           ELSE IF counterpart # {} THEN "collision"
           ELSE IF c.same THEN "rename" ELSE "rename_translate"
      ELSE IF c.page \notin tree[t] THEN "translate"
           ELSE IF ~alike THEN "collision"
           ELSE IF c.same THEN "already" ELSE "translate"

RenameOf(d, p) == {c \in ChangedOn(d) : c.page = p /\ c.kind = "renamed"}

InitialOp(d, p) ==
  IF p \in DOMAIN redirect[d] THEN "skip_source"
  ELSE IF p \in DOMAIN redirect[Other[d]] THEN "skip_target"
  ELSE IF p \notin tree[d] THEN IF p \in tree[Other[d]] THEN "delete" ELSE "absent"
  ELSE IF RenameOf(d, p) # {} THEN RenamedOp(d, CHOOSE c \in RenameOf(d, p) : TRUE)
  ELSE "translate"

FromOf(d, p, op) ==
  IF op \in {"rename", "rename_translate"} THEN (CHOOSE c \in RenameOf(d, p) : TRUE).from ELSE p

InitialEntry(d, p) ==
  [page |-> p, op |-> InitialOp(d, p), target |-> p, from |-> FromOf(d, p, InitialOp(d, p)),
   keys |-> {p}, origin |-> "initial"]

Seeds(es) == {e.page : e \in {x \in es : x.origin = "initial" /\ x.op \in Translating}}

(* _build_direction up to the scan, for the next direction of todo.        *)
Build(d) ==
  /\ scoping = "build" /\ d \in todo /\ ("ru" \in todo => d = "ru")
  /\ toward' = d /\ todo' = todo \ {d}
  /\ IF \E p \in pairs : InitialOp(d, p) \in Refused
     THEN Stop("ambiguous_or_collision") /\ UNCHANGED <<entries, scanned, queue, edges, reach>>
     ELSE /\ entries' = {InitialEntry(d, p) : p \in pairs}
          /\ queue' = Seeds(entries') /\ scanned' = {} /\ edges' = {}
          /\ reach' = [p \in Article |-> IF p \in queue' THEN {p} ELSE {}]
          /\ scoping' = "scan" /\ UNCHANGED outcome
  /\ UNCHANGED <<input, pass, pairs, prepared, counts, chosen, manifest>>

-----------------------------------------------------------------------------
(* resolve_redirect: follow the redirects of a side; a page still          *)
(* redirected after as many steps as there are pages is on a cycle.        *)
Follow(d, p) ==
  LET after[n \in 0..Cardinality(Article)] ==
        IF n = 0 THEN p
        ELSE IF after[n - 1] \in DOMAIN redirect[d] THEN redirect[d][after[n - 1]]
        ELSE after[n - 1]
  IN  IF p \in DOMAIN redirect[d] THEN after[Cardinality(Article)] ELSE p
Cyclic(d, p) == Follow(d, p) \in DOMAIN redirect[d]

Destinations(d, p) == {Follow(d, q) : q \in link[p]}
BadLink(d, p) ==
  \/ \E q \in link[p] : Cyclic(d, q)
  \/ \E s \in Destinations(d, p) \cap tree[d] : Cyclic(Other[d], s)
LackingOnce(d, p) ==                 \* faulty: an article met again gives no edge
  {s \in (Destinations(d, p) \cap tree[d]) \ queue : Follow(Other[d], s) \notin tree[Other[d]]}
Lacking(d, p) == {s \in Destinations(d, p) \cap tree[d] : Follow(Other[d], s) \notin tree[Other[d]]}

VisitedLast(p) == {p}               \* faulty: only the last article is remembered
Visited(p) == scanned \cup {p}

Scan(p) ==
  /\ scoping = "scan" /\ p \in queue \ scanned /\ scanned' = Visited(p)
  /\ IF BadLink(toward, p)
     THEN Stop("bad_link") /\ UNCHANGED <<queue, edges>>
     ELSE /\ edges' = edges \cup {<<p, s>> : s \in Lacking(toward, p)}
          /\ queue' = queue \cup Lacking(toward, p) /\ UNCHANGED <<scoping, outcome>>
  /\ UNCHANGED <<input, pass, todo, toward, pairs, entries, reach, prepared, counts, chosen,
                 manifest>>

Scanned ==
  /\ scoping = "scan" /\ queue = scanned /\ scoping' = "spread"
  /\ UNCHANGED <<input, pass, todo, toward, buildVars, prepared, counts, chosen, manifest, outcome>>

(* The loop over the edges, one edge at a time, until nothing changes.     *)
Behind(e) == ~(reach[e[1]] \subseteq reach[e[2]])

Spread(e) ==
  /\ scoping = "spread" /\ e \in edges /\ Behind(e)
  /\ reach' = [reach EXCEPT ![e[2]] = @ \cup reach[e[1]]]
  /\ UNCHANGED <<input, scoping, pass, todo, toward, pairs, entries, scanned, queue, edges,
                 prepared, counts, chosen, manifest, outcome>>

Spreaded ==
  /\ scoping = "spread" /\ (\A e \in edges : ~Behind(e)) /\ scoping' = "measure"
  /\ UNCHANGED <<input, pass, todo, toward, buildVars, prepared, counts, chosen, manifest, outcome>>

-----------------------------------------------------------------------------
Dependencies == {e[2] : e \in edges} \ pairs
DependencyEntryOwn(p) ==             \* faulty: needed for itself
  [page |-> p, op |-> "translate", target |-> Follow(Other[toward], p),
   from |-> Follow(Other[toward], p), keys |-> {p}, origin |-> "dependency"]
DependencyEntry(p) ==
  [page |-> p, op |-> "translate", target |-> Follow(Other[toward], p),
   from |-> Follow(Other[toward], p), keys |-> reach[p], origin |-> "dependency"]

Size(k) == Cardinality({p \in Article : k \in reach[p]})
Sizes(es) == {Size(k) : k \in Seeds(es)}
TranslatingEntries(es) == {e \in es : e.op \in Translating}

(* The end of _build_direction and the checks of what it returns: one      *)
(* entry per target, and no group larger than the whole.                   *)
Measure ==
  /\ scoping = "measure"
  /\ LET all == entries \cup {DependencyEntry(p) : p \in Dependencies}
     IN  IF \E e, f \in all : e # f /\ e.target = f.target
         THEN Stop("target_collision") /\ UNCHANGED <<entries, prepared, counts>>
         ELSE IF \E n \in Sizes(all) : n > Cardinality(TranslatingEntries(all))
         THEN Stop("counts_within_scope") /\ UNCHANGED <<entries, prepared, counts>>
         ELSE /\ entries' = all /\ counts' = counts \cup Sizes(all)
              /\ prepared' = (IF pass = "prepare" THEN [prepared EXCEPT ![toward] = all]
                                                  ELSE prepared)
              /\ scoping' = (IF pass = "prepare" /\ todo # {} THEN "build" ELSE "limit")
              /\ UNCHANGED outcome
  /\ UNCHANGED <<input, pass, todo, toward, pairs, scanned, queue, edges, reach, chosen, manifest>>

(* Limits.check: for all directions together when preparing, and for each  *)
(* group on its own afterwards.                                            *)
AllowedLater(n) == n <= MaxFiles \/ pass = "prepare"   \* faulty: not looked at when preparing
Allowed(n) == n <= MaxFiles

Limit ==
  /\ scoping = "limit" /\ counts' = {}
  /\ IF \E n \in counts : ~Allowed(n)
     THEN Stop(IF pass = "prepare" THEN "limit_prepared" ELSE "limit_group")
     ELSE /\ scoping' = (IF pass = "prepare" THEN "decide" ELSE "freeze") /\ UNCHANGED outcome
  /\ UNCHANGED <<input, pass, todo, toward, buildVars, prepared, chosen, manifest>>

-----------------------------------------------------------------------------
(* A pair of deletions and unchanged renames only is mirrored without      *)
(* asking; the others are judged (PairClassification.tla), and a direction *)
(* is only taken from a side that changed.                                 *)
Sides(p) == {c.side : c \in {x \in diff : x.page = p}}
Structural(p) == \A c \in diff : c.page = p => c.kind = "deleted" \/ (c.kind = "renamed" /\ c.same)
Decisions(p) ==
  IF p \notin ChangedPages THEN {"unchanged"}
  ELSE IF Structural(p) THEN IF Sides(p) = Side THEN {"no_translation"} ELSE Sides(p)
  ELSE Sides(p) \cup {"no_translation", "unresolved"}

GroupPairs(d, c) == {p \in Article : c[p] = d}

(* The groups of _select_pairs; a pair that stays unresolved suspends the  *)
(* job.                                                                    *)
Decide(c) ==
  /\ scoping = "decide" /\ (\A p \in Article : c[p] \in Decisions(p)) /\ chosen' = c
  /\ LET groups == {d \in Side : GroupPairs(d, c) # {}}
     IN  IF \E p \in Article : c[p] = "unresolved" THEN Stop("undetermined") /\ UNCHANGED <<pass, todo>>
         ELSE IF groups = {} THEN Stop("no_translation") /\ UNCHANGED <<pass, todo>>
         ELSE scoping' = "build" /\ pass' = "group" /\ todo' = groups /\ UNCHANGED outcome
  /\ pairs' = GroupPairs(IF GroupPairs("ru", c) # {} THEN "ru" ELSE "en", c)
  /\ UNCHANGED <<input, toward, entries, scanned, queue, edges, reach, prepared, counts,
                 manifest>>

(* Or, when a translation is verified, the direction is known; the pages   *)
(* written on both sides are complete, and the prepared scope is used.     *)
Complete(p) == \A d \in Side : \E c \in ChangedOn(d) : c.page = p /\ c.kind = "written"

Frozen(d) ==
  /\ scoping = "decide" /\ prepared[d] # {}
  /\ chosen' = [p \in Article |-> IF p \notin pairs THEN "unchanged"
                               ELSE IF Complete(p) THEN "complete" ELSE d]
  /\ toward' = d /\ entries' = prepared[d]
  /\ IF \A p \in pairs : Complete(p)
     THEN Stop("no_translation")
     ELSE scoping' = "freeze" /\ UNCHANGED outcome
  /\ UNCHANGED <<input, pass, todo, pairs, scanned, queue, edges, reach, prepared, counts,
                 manifest>>

-----------------------------------------------------------------------------
(* freeze_scope_manifest: the chosen pairs, and the articles they need.    *)
KeptOwn(e) ==                        \* faulty: what the pairs need is dropped
  e.origin = "initial" /\ \E k \in e.keys : chosen[k] = toward
Kept(e) == \E k \in e.keys : chosen[k] = toward

(* build_translation_plan: a row of the pull request and its operation     *)
(* must go together, and a redirected page is refused.  A verification     *)
(* looks only at the rows whose counterparts the translation has changed,  *)
(* which may be any.                                                       *)
Permitted ==
  [written |-> {"translate"}, deleted |-> {"delete", "absent"},
   renamed |-> {"rename", "rename_translate", "already"}]
Mirrored == IF pass = "group" THEN {ChangedOn(toward)} ELSE SUBSET ChangedOn(toward)
Mismatch(rows, es) == \E c \in rows, e \in es :
  e.origin = "initial" /\ e.page = c.page /\ e.op \notin Permitted[c.kind]

Freeze ==
  /\ scoping = "freeze"
  /\ LET kept == {e \in entries : Kept(e)}
     IN  /\ manifest' = [manifest EXCEPT ![toward] = kept]
         /\ \E rows \in Mirrored :
            IF Mismatch(rows, kept)
            THEN Stop("operation_mismatch") /\ UNCHANGED pairs
            ELSE IF todo # {}
            THEN scoping' = "build" /\ pairs' = GroupPairs(Other[toward], chosen) /\ UNCHANGED outcome
            ELSE scoping' = "merge" /\ UNCHANGED <<pairs, outcome>>
  /\ UNCHANGED <<input, pass, todo, toward, entries, scanned, queue, edges, reach,
                 prepared, counts, chosen>>

(* What the plan writes, and removes, on a side.                           *)
On(t) == manifest[Other[t]]
Outputs(t) == UNION {{e.target, e.from} : e \in {x \in On(t) : x.op \notin Resting}}
Skipped == {p \in Article : chosen[p] = "no_translation"}

(* The end of _select_pairs.                                               *)
Merge ==
  /\ scoping = "merge"
  /\ IF \E t \in Side : Outputs(t) \cap Skipped # {} THEN Stop("skipped_output")
                                                      ELSE Stop("planned")
  /\ UNCHANGED <<input, pass, todo, toward, buildVars, prepared, counts, chosen, manifest>>

ScopeNext ==
  \/ Discover \/ Scanned \/ Spreaded \/ Measure \/ Limit \/ Freeze \/ Merge
  \/ \E d \in Side : Build(d) \/ Frozen(d)
  \/ \E p \in Article : Scan(p)
  \/ \E e \in edges : Spread(e)
  \/ \E c \in [Article -> Side \cup {"unchanged", "no_translation", "unresolved"}] : Decide(c)

ScopeSpec == ScopeInit /\ [][ScopeNext]_scopeVars

-----------------------------------------------------------------------------
(* The loop over the edges finds, for every changed article to be          *)
(* translated, exactly the articles that its links lead to through missing *)
(* counterparts: no more, and none forgotten (the frozen group of          *)
(* REQUIREMENTS_RU.md 1.3).                                                *)
Needed(k) ==
  LET closed == {S \in SUBSET Article : k \in S /\ \A p \in S : Lacking(toward, p) \subseteq S}
  IN  {p \in Article : \A S \in closed : p \in S}
ReachIsClosure ==
  scoping = "measure" => \A k \in Seeds(entries) : {p \in Article : k \in reach[p]} = Needed(k)

(* Once a plan has been carried out, a link of a translated article whose  *)
(* source exists leads to a page that exists on the other side; except     *)
(* through a redirect of that side to a page which the same plan removes,  *)
(* for the scan asks the snapshot and not the plan; and except, when a     *)
(* translation is verified, to a changed page that the other side          *)
(* redirects to nothing, for only the rows that have been translated are   *)
(* looked at.                                                              *)
Removed(t) == {e.target : e \in {x \in On(t) : x.op = "delete"}}
              \cup {e.from : e \in {x \in On(t) : x.op \in {"rename", "rename_translate"}}}
Written(t) == {e.target : e \in {x \in On(t) : x.op \in Translating \cup {"rename"}}}
After(t) == (tree[t] \ Removed(t)) \cup Written(t)
PassedOver(t, s) == pass = "prepare" /\ s \in pairs /\ s \in DOMAIN redirect[t]
LinksLand ==
  outcome = "planned" => \A t \in Side : \A e \in TranslatingEntries(On(t)) :
    \A s \in Destinations(Other[t], e.page) \cap tree[Other[t]] :
      \/ Follow(t, s) \in After(t)
      \/ Follow(t, s) # s /\ Follow(t, s) \in Removed(t)
      \/ PassedOver(t, s)

(* A job over the limits is stopped before a model is asked: the groups,   *)
(* built again for the chosen pairs, are never larger than those that were *)
(* measured.                                                               *)
LimitBeforeModels == outcome # "limit_group"

(* The promise of the scope: the right articles, whose links lead on, and  *)
(* no more of them than the limits allow.                                  *)
ScopeIsRight == ReachIsClosure /\ LinksLand /\ LimitBeforeModels

(* No group counts more files than the scope translates: the assertion of  *)
(* DirectionalPotentialScope.                                              *)
CountsWithinScope == outcome # "counts_within_scope"

(* The scope has been found, or the job stopped.                           *)
Planned == scoping = "done"
=============================================================================
