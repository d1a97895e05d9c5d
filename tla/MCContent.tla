------------------------------- MODULE MCContent -------------------------------
(***************************************************************************)
(* Small instances of the content of a translation job, each a scene       *)
(* chosen at the start: a job finds the scope of a translation; it judges  *)
(* a pair of pages; it translates, publishes and reviews a group of pages; *)
(* two jobs talk to the providers.  What belongs to another scene rests.   *)
(***************************************************************************)
EXTENDS TranslationGroup, ModelCalls, PairClassification, TranslationScope

(* A page that includes another, one that moves, a TOC and a deletion.     *)
Pages == {"guide", "setup", "moved", "toc", "asset"}
Kinds == [guide |-> "page", setup |-> "page", moved |-> "moved", toc |-> "toc", asset |-> "dropped"]
AllWays ==
  [guide |-> {"partial", "hunks"}, setup |-> {"same", "new"}, moved |-> {"new"},
   toc |-> {"strings", "structure"}, asset |-> {"delete"}]
Includes == {<<"setup", "guide">>}

(* Of the jobs that talk to the providers, one translates, one verifies.   *)
Modes == <<"translate", "verify">>

VARIABLE
  scene       \* which instance this behaviour is

(* A pair of articles with up to three changes.                            *)
Changes == {<<"ru", 1>>, <<"ru", 2>>, <<"en", 1>>}

contentVars == <<vars, callVars, pairVars, scopeVars, scene>>

(* Articles 1, 2, 3 and up to two changes: article 1 written, 2 deleted,   *)
(* 3 written, deleted, or renamed from 2.  The links are a chain, a cycle, *)
(* or lead from one article to all the others; there is no redirect, one,  *)
(* or two that send a reader round.                                        *)
Edit(d, p, kind, from, same) == [side |-> d, page |-> p, kind |-> kind, from |-> from, same |-> same]
SmallDiffs ==
  LET edits == UNION {{Edit(d, 1, "written", 1, FALSE), Edit(d, 2, "deleted", 2, FALSE),
                       Edit(d, 3, "written", 3, FALSE), Edit(d, 3, "renamed", 2, TRUE),
                       Edit(d, 3, "renamed", 2, FALSE)} : d \in {"ru", "en"}}
  IN  {D \in SUBSET edits : Cardinality(D) \in 1..2}
SmallGraphs == {<<{2}, {3}, {}>>, <<{2}, {3}, {2}>>, <<{2, 3}, {}, {}>>}
SmallRedirects ==
  {[ru |-> <<>>, en |-> e] : e \in {<<>>, [p \in {2} |-> 3], [p \in {2, 3} |-> 5 - p]}}

GroupAtRest ==
  /\ Init
  /\ way = [p \in Page |-> CHOOSE w \in Ways[p] : TRUE]
  /\ base = [p \in Page |-> CHOOSE c \in InBase(p, way[p]) : TRUE]
PairAtRest ==
  /\ changes = {} /\ russian = FALSE /\ pending = <<>> /\ focus = {} /\ phase = "done"
  /\ turn = 1 /\ expanded = FALSE /\ action = "no_translation" /\ technical = FALSE /\ parts = <<>>

ScopeAtRest ==
  /\ diff = {} /\ tree = [d \in {"ru", "en"} |-> {}] /\ link = <<{}, {}, {}>>
  /\ redirect = [d \in {"ru", "en"} |-> <<>>] /\ scoping = "discover" /\ pass = "prepare" /\ todo = {}
  /\ toward = "ru" /\ pairs = {} /\ entries = {} /\ scanned = {} /\ queue = {} /\ edges = {}
  /\ reach = <<{}, {}, {}>> /\ prepared = [d \in {"ru", "en"} |-> {}] /\ counts = {}
  /\ chosen = [p \in 1..3 |-> "unchanged"] /\ manifest = prepared /\ outcome = "none"

ContentInit ==
  /\ scene \in {"scope", "pair", "group", "calls"} /\ CallInit
  /\ IF scene = "group" THEN Init ELSE GroupAtRest
  /\ IF scene = "pair" THEN PairInit ELSE PairAtRest
  /\ IF scene = "scope" THEN ScopeInit ELSE ScopeAtRest

ScopeScene == scene = "scope" /\ UNCHANGED <<vars, callVars, pairVars, scene>>
PairScene  == scene = "pair" /\ UNCHANGED <<vars, callVars, scopeVars, scene>>
GroupScene == scene = "group" /\ UNCHANGED <<callVars, pairVars, scopeVars, scene>>
CallScene  == scene = "calls" /\ UNCHANGED <<vars, pairVars, scopeVars, scene>>

ContentNext ==
  \/ ScopeScene /\ ScopeNext
  \/ PairScene /\ PairNext
  \/ GroupScene /\ Next
  \/ CallScene /\ CallNext

(* The fairness of each specification: a job runs on while its runner      *)
(* does, and a call ends; nobody is obliged to start either.               *)
Working ==
  \/ ScopeScene /\ ScopeNext
  \/ PairScene /\ PairNext
  \/ GroupScene /\ JobStep
ContentSpec ==
  /\ ContentInit /\ [][ContentNext]_contentVars
  /\ WF_contentVars(Working) /\ \A j \in Runner : WF_contentVars(CallScene /\ CallStep(j))

(* Every state is well formed.                                             *)
ContentTypeOK == ScopeTypeOK /\ PairTypeOK /\ TypeOK /\ CallTypeOK

(* Every scope is found or refused, whatever the links and redirects are,  *)
(* every pair is decided, every job that begins ends, every conversation   *)
(* ends, whatever the models and their providers answer.  A job of this    *)
(* instance has one conversation.                                          *)
Busy ==
  \/ scene = "scope" /\ ~Planned
  \/ ~Decided \/ stage # "idle" \/ \E j \in Runner : work[j] \in Talking
WorkEnds == Busy ~> ~Busy
================================================================================
