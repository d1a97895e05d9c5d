------------------------------- MODULE MCReviews -------------------------------
(***************************************************************************)
(* Three stories of two review runs each, one of them chosen at the start. *)
(*                                                                         *)
(* push: the first run reviews the first head, the second the head that    *)
(* replaces it; their containers may outlive them and nothing fails.       *)
(* rerun: the same head is delivered twice, with two faults.               *)
(* labels: the pull request of an outsider, ok-to-test on one head and     *)
(* doc_review on the next, with one fault.                                 *)
(***************************************************************************)
EXTENDS PolicyReview

CONSTANTS h1, h2, r1, r2

Authors == {"insider", "outsider"}
Runs    == {"insider"} \X {1, 2, 3, 4} \cup {"outsider"} \X {1, 2}

MCPrOf      == [o \in Owner |-> o[1]]
MCFirstHead == [p \in PR |-> h1]
MCHeadOf    == [o \in Owner |-> IF o[2] = 2 THEN h2 ELSE h1]
MCRequestOf == [o \in Owner |-> IF o[2] = 2 THEN r2 ELSE r1]
MCEventOf ==
  [o \in Owner |-> CASE o = <<"insider", 2>>  -> "synchronize"
                     [] o = <<"outsider", 1>> -> "ok-to-test"
                     [] o = <<"outsider", 2>> -> "doc_review"
                     [] OTHER -> "opened"]

RunsOf == [push   |-> {<<"insider", 1>>, <<"insider", 2>>},
           rerun  |-> {<<"insider", 3>>, <<"insider", 4>>},
           labels |-> {<<"outsider", 1>>, <<"outsider", 2>>}]
MCOrphans == RunsOf["push"]
FaultsOf == [push |-> 0, rerun |-> 2, labels |-> 1]

VARIABLE story

ReviewsInit == Init /\ story \in DOMAIN RunsOf
ReviewsNext ==
  /\ UNCHANGED story
  /\ \/ \E p \in {PrOf[o] : o \in RunsOf[story]} : Push(p)
     \/ \E o \in RunsOf[story] :
          Deliver(o) \/ HostStep(o) \/ WorkerStep(o) \/ RecoveryStep(o) \/ Finalize(o) \/ Trouble(o)
  /\ faults' <= FaultsOf[story]
ReviewsSpec == ReviewsInit /\ [][ReviewsNext]_<<vars, story>>
================================================================================
