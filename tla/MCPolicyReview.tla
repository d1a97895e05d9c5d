--------------------------- MODULE MCPolicyReview ---------------------------
(***************************************************************************)
(* Small instances of PolicyReview: one pull request and two run attempts, *)
(* whose events are chosen by the configuration.                           *)
(***************************************************************************)
EXTENDS PolicyReview

CONSTANTS p1, h1, h2, r1, r2, o1, o2

MCPrOf      == [o \in Owner |-> p1]
MCFirstHead == [p \in PR |-> h1]

(* The same head and request twice.                                        *)
SameHeadOf    == [o \in Owner |-> h1]
SameRequestOf == [o \in Owner |-> r1]

RerunEventOf  == [o \in Owner |-> "opened"]
ClosedEventOf == [o \in Owner |-> IF o = o2 THEN "closed" ELSE "opened"]

=============================================================================
