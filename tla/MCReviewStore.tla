--------------------------- MODULE MCReviewStore ---------------------------
(***************************************************************************)
(* A small instance of ReviewStore: one pull request, the automatic run o1 *)
(* of its first head, the rerun o2 of that run, which carries the same     *)
(* event and so the same request, and the automatic run o3 of a later head.*)
(***************************************************************************)
EXTENDS ReviewStore

CONSTANTS p1, h1, h2, r1, r2, o1, o2, o3

MCPrOf      == [o \in Owner |-> p1]
MCHeadOf    == [o \in Owner |-> IF o = o3 THEN h2 ELSE h1]
MCRequestOf == [o \in Owner |-> IF o = o3 THEN r2 ELSE r1]

=============================================================================
