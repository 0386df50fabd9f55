--------------------------- MODULE MCGrantFinance ---------------------------
(* One grant, since the handlers of different grants share no row: its     *)
(* budget, the disbursements and two or three requests that overlap.       *)
EXTENDS GrantFinance, TLC

\* No operator tells two disbursements or two sessions apart. Users are not
\* symmetric: CHOOSE picks one of them for an idle session.
Symmetry == Permutations(Sessions)
=============================================================================
