---------------------------- MODULE MCPayrollRun -----------------------------
(* One run, since those of two months share no row, with two employees and *)
(* two requests that overlap.                                              *)
EXTENDS PayrollRun, TLC

\* No operator tells employees or sessions apart. Users are not symmetric:
\* CHOOSE picks one of them for an idle session.
Symmetry == Permutations(Employees) \cup Permutations(Sessions)
=============================================================================
