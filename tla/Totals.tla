------------------------------- MODULE Totals -------------------------------
(***************************************************************************)
(* Sums over accounts.                                                     *)
(***************************************************************************)
EXTENDS FiniteSetsExt

\* The sum of f over its whole domain.
Total(f) == MapThenSumSet(LAMBDA x : f[x], DOMAIN f)
=============================================================================
