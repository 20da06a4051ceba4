------------------------------ MODULE Summation ------------------------------
(***************************************************************************)
(* The sum of the values of a function with a finite domain: what the      *)
(* report modules use for sum() and for running totals of the views.       *)
(***************************************************************************)
EXTENDS Integers, FiniteSetsExt

SumOf(amounts) == MapThenSumSet(LAMBDA x : amounts[x], DOMAIN amounts)
=============================================================================
