------------------------------ MODULE SetSums ------------------------------
(* The sum of a function over its domain, and the bounds of two numbers. *)
EXTENDS Integers, FiniteSetsExt

Over(f) == MapThenSumSet(LAMBDA i : f[i], DOMAIN f)
Least(a, b) == IF a < b THEN a ELSE b
Most(a, b) == IF a > b THEN a ELSE b
=============================================================================
