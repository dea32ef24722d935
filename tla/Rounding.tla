------------------------------- MODULE Rounding -------------------------------
(* What extents and transfers are aligned with, and how many parts cover a whole. *)
EXTENDS Integers

Least(a, b) == IF a < b THEN a ELSE b
Most(a, b) == IF a > b THEN a ELSE b
CeilDiv(a, b) == (a + b - 1) \div b
RoundUp(n, to) == ((n + to - 1) \div to) * to
RoundDown(n, to) == n - (n % to)
================================================================================
