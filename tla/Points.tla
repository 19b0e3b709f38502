------------------------------- MODULE Points -------------------------------
(***************************************************************************)
(* Arithmetic on points of charge and on minutes, as the planning modules  *)
(* share it.                                                               *)
(***************************************************************************)
EXTENDS Integers

Lower(a, b)  == IF a <= b THEN a ELSE b
Higher(a, b) == IF a >= b THEN a ELSE b
Apart(a, b)  == Higher(a - b, b - a)
=============================================================================
