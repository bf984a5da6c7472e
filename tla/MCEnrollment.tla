------------------------------ MODULE MCEnrollment ------------------------------
(* Enrollment for TLC: the domains are interchangeable.                    *)
EXTENDS Enrollment, TLC

Symmetry == Permutations(Domains)
================================================================================
