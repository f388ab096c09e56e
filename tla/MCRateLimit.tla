------------------------------ MODULE MCRateLimit ------------------------------
(* A small instance of RateLimit for TLC. *)
EXTENDS RateLimit, TLC

(* Call slots are interchangeable. *)
RateSymmetry == Permutations(Call)
===============================================================================
