------------------------------ MODULE MCArena ------------------------------
(***************************************************************************)
(* A small arena for TLC: three kinds of planets, of which the dropper     *)
(* offers the first two, and frames of one time unit.                      *)
(***************************************************************************)
EXTENDS Arena

MCPoints == [k \in Kind |-> 2 * k + 1]
=============================================================================
