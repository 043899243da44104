------------------------------- MODULE MCGame -------------------------------
(***************************************************************************)
(* A small game for TLC: two kinds of planets, a dropper that stands still *)
(* and frames of one time unit.                                            *)
(***************************************************************************)
EXTENDS GameScenes

MCPoints == [k \in Kind |-> k]
=============================================================================
