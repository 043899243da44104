------------------------------ MODULE MCScroll ------------------------------
(***************************************************************************)
(* Scroll for TLC: planets, of a class bound by their parent section, and  *)
(* a box with a planet as its child, which has no binder but the default   *)
(* one, and none when the engine makes it of itself.                       *)
(***************************************************************************)
EXTENDS ScrollLoop

CONSTANTS Planet, Box, Section, PlanetBinder

MCLineage  == Planet :> <<Planet, Section>> @@ Box :> <<Box>>
MCBoundTo  == Section :> PlanetBinder
MCChild    == Box :> Planet @@ Planet :> NoModel
=============================================================================
