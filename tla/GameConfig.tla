----------------------------- MODULE GameConfig -----------------------------
(***************************************************************************)
(* What src/data/config/planet.ini gives the game's classes: the chain of  *)
(* planets and the planets the dropper offers.  A time is a number of time *)
(* units; the length of a frame is one of FrameTimes.                      *)
(***************************************************************************)
EXTENDS Integers, FiniteSets

CONSTANTS
  LastKind,     \* Planet1 .. Planet<LastKind>: the last one has "Stay" and no "Next"
  DropKinds,    \* the kinds the Dropper's "Drop" list offers
  FrameTimes    \* the lengths a frame may have

Kind == 1 .. LastKind

ASSUME ConfigAssumption ==
  /\ LastKind \in Nat \ {0}
  /\ DropKinds \subseteq Kind
  /\ FrameTimes \subseteq Nat \ {0}
=============================================================================
