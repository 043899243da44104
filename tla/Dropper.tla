------------------------------- MODULE Dropper -------------------------------
(***************************************************************************)
(* The dropper the player moves: game::Dropper of src/src/Object.cpp and   *)
(* the Dropper section of src/data/config/planet.ini.  It carries one      *)
(* planet, lets it go when told to, and gets the next one after a wait.    *)
(***************************************************************************)
EXTENDS GameConfig

CONSTANTS
  MinX, MaxX,    \* the playable area
  StartX,        \* the X of the dropper's "Position"
  MaxSpeed,      \* the X of "MaxSpeed"
  MinDropWait    \* the wait between letting a planet go and getting the next

ASSUME DropperAssumption ==
  /\ MinX \in Int /\ MaxX \in Int /\ StartX \in MinX .. MaxX
  /\ MaxSpeed \in Nat
  /\ MinDropWait \in Nat

\* "latest" is the kind of the planet the dropper carries; its object is in Game.
NoPlanet == 0

DropperState == [ x : MinX .. MaxX, first : BOOLEAN, latest : Kind \cup {NoPlanet}, since : Nat ]

NewDropper == [x |-> StartX, first |-> TRUE, latest |-> NoPlanet, since |-> 0]

Direction == {-1, 0, 1}    \* the input "Right" less the input "Left"

\* Mutant: the right edge is not checked.
UpdatePositionHalf(d, dir, dt) ==
  LET x == d.x + MaxSpeed * dir * dt
  IN  [d EXCEPT !.x = IF x < MinX THEN MinX ELSE x]

UpdatePosition(d, dir, dt) ==
  LET x == d.x + MaxSpeed * dir * dt
  IN  [d EXCEPT !.x = IF x < MinX THEN MinX ELSE IF x > MaxX THEN MaxX ELSE x]

DropPlanet(d)      == [d EXCEPT !.latest = NoPlanet]
CreatePlanet(d, k) == [d EXCEPT !.latest = k]

Drops(d, drop) == d.latest # NoPlanet /\ drop

AfterDrop(d, drop) == IF Drops(d, drop) THEN DropPlanet(d) ELSE d

\* Mutant: the wait is checked before the frame's time is counted.
ReadyLate(d, dt) == d.first \/ d.since > MinDropWait

\* Whether the wait is over once this frame's time is counted.
Ready(d, dt) == d.first \/ d.since + dt > MinDropWait

\* Mutants: the waited time is not reset; it is not summed up.
AfterWaitUnreset(d, dt, k) ==
  IF d.latest # NoPlanet THEN d
  ELSE IF Ready(d, dt) THEN CreatePlanet([d EXCEPT !.first = FALSE], k)
  ELSE [d EXCEPT !.since = @ + dt]
AfterWaitUnsummed(d, dt, k) ==
  IF d.latest # NoPlanet THEN d
  ELSE IF Ready(d, dt) THEN CreatePlanet([d EXCEPT !.first = FALSE, !.since = 0], k)
  ELSE [d EXCEPT !.since = dt]

\* The frame's time counts as waited whenever nothing is carried, the frame that
\* lets a planet go included.
AfterWait(d, dt, k) ==
  IF d.latest # NoPlanet THEN d
  ELSE IF Ready(d, dt) THEN CreatePlanet([d EXCEPT !.first = FALSE, !.since = 0], k)
  ELSE [d EXCEPT !.since = @ + dt]

\* Dropper::Update: k is what the random choice from "Drop" would be.
UpdateDropper(d, dt, dir, drop, k) ==
  AfterWait(AfterDrop(UpdatePosition(d, dir, dt), drop), dt, k)
=============================================================================
