------------------------------ MODULE Dropping ------------------------------
(***************************************************************************)
(* The dropper in a running game: one Update a frame, with any input.      *)
(***************************************************************************)
EXTENDS Dropper

VARIABLES
  dropper,   \* DropperState
  dropped,   \* history: the last frame let a planet go
  dropTime,  \* history: the length of the frame of the last drop, 0 before it
  elapsed    \* history: the time since that frame, counted up to beyond MinDropWait

dropVars == <<dropper, dropped, dropTime, elapsed>>

\* Counting stops just beyond MinDropWait: longer is as good as that.
Count(t) == IF t > MinDropWait THEN MinDropWait + 1 ELSE t

DropTypeOK ==
  /\ dropper \in DropperState
  /\ dropped \in BOOLEAN
  /\ dropTime \in FrameTimes \cup {0}
  /\ elapsed \in Nat

DropInit ==
  /\ dropper = NewDropper
  /\ dropped = FALSE
  /\ dropTime = 0
  /\ elapsed = 0

Update(dt, dir, drop, k) ==
  /\ dropper' = UpdateDropper(dropper, dt, dir, drop, k)
  /\ dropped' = Drops(dropper, drop)
  /\ dropTime' = IF dropped' THEN dt ELSE dropTime
  /\ elapsed' = IF dropped' THEN 0 ELSE Count(elapsed + dt)

DropNext ==
  \E dt \in FrameTimes, dir \in Direction, drop \in BOOLEAN, k \in DropKinds :
    Update(dt, dir, drop, k)

DropSpec     == DropInit /\ [][DropNext]_dropVars
DropFairSpec == DropSpec /\ WF_dropVars(DropNext)

-----------------------------------------------------------------------------
Carries == dropper.latest # NoPlanet

\* The dropper never waits longer than it has to: a frame that brings the waited
\* time past MinDropWait also brings the planet, and the waited time starts from 0
\* for the next one (Update).
WaitBounded ==
  dropper.since <= IF Carries \/ dropper.first THEN 0 ELSE MinDropWait

\* However frames and inputs fall, two planets are let go more than MinDropWait
\* apart, counted from the start of the frame that let the first one go to the
\* start of the one that lets the second go.
DropSpacing ==
  [][ dropped' /\ dropTime # 0 => dropTime + elapsed > MinDropWait ]_dropVars

\* A dropper that lost its planet gets another, even if Drop is hammered.
CarriesAgain == []<>Carries
=============================================================================
