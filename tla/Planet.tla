------------------------------- MODULE Planet -------------------------------
(***************************************************************************)
(* The planets of the game: game::Planet of src/src/Object.cpp and the     *)
(* Planet sections of src/data/config/planet.ini.                          *)
(*                                                                         *)
(* Every handler of the class is an operator on the function "planets",    *)
(* which maps an object identity to what the handlers read and write of    *)
(* that object.  Arena and Game turn the handlers into actions.            *)
(***************************************************************************)
EXTENDS GameConfig

CONSTANTS
  MaxPlanets,   \* bound: how many planet objects a behaviour may create
  Points,       \* Points[k]: the "Score" of a planet of kind k
  TopLimit,     \* time in contact with the arena top that ends the game (2.0 s)
  ExplodeTime   \* life time the GameOver trigger gives a planet (0.1 s)

PlanetId == 1 .. MaxPlanets

\* orxObject_GetLifeTime of an object whose life time was never set, and
\* touchingArenaTop when it holds no value.
Forever == -1
NoTimer == -1

ASSUME PlanetAssumption ==
  /\ MaxPlanets \in Nat
  /\ Points \in [Kind -> Nat]
  /\ TopLimit \in Nat
  /\ ExplodeTime \in Nat \ {0}

LifeTime  == {Forever} \cup 0 .. ExplodeTime
TimerTime == {NoTimer} \cup 0 .. TopLimit

PlanetState ==
  [ status : {"unborn", "live", "gone"},
    kind   : Kind,
    life   : LifeTime,
    timer  : TimerTime ]

Unborn == [status |-> "unborn", kind |-> 1, life |-> Forever, timer |-> NoTimer]

Live(planets)    == {p \in PlanetId : planets[p].status = "live"}
NotBorn(planets) == {p \in PlanetId : planets[p].status = "unborn"}

\* The identity the next planet gets, defined while NotBorn is not empty.
Fresh(planets) == CHOOSE p \in NotBorn(planets) : TRUE

-----------------------------------------------------------------------------
(* Engine calls the handlers make on planets.                              *)

SetLifeTime(planets, S, t) ==
  [p \in PlanetId |-> IF p \in S THEN [planets[p] EXCEPT !.life = t]
                                 ELSE planets[p]]

CreateFromConfig(planets, id, k) ==
  [planets EXCEPT ![id] = [status |-> "live", kind |-> k,
                           life |-> Forever, timer |-> NoTimer]]

\* The engine's pass over the objects at the end of a frame: a life time that
\* is set runs down, and an object without time left is deleted.
Expired(planet, dt) == planet.life # Forever /\ planet.life <= dt

Age(planets, dt) ==
  [p \in PlanetId |->
    CASE planets[p].status # "live" \/ planets[p].life = Forever -> planets[p]
      [] planets[p].status = "live" /\ Expired(planets[p], dt)
           -> [planets[p] EXCEPT !.status = "gone"]
      [] OTHER -> [planets[p] EXCEPT !.life = @ - dt]]

-----------------------------------------------------------------------------
(* The handlers.  A definition commented "Mutant" is a plausible mistake in *)
(* the definition after it, used to see that the properties notice it.     *)

EqualModelName(planets, p, q) == planets[p].kind = planets[q].kind

HasNext(k) == k < LastKind

\* Mutants: no planet, or not the other one, is asked whether it goes away already.
CanMergeAgain(planets, p, q)    == HasNext(planets[p].kind)
CanMergeOneSided(planets, p, q) == HasNext(planets[p].kind) /\ planets[p].life # 0

\* The guard of OnPlanetCollide: there is a next planet, and neither of the
\* two is already pending deletion.
CanMerge(planets, p, q) ==
  /\ HasNext(planets[p].kind)
  /\ planets[p].life # 0
  /\ planets[q].life # 0

\* Mutant: the merge scores the planets it consumes.
MergeOwnScore(board, p, q) ==
  LET id   == Fresh(board.planets)
      kind == board.planets[p].kind
  IN  [ planets |-> CreateFromConfig(SetLifeTime(board.planets, {p, q}, 0), id, kind + 1),
        score   |-> board.score + Points[kind],
        parents |-> [board.parents EXCEPT ![id] = {p, q}] ]

\* "board" is what the collision handlers change: the planets, the Score kept in
\* the Runtime config section, and the history of which two planets made which.
Merge(board, p, q) ==
  LET id   == Fresh(board.planets)
      next == board.planets[p].kind + 1
  IN  [ planets |-> CreateFromConfig(SetLifeTime(board.planets, {p, q}, 0), id, next),
        score   |-> board.score + Points[next],
        parents |-> [board.parents EXCEPT ![id] = {p, q}] ]

OnPlanetCollide(board, p, q) ==
  IF CanMerge(board.planets, p, q) THEN Merge(board, p, q) ELSE board

\* p's OnCollide, called with another planet q as the collider.
OnCollide(board, p, q) ==
  IF EqualModelName(board.planets, p, q) THEN OnPlanetCollide(board, p, q) ELSE board

\* A contact event reaches both objects, the sender's handler first.
OnContact(board, p, q) == OnCollide(OnCollide(board, p, q), q, p)

\* Mutant: the timer is not dropped.
OnArenaTopSeparateIgnored(planets, p) == planets

OnArenaTopCollide(planets, p)  == [planets EXCEPT ![p].timer = 0]
OnArenaTopSeparate(planets, p) == [planets EXCEPT ![p].timer = NoTimer]

\* Mutants: the limit is off by one; the timer starts over in every frame.
TimeUpEarly(planet, dt) == planet.timer # NoTimer /\ planet.timer + dt >= TopLimit
TimeUpLate(planet, dt)  == planet.timer # NoTimer /\ planet.timer + dt > TopLimit + 1
UpdateTimerRestarts(planets, p, dt) ==
  [planets EXCEPT ![p].timer = IF @ = NoTimer THEN NoTimer ELSE 0]

\* Update adds the frame's time to a running timer; past TopLimit it fires
\* GameOver at the scene and drops the timer.
TimeUp(planet, dt) == planet.timer # NoTimer /\ planet.timer + dt > TopLimit

UpdateTimer(planets, p, dt) ==
  [planets EXCEPT ![p].timer =
     IF @ = NoTimer \/ TimeUp(planets[p], dt) THEN NoTimer ELSE @ + dt]

\* The GameOver entry of PlanetEvents, for every planet in S.
GameOverTrigger(planets, S) == SetLifeTime(planets, S, ExplodeTime)
=============================================================================
