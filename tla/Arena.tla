-------------------------------- MODULE Arena --------------------------------
(***************************************************************************)
(* One game in the arena: planets fall in, touch each other, rest against  *)
(* the sensor at the top, and are deleted.  The physics engine decides     *)
(* which contacts happen and when, so contacts, updates and deletions      *)
(* interleave freely here; Game fixes their order within a frame.          *)
(***************************************************************************)
EXTENDS Planet, Functions

CONSTANT MaxDrops   \* bound: how many planets the dropper lets go

ASSUME ArenaAssumption == MaxDrops \in Nat

VARIABLES
  planets,  \* [PlanetId -> PlanetState]
  score,    \* Runtime.Score
  over,     \* "no", or what fired GameOver first: "top" or "input"
  parents,  \* history: the two planets a merge made this one from, {} if dropped
  touch     \* environment: time spent in the top sensor since contact began

vars == <<planets, score, over, parents, touch>>

NoTouch == -1
MaxTouch == TopLimit + 1      \* touch counts up to here: beyond the limit is beyond

TypeOK ==
  /\ planets \in [PlanetId -> PlanetState]
  /\ score \in Nat
  /\ over \in {"no", "top", "input"}
  /\ parents \in [PlanetId -> SUBSET PlanetId]
  /\ touch \in [PlanetId -> {NoTouch} \cup 0 .. MaxTouch]

Init ==
  /\ planets = [p \in PlanetId |-> Unborn]
  /\ score = 0                          \* Score.OnCreate
  /\ over = "no"
  /\ parents = [p \in PlanetId |-> {}]
  /\ touch = [p \in PlanetId |-> NoTouch]

-----------------------------------------------------------------------------
Born    == {p \in PlanetId : planets[p].status # "unborn"}
Dropped == {p \in Born : parents[p] = {}}
Board   == {p \in Live(planets) : planets[p].life # 0}

\* The dropper lets a planet of kind k go.
Drop(k) ==
  /\ NotBorn(planets) # {}
  /\ Cardinality(Dropped) < MaxDrops
  /\ planets' = CreateFromConfig(planets, Fresh(planets), k)
  /\ UNCHANGED <<score, over, parents, touch>>

\* The bodies of two planets touch.  The bound on identities disables it.
Contact(p, q) ==
  /\ p # q
  /\ p \in Live(planets) /\ q \in Live(planets)
  /\ NotBorn(planets) # {}
  /\ LET board == OnContact([planets |-> planets, score |-> score, parents |-> parents], p, q)
     IN  /\ planets' = board.planets
         /\ score'   = board.score
         /\ parents' = board.parents
  /\ UNCHANGED <<over, touch>>

\* A planet enters the sensor at the arena top, or leaves it.
TopEnter(p) ==
  /\ p \in Live(planets)
  /\ touch[p] = NoTouch
  /\ planets' = OnArenaTopCollide(planets, p)
  /\ touch' = [touch EXCEPT ![p] = 0]
  /\ UNCHANGED <<score, over, parents>>

TopLeave(p) ==
  /\ p \in Live(planets)
  /\ touch[p] # NoTouch
  /\ planets' = OnArenaTopSeparate(planets, p)
  /\ touch' = [touch EXCEPT ![p] = NoTouch]
  /\ UNCHANGED <<score, over, parents>>

EndGame(cause) == over' = IF over = "no" THEN cause ELSE over

Touched(t, dt) ==
  IF t = NoTouch THEN NoTouch ELSE IF t + dt > TopLimit THEN MaxTouch ELSE t + dt

\* Planet::Update in a frame of length dt.  Scroll does not update an object
\* that is pending deletion.
UpdatePlanet(p, dt) ==
  /\ p \in Live(planets)
  /\ planets[p].life # 0
  /\ IF TimeUp(planets[p], dt)
       THEN /\ planets' = UpdateTimer(GameOverTrigger(planets, Live(planets)), p, dt)
            /\ EndGame("top")
       ELSE /\ planets' = UpdateTimer(planets, p, dt)
            /\ UNCHANGED over
  /\ touch' = [touch EXCEPT ![p] = Touched(@, dt)]
  /\ UNCHANGED <<score, parents>>

\* The player's GameOver input: the Dropper's trigger fires it at the scene.
GameOverInput ==
  /\ planets' = GameOverTrigger(planets, Live(planets))
  /\ EndGame("input")
  /\ UNCHANGED <<score, parents, touch>>

\* The engine's pass over the life times at the end of a frame.
DeleteExpired(dt) ==
  /\ planets' = Age(planets, dt)
  /\ touch' = [p \in PlanetId |-> IF planets'[p].status = "live" THEN touch[p] ELSE NoTouch]
  /\ UNCHANGED <<score, over, parents>>

Next ==
  \/ \E k \in DropKinds : Drop(k)
  \/ \E p, q \in PlanetId : Contact(p, q)
  \/ \E p \in PlanetId : TopEnter(p) \/ TopLeave(p)
  \/ \E p \in PlanetId, dt \in FrameTimes : UpdatePlanet(p, dt)
  \/ GameOverInput
  \/ \E dt \in FrameTimes : DeleteExpired(dt)

Spec == Init /\ [][Next]_vars

-----------------------------------------------------------------------------
\* What a planet of kind k weighs, in planets of the first kind, and what it is
\* worth: the points of every merge that made it.
Weight[k \in Kind] == IF k = 1 THEN 1 ELSE 2 * Weight[k - 1]
Worth[k \in Kind]  == IF k = 1 THEN 0 ELSE 2 * Worth[k - 1] + Points[k]

\* The sum of a value that goes by the kind, over the planets in S.
ByKind(value)   == [p \in PlanetId |-> value[planets[p].kind]]
Total(value, S) == FoldFunctionOnSet(+, 0, ByKind(value), S)

\* Until GameOver, the planets on the board weigh exactly what was dropped: a
\* merge replaces two planets of a kind by one of the next (OnPlanetCollide), and
\* no planet is merged twice or lost, whichever contacts arrive in which order.
MassConserved ==
  over = "no" => Total(Weight, Board) = Total(Weight, Dropped)

\* Until GameOver, Runtime.Score is what the planets on the board are worth beyond
\* those that were dropped: every merge is scored once, with the points of the
\* planet it makes and not of those it consumes (OnPlanetCollide).
ScoreBalance ==
  over = "no" => score = Total(Worth, Board) - Total(Worth, Dropped)

\* Until GameOver, no planet is consumed by two merges, although a contact calls
\* both planets' OnCollide and a consumed planet keeps its body, and its
\* contacts, until the end of the frame.
MergedOnce ==
  over = "no" =>
    \A p, q \in PlanetId : p # q => parents[p] \cap parents[q] = {}

\* A running timer shows the time since the planet entered the sensor: it never
\* survives a separation and never misses a frame (Update, OnArenaTopCollide,
\* OnArenaTopSeparate).
TimerIsTouch ==
  \A p \in Live(planets) : planets[p].timer # NoTimer => planets[p].timer = touch[p]

\* Planet::Update ends the game only for a planet that has been in the sensor
\* without a break for longer than TopLimit.
NoEarlyGameOver ==
  [][ over = "no" /\ over' = "top" => \E p \in PlanetId : touch'[p] > TopLimit ]_vars
=============================================================================
