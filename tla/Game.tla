-------------------------------- MODULE Game --------------------------------
(***************************************************************************)
(* The whole game: scenes, the dropper of each game scene, and planets.    *)
(*                                                                         *)
(* A frame has three phases.  "physics": the contacts of this step reach   *)
(* the planets, in any order.  "update": Scroll updates every object that  *)
(* is not pending deletion; inputs and timers fire triggers in between.    *)
(* "pass": the engine counts life times down and deletes what is over,     *)
(* which fires triggers again.  Scroll visits the objects in the order of  *)
(* the engine's list; here they come in any order.                         *)
(***************************************************************************)
EXTENDS Planet, Dropper, Scenes

CONSTANT FadeTime    \* how long the dropper fades after GameOver (FadeOut, 5 s)

ASSUME GameAssumption ==
  /\ FadeTime \in Nat \ {0}
  /\ MaxPlanets >= 1    \* "held" of a dropper without a planet is some identity

VARIABLES
  sys,       \* SceneSystem: scenes, banners and Runtime.Scene
  droppers,  \* the dropper of each game scene
  planets,   \* [PlanetId -> PlanetState]
  owner,     \* the scene each planet belongs to
  carrier,   \* for a planet made to be carried, which has no body, its dropper's scene
  resting,   \* environment: the planets in the sensor at the arena top
  phase, step, todo,  \* the frame: its phase, its length, what is left to visit
  strayed    \* history: a dropper used its "latest" after that object was deleted

world == <<droppers, planets, owner, carrier, resting, strayed>>
frame == <<phase, step, todo>>
vars  == <<sys, world, frame>>

\* "held" is the object Dropper::latest points to.
DropperObject == [ exists : BOOLEAN, life : {Forever} \cup 0 .. FadeTime,
                   d : DropperState, held : PlanetId ]

NoDropper == [exists |-> FALSE, life |-> Forever, d |-> NewDropper, held |-> 1]

Object == {"scene", "dropper"} \X SceneId \cup {"planet"} \X PlanetId \cup {"banner"} \X BannerId

TypeOK ==
  /\ sys \in SceneSystem
  /\ droppers \in [SceneId -> DropperObject]
  /\ planets \in [PlanetId -> PlanetState]
  /\ owner \in [PlanetId -> SceneId \cup {NoOwner}]
  /\ carrier \in [PlanetId -> SceneId \cup {NoOwner}]
  /\ resting \subseteq PlanetId
  /\ phase \in {"physics", "update", "pass"}
  /\ step \in FrameTimes \cup {0}
  /\ todo \subseteq Object
  /\ strayed \in BOOLEAN

Init ==
  /\ sys = [ scenes  |-> [s \in SceneId |-> IF s = 1 THEN "title" ELSE "none"],
             doomed  |-> {},
             runtime |-> 1,
             banners |-> [b \in BannerId |-> NoBanner] ]
  /\ droppers = [s \in SceneId |-> NoDropper]
  /\ planets = [p \in PlanetId |-> Unborn]
  /\ owner = [p \in PlanetId |-> NoOwner]
  /\ carrier = [p \in PlanetId |-> NoOwner]
  /\ resting = {}
  /\ phase = "physics" /\ step = 0 /\ todo = {}
  /\ strayed = FALSE

Room(n)   == Cardinality(NotBorn(planets)) >= n    \* the bound on planets

-----------------------------------------------------------------------------
\* The planets that have a body.  Mutant: the body of a carried planet stays.
SolidAll == Live(planets)
Solid    == {p \in Live(planets) : carrier[p] = NoOwner}

\* The planets a scene owns.  Mutant: only those with a body.
OwnedBySolid(s) == {p \in Solid : owner[p] = s}
OwnedBy(s)      == {p \in Live(planets) : owner[p] = s}

-----------------------------------------------------------------------------
(* Physics.                                                                *)

Contact(p, q) ==
  /\ phase = "physics"
  /\ p # q /\ p \in Solid /\ q \in Solid
  /\ Room(1)
  /\ planets' = OnContact([planets |-> planets, score |-> 0,
                           parents |-> [r \in PlanetId |-> {}]], p, q).planets
  /\ owner' = [r \in PlanetId |-> IF planets'[r].status # planets[r].status
                                    THEN sys.runtime ELSE owner[r]]
  /\ UNCHANGED <<sys, droppers, carrier, resting, strayed, frame>>

TopEnter(p) ==
  /\ phase = "physics"
  /\ p \in Solid \ resting
  /\ planets' = OnArenaTopCollide(planets, p)
  /\ resting' = resting \cup {p}
  /\ UNCHANGED <<sys, droppers, owner, carrier, strayed, frame>>

TopLeave(p) ==
  /\ phase = "physics"
  /\ p \in Solid \cap resting
  /\ planets' = OnArenaTopSeparate(planets, p)
  /\ resting' = resting \ {p}
  /\ UNCHANGED <<sys, droppers, owner, carrier, strayed, frame>>

\* Title scenes take inputs, droppers and planets have an Update; that of a planet
\* whose timer does not run has nothing to do.
BeginUpdate(dt) ==
  /\ phase = "physics"
  /\ phase' = "update"
  /\ step' = dt
  /\ todo' = {"scene"} \X {s \in SceneId : sys.scenes[s] = "title"}
             \cup {"dropper"} \X {s \in SceneId : droppers[s].exists}
             \cup {"planet"} \X {p \in Live(planets) : planets[p].timer # NoTimer}
  /\ UNCHANGED <<sys, world>>

-----------------------------------------------------------------------------
(* Update.                                                                 *)

ToUpdate(o) == phase = "update" /\ o \in todo
Visited(o)  == todo' = todo \ {o} /\ UNCHANGED <<phase, step>>

\* FireTriggerRecursive(Runtime.Scene, "GameOver"): a game scene shows a banner;
\* the scene's planets get a short life time, whatever theirs was; its dropper,
\* unless it fades already, starts to fade.
FadeAway(o) == IF o.life = Forever THEN [o EXCEPT !.life = FadeTime] ELSE o

\* Beyond MaxBanners no further banner is shown.
GameOverEffects ==
  /\ sys' = IF FreeBanners(sys) = {} THEN sys ELSE FireGameOver(sys)
  /\ droppers' = [droppers EXCEPT ![sys.runtime] = FadeAway(@)]

\* A title scene: the player activates Start, or does not.  Activating makes a game
\* scene with a dropper, which may still be updated in this frame.
Activate(s) ==
  /\ ToUpdate(<<"scene", s>>)
  /\ s \notin sys.doomed
  /\ FreeScenes(sys) # {}
  /\ sys' = FireGameScene(sys)
  /\ droppers' = [r \in SceneId |->
                    IF sys'.scenes[r] = "game" /\ sys.scenes[r] = "none"
                      THEN [NoDropper EXCEPT !.exists = TRUE] ELSE droppers[r]]
  /\ todo' \in {todo \ {<<"scene", s>>},
                (todo \ {<<"scene", s>>}) \cup {"dropper"} \X {r \in SceneId : droppers'[r] # droppers[r]}}
  /\ UNCHANGED <<planets, owner, carrier, resting, strayed, phase, step>>

UpdateScene(s) ==
  /\ ToUpdate(<<"scene", s>>)
  /\ Visited(<<"scene", s>>)
  /\ UNCHANGED <<sys, world>>

\* The player's GameOver input, which the dropper's triggers get before its Update.
GameOverInput(s) ==
  /\ ToUpdate(<<"dropper", s>>)
  /\ droppers[s].life # 0
  /\ GameOverEffects
  /\ planets' = GameOverTrigger(planets, OwnedBy(sys.runtime))
  /\ UNCHANGED <<owner, carrier, resting, strayed, frame>>

\* A planet made from the configuration: its owner is Runtime.Scene.
Spawn(w, k, by) ==
  LET id == Fresh(w.planets)
  IN  [ planets |-> CreateFromConfig(w.planets, id, k),
        owner   |-> [w.owner EXCEPT ![id] = sys.runtime],
        carrier |-> [w.carrier EXCEPT ![id] = by],
        last    |-> id ]

Carrying(s) == droppers[s].d.latest # NoPlanet
Held(s)     == droppers[s].held
Present(s)  == carrier[Held(s)] = s /\ planets[Held(s)].status = "live"

\* Dropper::Update, with "ps" the planets after the life time of what "latest" points
\* to is set to 0, "name" the kind found there and "k" what "Drop" offers next.
DropperSteps(s, drop, k, ps, name) ==
  LET o     == droppers[s]
      d     == UpdateDropper(o.d, step, 0, drop, k)
      drops == Drops(o.d, drop) /\ name # NoPlanet
      gets  == d.latest # NoPlanet /\ (Drops(o.d, drop) \/ o.d.latest = NoPlanet)
      w     == [planets |-> ps, owner |-> owner, carrier |-> carrier, last |-> o.held]
      w1    == IF drops THEN Spawn(w, name, NoOwner) ELSE w
      w2    == IF gets THEN Spawn(w1, k, s) ELSE w1
  IN  /\ ToUpdate(<<"dropper", s>>)
      /\ o.life # 0
      /\ Room((IF drops THEN 1 ELSE 0) + (IF gets THEN 1 ELSE 0))
      /\ planets' = w2.planets /\ owner' = w2.owner /\ carrier' = w2.carrier
      /\ droppers' = [droppers EXCEPT ![s].d = d, ![s].held = w2.last]
      /\ Visited(<<"dropper", s>>)
      /\ UNCHANGED resting

UpdateDropperObject(s, k) ==
  /\ DropperSteps(s, FALSE, k, planets, NoPlanet)
  /\ UNCHANGED <<sys, strayed>>

DropPlanetOf(s, k) ==
  /\ Carrying(s) /\ Present(s)
  /\ DropperSteps(s, TRUE, k, SetLifeTime(planets, {Held(s)}, 0), planets[Held(s)].kind)
  /\ UNCHANGED <<sys, strayed>>

\* The same after the object was deleted: "latest" is not NULL, and the name and the
\* life time are those of whatever is in its place, if anything is.
StrayDrop(s, k, name) ==
  /\ Carrying(s) /\ ~Present(s)
  /\ strayed' = TRUE
  /\ \/ \E S \in {{}} \cup {{p} : p \in Live(planets)} :
          /\ DropperSteps(s, TRUE, k, SetLifeTime(planets, S, 0), name)
          /\ UNCHANGED sys
     \/ /\ DropperSteps(s, TRUE, k, planets, name)
        /\ \/ \E r \in Existing(sys) : sys' = Doom(sys, r)
           \/ \E b \in Showing(sys) : sys' = [sys EXCEPT !.banners[b].left = 0]

\* The bound on planets leaves no room for what the dropper would make, or the
\* dropper is pending deletion.
SkipDropper(s) ==
  /\ ToUpdate(<<"dropper", s>>)
  /\ droppers[s].life = 0 \/ ~Room(1)
  /\ Visited(<<"dropper", s>>)
  /\ UNCHANGED <<sys, world>>

\* Planet::Update.
UpdatePlanet(p) ==
  /\ ToUpdate(<<"planet", p>>)
  /\ IF planets[p].life # 0 /\ TimeUp(planets[p], step)
       THEN /\ GameOverEffects
            /\ planets' = UpdateTimer(GameOverTrigger(planets, OwnedBy(sys.runtime)), p, step)
       ELSE /\ planets' = IF planets[p].life = 0 THEN planets ELSE UpdateTimer(planets, p, step)
            /\ UNCHANGED <<sys, droppers>>
  /\ Visited(<<"planet", p>>)
  /\ UNCHANGED <<owner, carrier, resting, strayed>>

-----------------------------------------------------------------------------
(* The pass over the life times.                                           *)

\* Deleted planets leave nothing behind: their identities are free again.
Forget(ps, S) ==
  /\ planets' = [p \in PlanetId |-> IF p \in S THEN Unborn ELSE ps[p]]
  /\ owner'   = [p \in PlanetId |-> IF p \in S THEN NoOwner ELSE owner[p]]
  /\ carrier' = [p \in PlanetId |-> IF p \in S THEN NoOwner ELSE carrier[p]]
  /\ resting' = resting \ S

AgeDropper(o) ==
  IF o.life = Forever THEN o
  ELSE IF o.life <= step THEN NoDropper ELSE [o EXCEPT !.life = @ - step]

BeginPass ==
  /\ phase = "update" /\ todo = {}
  /\ phase' = "pass"
  /\ LET aged == Age(planets, step)
     IN  Forget(aged, {p \in PlanetId : aged[p].status = "gone"})
  /\ droppers' = [s \in SceneId |-> AgeDropper(droppers[s])]
  /\ todo' = {"scene"} \X Existing(sys) \cup {"banner"} \X Showing(sys)
  /\ UNCHANGED <<sys, step, strayed>>

\* A deleted scene takes its planets and its dropper with it, and its banners now or,
\* where this pass has been at them before, in the next pass.
VisitScene(s) ==
  /\ phase = "pass" /\ <<"scene", s>> \in todo
  /\ IF s \in sys.doomed
       THEN /\ sys' = DeleteScene(sys, s)
            /\ Forget(planets, OwnedBy(s))
            /\ droppers' = [droppers EXCEPT ![s] = NoDropper]
            /\ todo' \in {todo \ {<<"scene", s>>},
                          (todo \ {<<"scene", s>>}) \cup {"banner"} \X Owned(sys, s)}
            /\ UNCHANGED strayed
       ELSE /\ todo' = todo \ {<<"scene", s>>}
            /\ UNCHANGED <<sys, world>>
  /\ UNCHANGED <<phase, step>>

\* Mutant: a banner that runs out goes without its OnDelete.
VisitBannerSilent(b) ==
  /\ phase = "pass" /\ <<"banner", b>> \in todo
  /\ sys' = IF sys.banners[b].left <= step THEN [sys EXCEPT !.banners[b] = NoBanner]
                                           ELSE [sys EXCEPT !.banners[b].left = @ - step]
  /\ Visited(<<"banner", b>>)
  /\ UNCHANGED world

VisitBanner(b) ==
  /\ phase = "pass" /\ <<"banner", b>> \in todo
  /\ FreeScenes(sys) # {}
  /\ sys' = IF sys.banners[b].left <= step THEN DeleteBanner(sys, b)
                                           ELSE [sys EXCEPT !.banners[b].left = @ - step]
  /\ Visited(<<"banner", b>>)
  /\ UNCHANGED world

EndPass ==
  /\ phase = "pass" /\ todo = {}
  /\ phase' = "physics" /\ step' = 0
  /\ UNCHANGED <<sys, world, todo>>

-----------------------------------------------------------------------------
Physics == \/ \E p, q \in PlanetId : Contact(p, q)
           \/ \E p \in PlanetId : TopEnter(p) \/ TopLeave(p)

Player == \/ \E s \in SceneId : Activate(s) \/ GameOverInput(s)
          \/ \E s \in SceneId, k \in DropKinds : DropPlanetOf(s, k)
          \/ \E s \in SceneId, k \in DropKinds, name \in Kind \cup {NoPlanet} : StrayDrop(s, k, name)

Advance == \/ \E dt \in FrameTimes : BeginUpdate(dt)
           \/ \E s \in SceneId : UpdateScene(s) \/ SkipDropper(s) \/ VisitScene(s)
           \/ \E s \in SceneId, k \in DropKinds : UpdateDropperObject(s, k)
           \/ \E p \in PlanetId : UpdatePlanet(p)
           \/ \E b \in BannerId : VisitBanner(b)
           \/ BeginPass
           \/ EndPass

Next == Physics \/ Player \/ Advance

Spec == Init /\ [][Next]_vars

\* Frames keep coming and every phase comes to its end.
FairSpec == Spec /\ WF_vars(Advance)

-----------------------------------------------------------------------------
\* Until GameOver reaches it, a dropper's "latest" is the object it made: no contact,
\* no other dropper and no deletion gets at a carried planet (Dropper::CreatePlanet
\* takes its body away).
HeldIntact ==
  ~strayed =>
    \A s \in SceneId \ sys.doomed :
      droppers[s].exists /\ droppers[s].life = Forever /\ Carrying(s) =>
        /\ Present(s)
        /\ planets[Held(s)].life = Forever
        /\ planets[Held(s)].kind = droppers[s].d.latest

\* No planet outlives the scene that owns it, so none reaches a later game.
NoOrphans ==
  ~strayed =>
    \A p \in Live(planets) : planets[p].life # 0 => owner[p] \in Existing(sys)

\* DropPlanet finds the planet it drops: "Planet must be present for it to be dropped".
PlanetPresent ==
  \A s \in SceneId :
    ToUpdate(<<"dropper", s>>) /\ droppers[s].life # 0 /\ Carrying(s) => Present(s)

Playing == sys.scenes[sys.runtime] = "game"
Over    == Playing /\ \E b \in BannerId : sys.banners[b].owner = sys.runtime

\* A planet that stays in the sensor brings up the banner, unless a merge consumes it.
TopBringsBanner ==
  \A p \in PlanetId :
    (Playing /\ owner[p] = sys.runtime /\ planets[p].timer # NoTimer) ~>
      (Over \/ ~Playing \/ p \notin resting \/ strayed)

=============================================================================
