----------------------------- MODULE GameProofs -----------------------------
(***************************************************************************)
(* Theorems about Game, that its scenes are those of SceneFlow             *)
(* (GameScenes), and about Dropping, the dropper on its own: for           *)
(* every chain of planets, number of planets, scenes and banners, play     *)
(* area, wait and frame length.                                            *)
(***************************************************************************)
EXTENDS GameScenes, Dropping, FiniteSetTheorems, TLAPS

-----------------------------------------------------------------------------
(* What the handlers of the dropper return.                                *)

\* The dropper and the play area's bounds: the clamp of UpdatePosition keeps any
\* movement inside.
LEMMA PositionClamped ==
  ASSUME NEW d \in DropperState, NEW dir \in Direction, NEW dt \in Nat
  PROVE  UpdatePosition(d, dir, dt) \in DropperState
<1> DEFINE x == d.x + MaxSpeed * dir * dt
<1>1. MaxSpeed * dir * dt \in Int
  BY DropperAssumption, ConfigAssumption DEF Direction
<1>2. x \in Int
  BY <1>1, DropperAssumption DEF DropperState
<1> HIDE DEF x
<1>3. (IF x < MinX THEN MinX ELSE IF x > MaxX THEN MaxX ELSE x) \in MinX .. MaxX
  BY <1>2, DropperAssumption
<1>4. UpdatePosition(d, dir, dt) =
        [d EXCEPT !.x = IF x < MinX THEN MinX ELSE IF x > MaxX THEN MaxX ELSE x]
  BY DEF UpdatePosition, x
<1> QED BY <1>3, <1>4 DEF DropperState

\* What one Update does to what the dropper carries and to its waited time.
LEMMA UpdateCases ==
  ASSUME NEW d \in DropperState, NEW dt \in Nat, NEW dir \in Direction,
         NEW drop \in BOOLEAN, NEW k \in DropKinds
  PROVE  LET e    == UpdateDropper(d, dt, dir, drop, k)
             free == d.latest = NoPlanet \/ drop
         IN  /\ e \in DropperState
             /\ ~free => e.latest = d.latest /\ e.first = d.first /\ e.since = d.since
             /\ free /\ Ready(d, dt)  => e.latest = k /\ ~e.first /\ e.since = 0
             /\ free /\ ~Ready(d, dt) =>
                  e.latest = NoPlanet /\ e.first = d.first /\ e.since = d.since + dt
<1> DEFINE moved == UpdatePosition(d, dir, dt)
<1>1. moved \in DropperState
  BY PositionClamped
<1>2. moved.latest = d.latest /\ moved.first = d.first /\ moved.since = d.since
  BY DEF UpdatePosition, DropperState
<1>3. k \in Kind /\ dt \in Nat
  BY ConfigAssumption
<1> HIDE DEF moved
<1>4. UpdateDropper(d, dt, dir, drop, k) = AfterWait(AfterDrop(moved, drop), dt, k)
  BY DEF UpdateDropper, moved
<1> DEFINE free == d.latest = NoPlanet \/ drop
<1>5. CASE ~free
  <2>1. AfterWait(AfterDrop(moved, drop), dt, k) = moved
    BY <1>2, <1>5 DEF AfterDrop, AfterWait, Drops
  <2> QED BY <1>1, <1>2, <1>4, <1>5, <2>1
<1>6. CASE free
  <2> DEFINE open == AfterDrop(moved, drop)
  <2>1. /\ open \in DropperState
        /\ open.latest = NoPlanet /\ open.first = d.first /\ open.since = d.since
    BY <1>1, <1>2, <1>6 DEF AfterDrop, Drops, DropPlanet, DropperState
  <2> HIDE DEF open
  <2>2. CASE Ready(d, dt)
    <3>0. Ready(open, dt)
      BY <2>1, <2>2 DEF Ready
    <3>1. AfterWait(open, dt, k) = CreatePlanet([open EXCEPT !.first = FALSE, !.since = 0], k)
      BY <2>1, <3>0 DEF AfterWait
    <3>2. LET e == AfterWait(open, dt, k)
          IN  e \in DropperState /\ e.latest = k /\ e.first = FALSE /\ e.since = 0
      <4> DEFINE w == [open EXCEPT !.first = FALSE, !.since = 0]
      <4>1. w \in DropperState /\ w.first = FALSE /\ w.since = 0
        BY <2>1 DEF DropperState
      <4> HIDE DEF w
      <4>2. [w EXCEPT !.latest = k] \in DropperState
        BY <1>3, <4>1 DEF DropperState
      <4>3. /\ [w EXCEPT !.latest = k].latest = k
            /\ [w EXCEPT !.latest = k].first = FALSE
            /\ [w EXCEPT !.latest = k].since = 0
        BY <4>1 DEF DropperState
      <4> QED BY <3>1, <4>2, <4>3 DEF CreatePlanet, w
    <3> QED BY <1>4, <1>6, <2>2, <3>2 DEF open
  <2>3. CASE ~Ready(d, dt)
    <3>0. ~Ready(open, dt)
      BY <2>1, <2>3 DEF Ready
    <3>1. AfterWait(open, dt, k) = [open EXCEPT !.since = open.since + dt]
      BY <2>1, <3>0 DEF AfterWait
    <3>2. LET e == AfterWait(open, dt, k)
          IN  /\ e \in DropperState
              /\ e.latest = NoPlanet /\ e.first = d.first /\ e.since = d.since + dt
      BY <1>3, <2>1, <3>1 DEF DropperState
    <3> QED BY <1>4, <1>6, <2>3, <3>2 DEF open
  <2> QED BY <2>2, <2>3
<1> QED BY <1>5, <1>6

-----------------------------------------------------------------------------
(* What the handlers of the planets return.                                *)

Planets == [PlanetId -> PlanetState]

\* Giving planets a life time keeps them planets and says who is born (SetLifeTime).
LEMMA LifeTimeSet ==
  ASSUME NEW ps \in Planets, NEW S, NEW t \in LifeTime
  PROVE  /\ SetLifeTime(ps, S, t) \in Planets
         /\ NotBorn(SetLifeTime(ps, S, t)) = NotBorn(ps)
BY DEF Planets, SetLifeTime, PlanetState, NotBorn

\* The next identity is one not in use, and a planet made from the configuration is a
\* planet; every other identity is as it was.
LEMMA PlanetCreated ==
  ASSUME NEW ps \in Planets, NotBorn(ps) # {}, NEW k \in Kind
  PROVE  LET id == Fresh(ps)
             qs == CreateFromConfig(ps, id, k)
         IN  /\ id \in NotBorn(ps) /\ qs \in Planets /\ NotBorn(qs) = NotBorn(ps) \ {id}
             /\ qs[id].status = "live" /\ qs[id].kind = k /\ qs[id].life = Forever
             /\ \A p \in PlanetId : p # id => qs[p] = ps[p]
<1> DEFINE id == Fresh(ps)
           new == [status |-> "live", kind |-> k, life |-> Forever, timer |-> NoTimer]
           qs == CreateFromConfig(ps, id, k)
<1>1. id \in NotBorn(ps)
  BY DEF Fresh
<1>2. id \in PlanetId
  BY <1>1 DEF NotBorn
<1> HIDE DEF id
<1>3. new \in PlanetState
  BY DEF PlanetState, LifeTime, TimerTime
<1>4. /\ qs \in Planets
      /\ qs[id] = new
      /\ \A p \in PlanetId : p # id => qs[p] = ps[p]
  BY <1>2, <1>3 DEF CreateFromConfig, Planets
<1>5. new.status = "live" /\ new.kind = k /\ new.life = Forever
  OBVIOUS
<1> HIDE DEF qs, new
<1>6. NotBorn(qs) = NotBorn(ps) \ {id}
  BY <1>2, <1>4, <1>5 DEF NotBorn
<1> QED BY <1>1, <1>4, <1>5, <1>6 DEF id, qs

\* There is room for one planet if the bound leaves any, and after one for another if
\* it left two.
LEMMA RoomForOne ==
  ASSUME NEW n \in Nat \ {0}, Room(n)
  PROVE  /\ NotBorn(planets) # {}
         /\ n > 1 => \A id : NotBorn(planets) \ {id} # {}
<1> DEFINE S == NotBorn(planets)
<1>1. IsFiniteSet(S)
  <2>1. IsFiniteSet(PlanetId)
    BY PlanetAssumption, FS_Interval DEF PlanetId
  <2>2. S \in SUBSET PlanetId
    BY DEF NotBorn
  <2> QED BY <2>1, <2>2, FS_Subset
<1>2. Cardinality(S) \in Nat /\ Cardinality(S) >= n
  BY <1>1, FS_CardinalityType DEF Room
<1>3. S # {}
  BY <1>2, FS_EmptySet
<1>4. ASSUME n > 1, NEW id PROVE S \ {id} # {}
  <2>1. Cardinality(S \ {id}) = IF id \in S THEN Cardinality(S) - 1 ELSE Cardinality(S)
    BY <1>1, FS_RemoveElement
  <2> HIDE DEF S
  <2>2. Cardinality(S \ {id}) # 0
    BY <1>2, <1>4, <2>1
  <2> QED BY <2>2, FS_EmptySet
<1> QED BY <1>3, <1>4

\* A contact leaves the planets alone or merges the two, once: in the second of the two
\* calls neither of them has a life time other than 0 left.
LEMMA ContactIs ==
  ASSUME NEW ps \in Planets, NotBorn(ps) # {}, NEW p \in Live(ps), NEW q \in Live(ps), p # q
  PROVE  LET board == [planets |-> ps, score |-> 0, parents |-> [r \in PlanetId |-> {}]]
         IN  \/ OnContact(board, p, q).planets = ps
             \/ /\ HasNext(ps[p].kind)
                /\ OnContact(board, p, q).planets =
                     CreateFromConfig(SetLifeTime(ps, {p, q}, 0), Fresh(ps), ps[p].kind + 1)
<1> DEFINE board == [planets |-> ps, score |-> 0, parents |-> [r \in PlanetId |-> {}]]
           id    == Fresh(ps)
           after == Merge(board, p, q)
<1>1. id \in PlanetId /\ ps[id].status = "unborn"
  BY DEF Fresh, NotBorn
<1>2. CASE EqualModelName(ps, p, q) /\ CanMerge(ps, p, q)
  <2>1. OnCollide(board, p, q) = after
    BY <1>2 DEF OnCollide, OnPlanetCollide
  <2>2. after.planets = CreateFromConfig(SetLifeTime(ps, {p, q}, 0), id, ps[p].kind + 1)
    BY DEF Merge
  <2>3. after.planets[q].life = 0
    BY <1>1, <2>2 DEF CreateFromConfig, SetLifeTime, Planets, PlanetState, Live
  <2>4. OnCollide(after, q, p) = after
    BY <2>3 DEF OnCollide, OnPlanetCollide, CanMerge
  <2> QED BY <1>2, <2>1, <2>2, <2>4 DEF OnContact, CanMerge
<1>3. CASE ~(EqualModelName(ps, p, q) /\ CanMerge(ps, p, q))
  <2>1. OnCollide(board, p, q) = board
    BY <1>3 DEF OnCollide, OnPlanetCollide
  <2>2. OnCollide(board, q, p) = board
    BY <1>3 DEF OnCollide, OnPlanetCollide, EqualModelName, CanMerge
  <2> QED BY <2>1, <2>2 DEF OnContact
<1> QED BY <1>2, <1>3

-----------------------------------------------------------------------------
(* What the triggers of the scenes return.                                 *)

Banners == [BannerId -> [owner : SceneId \cup {NoOwner}, left : 0 .. BannerLife]]

\* The scenes are the same ones in the same state.
Kept(x, z) == z.scenes = x.scenes /\ z.doomed = x.doomed /\ z.runtime = x.runtime

\* The scene that Runtime.Scene names is doomed and a new one takes its place.
MovesOn(x, z) ==
  \E id \in SceneId, type \in {"title", "game"} :
    /\ x.scenes[id] = "none" /\ id # x.runtime /\ x.scenes[x.runtime] # "none"
    /\ z.scenes = [x.scenes EXCEPT ![id] = type]
    /\ z.doomed = x.doomed \cup {x.runtime}
    /\ z.runtime = id

\* Changing banners only keeps the scenes.
LEMMA BannersSet ==
  ASSUME NEW x \in SceneSystem, NEW bs \in Banners
  PROVE  LET z == [x EXCEPT !.banners = bs]
         IN  z \in SceneSystem /\ Kept(x, z) /\ z.banners = bs
BY DEF SceneSystem, Banners, Kept

\* Object.Delete of the live scene and the creation of another one.
LEMMA Replacing ==
  ASSUME NEW x \in SceneSystem, FreeScenes(x) # {}, NEW type \in {"title", "game"},
         x.scenes[x.runtime] # "none"
  PROVE  LET z == CreateScene(Doom(x, x.runtime), type)
         IN  z \in SceneSystem /\ MovesOn(x, z)
<1> DEFINE y  == Doom(x, x.runtime)
           id == CHOOSE s \in FreeScenes(y) : TRUE
           f  == [x.scenes EXCEPT ![id] = type]
           z  == CreateScene(y, type)
<1>1. /\ y \in SceneSystem
      /\ y.scenes = x.scenes /\ y.runtime = x.runtime /\ y.banners = x.banners
      /\ y.doomed = x.doomed \cup {x.runtime}
  BY DEF Doom, SceneSystem
<1>2. FreeScenes(y) = FreeScenes(x)
  BY <1>1 DEF FreeScenes
<1>3. id \in SceneId /\ x.scenes[id] = "none" /\ id # x.runtime
  BY <1>2 DEF FreeScenes
<1>4. z = [y EXCEPT !.scenes[id] = type, !.runtime = id]
  BY DEF CreateScene
<1> HIDE DEF y, id
<1>5. f \in [SceneId -> {"none", "title", "game"}]
  BY <1>3 DEF SceneSystem
<1>6. z = [y EXCEPT !.scenes = f, !.runtime = id]
  BY <1>1, <1>4 DEF SceneSystem
<1> HIDE DEF z, f
<1>7. z \in SceneSystem /\ z.scenes = f /\ z.doomed = x.doomed \cup {x.runtime} /\ z.runtime = id
  BY <1>1, <1>3, <1>5, <1>6 DEF SceneSystem
<1>8. z.scenes = [x.scenes EXCEPT ![id] = type]
  BY <1>7 DEF f
<1>9. z \in SceneSystem /\ MovesOn(x, z)
  BY <1>3, <1>7, <1>8 DEF MovesOn
<1> QED BY <1>9 DEF y, z

\* The triggers that lead from one scene to the other either do nothing or replace the
\* scene that Runtime.Scene names.
LEMMA Transitions ==
  ASSUME NEW x \in SceneSystem, FreeScenes(x) # {},
         NEW z \in {FireGameScene(x), FireTitleScene(x)}
  PROVE  z \in SceneSystem /\ (Kept(x, z) \/ MovesOn(x, z))
<1>1. x.runtime \in SceneId
  BY DEF SceneSystem
<1>2. Kept(x, x)
  BY DEF Kept
<1>3. CASE x.scenes[x.runtime] = "title"
  BY <1>2, <1>3, Replacing DEF FireGameScene, FireTitleScene
<1>4. CASE x.scenes[x.runtime] = "game"
  BY <1>2, <1>4, Replacing DEF FireGameScene, FireTitleScene
<1>5. CASE x.scenes[x.runtime] \notin {"title", "game"}
  BY <1>2, <1>5 DEF FireGameScene, FireTitleScene
<1> QED BY <1>3, <1>4, <1>5

\* The GameOver trigger changes no scene.
LEMMA GameOverShown ==
  ASSUME NEW x \in SceneSystem, FreeBanners(x) # {}
  PROVE  FireGameOver(x) \in SceneSystem /\ Kept(x, FireGameOver(x))
<1> DEFINE b  == CHOOSE c \in FreeBanners(x) : TRUE
           bs == [x.banners EXCEPT ![b] = [owner |-> x.runtime, left |-> BannerLife]]
<1>1. b \in BannerId
  BY DEF FreeBanners
<1> HIDE DEF b
<1>2. bs \in Banners
  BY <1>1, ScenesAssumption DEF SceneSystem, Banners
<1>3. FireGameOver(x) = x \/ FireGameOver(x) = [x EXCEPT !.banners = bs]
  BY DEF FireGameOver, SceneSystem, b
<1> HIDE DEF bs
<1>4. CASE FireGameOver(x) = x
  BY <1>4 DEF Kept
<1>5. CASE FireGameOver(x) = [x EXCEPT !.banners = bs]
  BY <1>2, <1>5, BannersSet
<1> QED BY <1>3, <1>4, <1>5

\* A deleted scene is gone, and the other scenes are as they were.
LEMMA SceneDeleted ==
  ASSUME NEW x \in SceneSystem, NEW s \in SceneId
  PROVE  LET z == DeleteScene(x, s)
         IN  /\ z \in SceneSystem
             /\ z.scenes = [x.scenes EXCEPT ![s] = "none"]
             /\ z.doomed = x.doomed \ {s} /\ z.runtime = x.runtime
<1> DEFINE bs == [b \in BannerId |-> IF b \in Owned(x, s) THEN [x.banners[b] EXCEPT !.left = 0]
                                                          ELSE x.banners[b]]
           f  == [x.scenes EXCEPT ![s] = "none"]
           z  == DeleteScene(x, s)
<1>1. bs \in Banners
  BY ScenesAssumption DEF Banners, SceneSystem
<1>2. z = [x EXCEPT !.scenes[s] = "none", !.doomed = x.doomed \ {s}, !.banners = bs]
  BY DEF DeleteScene
<1>3. f \in [SceneId -> {"none", "title", "game"}]
  BY DEF SceneSystem
<1> HIDE DEF bs
<1>4. z = [x EXCEPT !.scenes = f, !.doomed = x.doomed \ {s}, !.banners = bs]
  BY <1>2 DEF SceneSystem
<1> HIDE DEF z, f
<1>5. /\ z \in SceneSystem
      /\ z.scenes = f /\ z.doomed = x.doomed \ {s} /\ z.runtime = x.runtime
  BY <1>1, <1>3, <1>4 DEF SceneSystem, Banners
<1> QED BY <1>5 DEF z, f

\* The pass at a banner: its time runs down, or it is deleted and brings the title scene.
LEMMA BannerVisited ==
  ASSUME NEW x \in SceneSystem, NEW b \in BannerId, FreeScenes(x) # {}, NEW dt \in Nat
  PROVE  LET z == IF x.banners[b].left <= dt THEN DeleteBanner(x, b)
                                             ELSE [x EXCEPT !.banners[b].left = @ - dt]
         IN  z \in SceneSystem /\ (Kept(x, z) \/ MovesOn(x, z))
<1>1. CASE x.banners[b].left <= dt
  <2> DEFINE bs == [x.banners EXCEPT ![b] = NoBanner]
             y  == [x EXCEPT !.banners = bs]
  <2>1. bs \in Banners
    BY ScenesAssumption DEF SceneSystem, Banners, NoBanner
  <2>2. DeleteBanner(x, b) = FireTitleScene(y)
    BY DEF DeleteBanner, SceneSystem
  <2>3. y \in SceneSystem /\ Kept(x, y) /\ y.banners = bs
    BY <2>1, BannersSet
  <2> HIDE DEF y
  <2>4. FreeScenes(y) # {}
    <3>1. PICK s \in FreeScenes(x) : TRUE
      OBVIOUS
    <3>2. \A c \in BannerId : y.banners[c].owner # s
      BY <2>3, <3>1 DEF FreeScenes, SceneSystem, NoBanner, NoOwner, SceneId
    <3> QED BY <2>3, <3>1, <3>2 DEF FreeScenes, Kept
  <2>5. FireTitleScene(y) \in SceneSystem
        /\ (Kept(y, FireTitleScene(y)) \/ MovesOn(y, FireTitleScene(y)))
    BY <2>3, <2>4, Transitions
  <2> QED BY <1>1, <2>2, <2>3, <2>5 DEF Kept, MovesOn
<1>2. CASE ~(x.banners[b].left <= dt)
  <2> DEFINE left == x.banners[b].left - dt
             bs   == [x.banners EXCEPT ![b].left = left]
  <2>1. left \in 0 .. BannerLife
    BY <1>2, ScenesAssumption DEF SceneSystem
  <2> HIDE DEF left
  <2>2. bs \in Banners
    BY <2>1 DEF SceneSystem, Banners
  <2>3. [x EXCEPT !.banners[b].left = @ - dt] = [x EXCEPT !.banners = bs]
    BY DEF SceneSystem, left
  <2> QED BY <1>2, <2>2, <2>3, BannersSet
<1> QED BY <1>1, <1>2

\* Between any two triggers there is one scene that is not on its way out, and
\* Runtime.Scene names it.
OneLive(x) == x.doomed \subseteq Existing(x) /\ Existing(x) \ x.doomed = {x.runtime}

\* No trigger and no deletion of a doomed scene changes that.
LEMMA OneLiveStays ==
  ASSUME NEW x \in SceneSystem, NEW z \in SceneSystem, OneLive(x),
         \/ Kept(x, z)
         \/ MovesOn(x, z)
         \/ \E s \in x.doomed : /\ z.scenes = [x.scenes EXCEPT ![s] = "none"]
                                /\ z.doomed = x.doomed \ {s} /\ z.runtime = x.runtime
  PROVE  OneLive(z)
<1>1. CASE Kept(x, z)
  BY <1>1 DEF Kept, OneLive, Existing
<1>2. CASE MovesOn(x, z)
  <2>1. PICK id \in SceneId, type \in {"title", "game"} :
          /\ x.scenes[id] = "none" /\ id # x.runtime
          /\ z.scenes = [x.scenes EXCEPT ![id] = type]
          /\ z.doomed = x.doomed \cup {x.runtime}
          /\ z.runtime = id
    BY <1>2 DEF MovesOn
  <2>2. Existing(z) = Existing(x) \cup {id} /\ id \notin Existing(x)
    BY <2>1 DEF Existing, SceneSystem
  <2> QED BY <2>1, <2>2 DEF OneLive
<1>3. ASSUME NEW s \in x.doomed, z.scenes = [x.scenes EXCEPT ![s] = "none"],
             z.doomed = x.doomed \ {s}, z.runtime = x.runtime
      PROVE  OneLive(z)
  <2>1. Existing(z) = Existing(x) \ {s} /\ s # x.runtime
    BY <1>3 DEF Existing, SceneSystem, OneLive
  <2> QED BY <1>3, <2>1 DEF OneLive
<1> QED BY <1>1, <1>2, <1>3

-----------------------------------------------------------------------------
(* What an update of a dropper does.                                       *)

\* The planets, owners and carriers "w" before and "z" after a planet of kind k is made,
\* with the identity id, for the dropper of scene "by" or for none.
Made(w, z, id, k, by) ==
  /\ id \in NotBorn(w.planets)
  /\ z.planets \in Planets /\ NotBorn(z.planets) = NotBorn(w.planets) \ {id}
  /\ z.planets[id].status = "live" /\ z.planets[id].kind = k /\ z.planets[id].life = Forever
  /\ \A p \in PlanetId : p # id => z.planets[p] = w.planets[p]
  /\ z.owner = [w.owner EXCEPT ![id] = sys.runtime]
  /\ z.carrier = [w.carrier EXCEPT ![id] = by]

\* Spawn makes one planet and remembers it.
LEMMA SpawnMakes ==
  ASSUME NEW w, w.planets \in Planets, NotBorn(w.planets) # {}, NEW k \in Kind, NEW by
  PROVE  Made(w, Spawn(w, k, by), Spawn(w, k, by).last, k, by)
BY PlanetCreated DEF Spawn, Made

Owners == [PlanetId -> SceneId \cup {NoOwner}]

\* Every planet of ps is left alone, owner and carrier included; the others that now
\* exist were made for Runtime.Scene.
Grows(ps) ==
  \A p \in PlanetId :
    \/ planets'[p] = ps[p] /\ owner'[p] = owner[p] /\ carrier'[p] = carrier[p]
    \/ /\ p \in NotBorn(ps)
       /\ planets'[p].status = "live" /\ planets'[p].life = Forever
       /\ owner'[p] = sys.runtime

\* The planet p was made for the dropper of s, with a body taken away.
MadeFor(p, s, k) ==
  /\ planets'[p].status = "live" /\ planets'[p].life = Forever /\ planets'[p].kind = k
  /\ owner'[p] = sys.runtime /\ carrier'[p] = s

\* After Dropper::Update the dropper carries what it carried, a planet made for it, or
\* none (DropPlanet, CreatePlanet).
LEMMA DropperUpdated ==
  ASSUME TypeOK, NEW s \in SceneId, NEW drop \in BOOLEAN, NEW k \in DropKinds,
         NEW name \in Kind \cup {NoPlanet}, NEW ps \in Planets, NotBorn(ps) = NotBorn(planets),
         DropperSteps(s, drop, k, ps, name)
  PROVE  /\ planets' \in Planets /\ owner' \in Owners /\ carrier' \in Owners
         /\ Grows(ps)
         /\ \E d \in DropperState, last \in PlanetId :
              /\ droppers' = [droppers EXCEPT ![s].d = d, ![s].held = last]
              /\ \/ d.latest = NoPlanet
                 \/ /\ last = Held(s) /\ d.latest = droppers[s].d.latest
                    /\ ~Drops(droppers[s].d, drop)
                 \/ MadeFor(last, s, d.latest)
<1> DEFINE o     == droppers[s]
           d     == UpdateDropper(o.d, step, 0, drop, k)
           drops == Drops(o.d, drop) /\ name # NoPlanet
           gets  == d.latest # NoPlanet /\ (Drops(o.d, drop) \/ o.d.latest = NoPlanet)
           w     == [planets |-> ps, owner |-> owner, carrier |-> carrier, last |-> o.held]
           w1    == IF drops THEN Spawn(w, name, NoOwner) ELSE w
           w2    == IF gets THEN Spawn(w1, k, s) ELSE w1
<1>1. /\ Room((IF drops THEN 1 ELSE 0) + (IF gets THEN 1 ELSE 0))
      /\ planets' = w2.planets /\ owner' = w2.owner /\ carrier' = w2.carrier
      /\ droppers' = [droppers EXCEPT ![s].d = d, ![s].held = w2.last]
  BY DEF DropperSteps
<1>2. o.d \in DropperState /\ o.held \in PlanetId /\ step \in Nat /\ 0 \in Direction
  BY ConfigAssumption DEF TypeOK, DropperObject, Direction
<1>3. /\ d \in DropperState
      /\ gets => d.latest = k
      /\ ~gets /\ d.latest # NoPlanet => d.latest = o.d.latest /\ ~Drops(o.d, drop)
  BY <1>2, UpdateCases DEF Drops
<1>4. /\ k \in Kind /\ sys.runtime \in SceneId
      /\ owner \in Owners /\ carrier \in Owners
  BY ConfigAssumption DEF TypeOK, SceneSystem, Owners
<1>5. /\ w.planets = ps /\ w.owner = owner /\ w.carrier = carrier /\ w.last = Held(s)
  BY DEF Held
<1>6. /\ drops \/ gets => NotBorn(ps) # {}
      /\ drops /\ gets => \A id : NotBorn(ps) \ {id} # {}
  <2> HIDE DEF drops, gets
  <2>1. CASE drops /\ gets
    <3>1. Room(2)
      BY <1>1, <2>1
    <3> QED BY <3>1, RoomForOne
  <2>2. CASE (drops \/ gets) /\ ~(drops /\ gets)
    <3>1. Room(1)
      BY <1>1, <2>2
    <3> QED BY <2>2, <3>1, RoomForOne
  <2> QED BY <2>1, <2>2
<1> HIDE DEF w, d
<1>7. CASE drops
  <2> DEFINE a == w1.last
  <2>1. w1 = Spawn(w, name, NoOwner)
    BY <1>7
  <2>2. Made(w, w1, a, name, NoOwner)
    BY <1>5, <1>6, <1>7, <2>1, SpawnMakes
  <2> HIDE DEF w1, drops
  <2>3. CASE gets
    <3> DEFINE b == w2.last
    <3>1. w2 = Spawn(w1, k, s)
      BY <2>3
    <3>2. NotBorn(w1.planets) # {} /\ w1.planets \in Planets
      BY <1>5, <1>6, <1>7, <2>2, <2>3 DEF Made
    <3>3. Made(w1, w2, b, k, s)
      BY <1>4, <3>1, <3>2, SpawnMakes
    <3> HIDE DEF w2, gets
    <3>4. /\ a \in PlanetId /\ b \in PlanetId /\ a # b
          /\ a \in NotBorn(ps) /\ b \in NotBorn(ps)
      BY <1>5, <2>2, <3>3 DEF Made, NotBorn
    <3>5. owner' \in Owners /\ carrier' \in Owners /\ planets' \in Planets
      BY <1>1, <1>4, <1>5, <2>2, <3>3, <3>4 DEF Made, Owners
    <3>6. Grows(ps)
      BY <1>1, <1>4, <1>5, <2>2, <3>3, <3>4 DEF Made, Grows, Owners
    <3>7. MadeFor(b, s, k)
      BY <1>1, <1>4, <1>5, <2>2, <3>3, <3>4 DEF Made, MadeFor, Owners
    <3> QED BY <1>1, <1>3, <2>3, <3>4, <3>5, <3>6, <3>7
  <2>4. CASE ~gets
    <3>1. w2 = w1
      BY <2>4
    <3> HIDE DEF w2, gets
    <3>2. a \in PlanetId /\ a \in NotBorn(ps)
      BY <1>5, <2>2 DEF Made, NotBorn
    <3>3. owner' \in Owners /\ carrier' \in Owners /\ planets' \in Planets
      BY <1>1, <1>4, <1>5, <2>2, <3>1, <3>2 DEF Made, Owners
    <3>4. Grows(ps)
      BY <1>1, <1>4, <1>5, <2>2, <3>1, <3>2 DEF Made, Grows, Owners
    <3>5. d.latest = NoPlanet
      BY <1>3, <1>7, <2>4 DEF drops
    <3> QED BY <1>1, <1>3, <3>1, <3>2, <3>3, <3>4, <3>5
  <2> QED BY <2>3, <2>4
<1>8. CASE ~drops
  <2>1. w1 = w
    BY <1>8
  <2> HIDE DEF w1
  <2>2. CASE gets
    <3> DEFINE b == w2.last
    <3>1. w2 = Spawn(w, k, s)
      BY <2>1, <2>2
    <3>2. Made(w, w2, b, k, s)
      BY <1>4, <1>5, <1>6, <2>2, <3>1, SpawnMakes
    <3> HIDE DEF w2, gets
    <3>3. b \in PlanetId /\ b \in NotBorn(ps)
      BY <1>5, <3>2 DEF Made, NotBorn
    <3>4. owner' \in Owners /\ carrier' \in Owners /\ planets' \in Planets
      BY <1>1, <1>4, <1>5, <3>2, <3>3 DEF Made, Owners
    <3>5. Grows(ps)
      BY <1>1, <1>4, <1>5, <3>2, <3>3 DEF Made, Grows, Owners
    <3>6. MadeFor(b, s, k)
      BY <1>1, <1>4, <1>5, <3>2, <3>3 DEF Made, MadeFor, Owners
    <3> QED BY <1>1, <1>3, <2>2, <3>3, <3>4, <3>5, <3>6
  <2>3. CASE ~gets
    <3>1. w2 = w
      BY <2>1, <2>3
    <3> HIDE DEF w2
    <3>2. planets' = ps /\ owner' = owner /\ carrier' = carrier /\ w2.last = Held(s)
      BY <1>1, <1>5, <3>1
    <3>3. Grows(ps)
      BY <3>2 DEF Grows
    <3>4. Held(s) \in PlanetId
      BY <1>2 DEF Held
    <3> QED BY <1>1, <1>3, <1>4, <2>3, <3>2, <3>3, <3>4
  <2> QED BY <2>2, <2>3
<1> QED BY <1>7, <1>8

-----------------------------------------------------------------------------
(* Type correctness.                                                       *)

\* A new dropper, one that fades and one whose time runs down are droppers.
LEMMA DropperObjects ==
  /\ NoDropper \in DropperObject
  /\ [NoDropper EXCEPT !.exists = TRUE] \in DropperObject
  /\ \A o \in DropperObject, dt \in Nat :
       /\ FadeAway(o) \in DropperObject
       /\ ~(o.life <= dt) => [o EXCEPT !.life = @ - dt] \in DropperObject
<1>1. NewDropper \in DropperState /\ 1 \in PlanetId
  BY DropperAssumption, PlanetAssumption, GameAssumption DEF NewDropper, DropperState, PlanetId
<1>2. ASSUME NEW o \in DropperObject, NEW dt \in Nat, ~(o.life <= dt)
      PROVE  [o EXCEPT !.life = @ - dt] \in DropperObject
  BY <1>2, GameAssumption DEF DropperObject, Forever
<1>3. NoDropper \in DropperObject /\ [NoDropper EXCEPT !.exists = TRUE] \in DropperObject
  BY <1>1 DEF NoDropper, DropperObject
<1>4. ASSUME NEW o \in DropperObject PROVE FadeAway(o) \in DropperObject
  BY GameAssumption DEF DropperObject, FadeAway
<1> QED BY <1>2, <1>3, <1>4

\* The first state is well typed.
LEMMA GameInitTyped == Init => TypeOK
<1> SUFFICES ASSUME Init PROVE TypeOK
  OBVIOUS
<1>1. sys \in SceneSystem
  BY ScenesAssumption DEF Init, SceneSystem, SceneId, NoBanner
<1>2. Unborn \in PlanetState
  BY ConfigAssumption DEF Unborn, PlanetState, LifeTime, TimerTime, Kind
<1> QED BY <1>1, <1>2, DropperObjects DEF Init, TypeOK

\* The GameOver trigger at Runtime.Scene: whatever it does to the scenes, they stay the
\* same ones; its dropper fades.
LEMMA GameOverTyped ==
  ASSUME TypeOK, GameOverEffects
  PROVE  /\ sys' \in SceneSystem /\ Kept(sys, sys')
         /\ droppers' \in [SceneId -> DropperObject]
         /\ droppers' = [droppers EXCEPT ![sys.runtime] = FadeAway(@)]
<1>1. sys' \in SceneSystem /\ Kept(sys, sys')
  BY GameOverShown DEF GameOverEffects, TypeOK, Kept
<1>2. sys.runtime \in SceneId
  BY DEF TypeOK, SceneSystem
<1> QED BY <1>1, <1>2, DropperObjects DEF GameOverEffects, TypeOK

\* Forgetting planets keeps everything said of planets well typed.
LEMMA ForgetTyped ==
  ASSUME TypeOK, NEW ps \in Planets, NEW S, Forget(ps, S)
  PROVE  /\ planets' \in Planets /\ owner' \in Owners /\ carrier' \in Owners
         /\ resting' \subseteq PlanetId
<1>1. Unborn \in PlanetState
  BY ConfigAssumption DEF Unborn, PlanetState, LifeTime, TimerTime, Kind
<1> QED BY <1>1 DEF Forget, TypeOK, Planets, Owners

\* The pass over the life times keeps planets planets.
LEMMA AgeTyped ==
  ASSUME NEW ps \in Planets, NEW dt \in Nat
  PROVE  Age(ps, dt) \in Planets
BY PlanetAssumption DEF Age, Expired, Planets, PlanetState, LifeTime, Forever

\* Updating a timer keeps planets planets: one past the limit is dropped.
LEMMA TimerTyped ==
  ASSUME NEW ps \in Planets, NEW p \in PlanetId, NEW dt \in Nat
  PROVE  UpdateTimer(ps, p, dt) \in Planets
BY PlanetAssumption DEF UpdateTimer, TimeUp, Planets, PlanetState, TimerTime, NoTimer

\* Every action keeps the state well typed.
LEMMA GameNextTyped == TypeOK /\ [Next]_vars => TypeOK'
<1> SUFFICES ASSUME TypeOK, [Next]_vars PROVE TypeOK'
  OBVIOUS
<1>1. /\ sys \in SceneSystem /\ sys.runtime \in SceneId
      /\ planets \in Planets /\ owner \in Owners /\ carrier \in Owners
      /\ resting \subseteq PlanetId /\ todo \subseteq Object /\ step \in Nat
      /\ droppers \in [SceneId -> DropperObject] /\ strayed \in BOOLEAN
      /\ phase \in {"physics", "update", "pass"} /\ step \in FrameTimes \cup {0}
  BY ConfigAssumption DEF TypeOK, Planets, Owners, SceneSystem
<1> DEFINE WorldTyped == /\ droppers' \in [SceneId -> DropperObject]
                         /\ planets' \in Planets /\ owner' \in Owners /\ carrier' \in Owners
                         /\ resting' \subseteq PlanetId /\ strayed' \in BOOLEAN
           FrameTyped == /\ phase' \in {"physics", "update", "pass"}
                         /\ step' \in FrameTimes \cup {0} /\ todo' \subseteq Object
<1>2. ASSUME sys' \in SceneSystem, WorldTyped, FrameTyped PROVE TypeOK'
  BY <1>2 DEF TypeOK, Planets, Owners
<1>3. UNCHANGED world => WorldTyped
  BY <1>1 DEF world
<1>4. UNCHANGED frame => FrameTyped
  BY <1>1 DEF frame
<1>5. ASSUME NEW o, Visited(o) PROVE FrameTyped
  BY <1>1, <1>5 DEF Visited
<1>6. ASSUME NEW p \in PlanetId, NEW q \in PlanetId, Contact(p, q) PROVE TypeOK'
  <2>1. NotBorn(planets) # {} /\ p \in Live(planets) /\ q \in Live(planets) /\ p # q
    BY <1>6, RoomForOne DEF Contact, Solid
  <2>2. \/ planets' = planets
        \/ /\ HasNext(planets[p].kind)
           /\ planets' = CreateFromConfig(SetLifeTime(planets, {p, q}, 0), Fresh(planets),
                                          planets[p].kind + 1)
    BY <1>1, <1>6, <2>1, ContactIs DEF Contact
  <2>3. planets' \in Planets
    <3>1. CASE HasNext(planets[p].kind)
      <4> DEFINE ps == SetLifeTime(planets, {p, q}, 0)
      <4>1. planets[p].kind + 1 \in Kind
        BY <1>1, <3>1, ConfigAssumption DEF HasNext, Planets, PlanetState, Kind
      <4>2. ps \in Planets /\ NotBorn(ps) = NotBorn(planets)
        BY <1>1, LifeTimeSet, PlanetAssumption DEF LifeTime
      <4>3. Fresh(planets) = Fresh(ps)
        BY <4>2 DEF Fresh
      <4> HIDE DEF ps
      <4>4. CreateFromConfig(ps, Fresh(ps), planets[p].kind + 1) \in Planets
        BY <2>1, <4>1, <4>2, PlanetCreated
      <4> QED BY <1>1, <2>2, <4>3, <4>4 DEF ps
    <3> QED BY <1>1, <2>2, <3>1
  <2>4. owner' \in Owners
    BY <1>1, <1>6 DEF Contact, Owners
  <2> QED BY <1>1, <1>2, <1>4, <1>6, <2>3, <2>4 DEF Contact
<1>7. ASSUME NEW p \in PlanetId, TopEnter(p) \/ TopLeave(p) PROVE TypeOK'
  <2>1. planets' \in Planets
    BY <1>1, <1>7, PlanetAssumption
    DEF TopEnter, TopLeave, OnArenaTopCollide, OnArenaTopSeparate, Planets, PlanetState, TimerTime
  <2> QED BY <1>1, <1>2, <1>4, <1>7, <2>1 DEF TopEnter, TopLeave
<1>8. ASSUME NEW s \in SceneId, Activate(s) PROVE TypeOK'
  <2>1. sys' \in SceneSystem
    BY <1>1, <1>8, Transitions DEF Activate
  <2>2. droppers' \in [SceneId -> DropperObject]
    BY <1>1, <1>8, DropperObjects DEF Activate
  <2>3. todo' \subseteq Object
    BY <1>1, <1>8 DEF Activate, Object
  <2> QED BY <1>1, <1>2, <1>8, <2>1, <2>2, <2>3 DEF Activate
<1>9. ASSUME NEW s \in SceneId, GameOverInput(s) PROVE TypeOK'
  <2>1. planets' \in Planets
    BY <1>1, <1>9, LifeTimeSet, PlanetAssumption DEF GameOverInput, GameOverTrigger, LifeTime
  <2> QED BY <1>1, <1>2, <1>4, <1>9, <2>1, GameOverTyped DEF GameOverInput
<1>10. ASSUME NEW s \in SceneId, NEW drop \in BOOLEAN, NEW k \in DropKinds,
              NEW name \in Kind \cup {NoPlanet}, NEW ps \in Planets,
              NotBorn(ps) = NotBorn(planets), DropperSteps(s, drop, k, ps, name),
              sys' \in SceneSystem, strayed' \in BOOLEAN
       PROVE  TypeOK'
  <2>1. planets' \in Planets /\ owner' \in Owners /\ carrier' \in Owners
    BY <1>10, DropperUpdated
  <2>2. PICK d \in DropperState, last \in PlanetId :
          droppers' = [droppers EXCEPT ![s].d = d, ![s].held = last]
    BY <1>10, DropperUpdated
  <2>3. droppers' \in [SceneId -> DropperObject]
    BY <1>1, <2>2 DEF DropperObject
  <2> QED BY <1>1, <1>2, <1>5, <1>10, <2>1, <2>3 DEF DropperSteps
<1>11. ASSUME NEW s \in SceneId, NEW k \in DropKinds, DropPlanetOf(s, k) PROVE TypeOK'
  <2>1. planets[Held(s)].kind \in Kind
    BY <1>1, <1>11 DEF Planets, PlanetState, Held, DropperObject
  <2>2. /\ SetLifeTime(planets, {Held(s)}, 0) \in Planets
        /\ NotBorn(SetLifeTime(planets, {Held(s)}, 0)) = NotBorn(planets)
    BY <1>1, LifeTimeSet, PlanetAssumption DEF LifeTime
  <2> QED BY <1>1, <1>10, <1>11, <2>1, <2>2 DEF DropPlanetOf
<1>12. ASSUME NEW s \in SceneId, NEW k \in DropKinds, NEW name \in Kind \cup {NoPlanet},
              StrayDrop(s, k, name)
       PROVE  TypeOK'
  <2>1. CASE \E S : /\ DropperSteps(s, TRUE, k, SetLifeTime(planets, S, 0), name)
                    /\ UNCHANGED sys
    <3>1. PICK S : /\ DropperSteps(s, TRUE, k, SetLifeTime(planets, S, 0), name)
                   /\ UNCHANGED sys
      BY <2>1
    <3>2. /\ SetLifeTime(planets, S, 0) \in Planets
          /\ NotBorn(SetLifeTime(planets, S, 0)) = NotBorn(planets)
      BY <1>1, LifeTimeSet, PlanetAssumption DEF LifeTime
    <3> QED BY <1>1, <1>10, <1>12, <3>1, <3>2 DEF StrayDrop
  <2>2. ASSUME NEW r \in Existing(sys), sys' = Doom(sys, r) PROVE sys' \in SceneSystem
    BY <1>1, <2>2 DEF Doom, SceneSystem, Existing
  <2>3. ASSUME NEW b \in Showing(sys), sys' = [sys EXCEPT !.banners[b].left = 0]
        PROVE  sys' \in SceneSystem
    <3> DEFINE bs == [sys.banners EXCEPT ![b].left = 0]
    <3>1. bs \in Banners
      BY <1>1, ScenesAssumption DEF SceneSystem, Banners, Showing
    <3>2. sys' = [sys EXCEPT !.banners = bs]
      BY <1>1, <2>3 DEF SceneSystem
    <3> HIDE DEF bs
    <3> QED BY <1>1, <3>1, <3>2, BannersSet
  <2>4. CASE DropperSteps(s, TRUE, k, planets, name) /\ sys' \in SceneSystem
    BY <1>1, <1>10, <1>12, <2>4 DEF StrayDrop
  <2> QED BY <1>12, <2>1, <2>2, <2>3, <2>4 DEF StrayDrop
<1>13. ASSUME NEW dt \in FrameTimes, BeginUpdate(dt) PROVE TypeOK'
  <2>1. todo' \subseteq Object
    BY <1>13 DEF BeginUpdate, Object, Live
  <2> QED BY <1>1, <1>2, <1>3, <1>13, <2>1 DEF BeginUpdate
<1>14. ASSUME NEW s \in SceneId, UpdateScene(s) \/ SkipDropper(s) PROVE TypeOK'
  BY <1>1, <1>2, <1>3, <1>5, <1>14 DEF UpdateScene, SkipDropper
<1>15. ASSUME NEW s \in SceneId, NEW k \in DropKinds, UpdateDropperObject(s, k) PROVE TypeOK'
  BY <1>1, <1>10, <1>15 DEF UpdateDropperObject
<1>16. ASSUME NEW p \in PlanetId, UpdatePlanet(p) PROVE TypeOK'
  <2>1. GameOverTrigger(planets, OwnedBy(sys.runtime)) \in Planets
    BY <1>1, LifeTimeSet, PlanetAssumption DEF GameOverTrigger, LifeTime
  <2>2. planets' \in Planets
    BY <1>1, <1>16, <2>1, TimerTyped DEF UpdatePlanet
  <2>3. sys' \in SceneSystem /\ droppers' \in [SceneId -> DropperObject]
    BY <1>1, <1>16, GameOverTyped DEF UpdatePlanet
  <2> QED BY <1>1, <1>2, <1>5, <1>16, <2>2, <2>3 DEF UpdatePlanet
<1>17. CASE BeginPass
  <2>1. planets' \in Planets /\ owner' \in Owners /\ carrier' \in Owners /\ resting' \subseteq PlanetId
    BY <1>1, <1>17, AgeTyped, ForgetTyped DEF BeginPass
  <2>2. droppers' \in [SceneId -> DropperObject]
    BY <1>1, <1>17, DropperObjects DEF BeginPass, AgeDropper
  <2>3. todo' \subseteq Object
    BY <1>17 DEF BeginPass, Object, Existing, Showing
  <2> QED BY <1>1, <1>2, <1>17, <2>1, <2>2, <2>3 DEF BeginPass
<1>18. ASSUME NEW s \in SceneId, VisitScene(s) PROVE TypeOK'
  <2>1. CASE s \in sys.doomed
    <3>1. planets' \in Planets /\ owner' \in Owners /\ carrier' \in Owners /\ resting' \subseteq PlanetId
      BY <1>1, <1>18, <2>1, ForgetTyped DEF VisitScene
    <3>2. droppers' \in [SceneId -> DropperObject]
      BY <1>1, <1>18, <2>1, DropperObjects DEF VisitScene
    <3>3. todo' \subseteq Object
      BY <1>1, <1>18, <2>1 DEF VisitScene, Object, Owned, Showing
    <3>4. sys' = DeleteScene(sys, s)
      BY <1>18, <2>1 DEF VisitScene
    <3>5. sys' \in SceneSystem
      BY <1>1, <3>4, SceneDeleted
    <3> QED BY <1>1, <1>2, <1>18, <2>1, <3>1, <3>2, <3>3, <3>5 DEF VisitScene
  <2>2. CASE s \notin sys.doomed
    BY <1>1, <1>2, <1>3, <1>18, <2>2 DEF VisitScene
  <2> QED BY <2>1, <2>2
<1>19. ASSUME NEW b \in BannerId, VisitBanner(b) PROVE TypeOK'
  <2>1. sys' \in SceneSystem
    BY <1>1, <1>19, BannerVisited DEF VisitBanner
  <2> QED BY <1>2, <1>3, <1>5, <1>19, <2>1 DEF VisitBanner
<1>20. CASE EndPass
  BY <1>1, <1>2, <1>3, <1>20 DEF EndPass
<1>21. CASE UNCHANGED vars
  BY <1>1, <1>2, <1>3, <1>4, <1>21 DEF vars
<1>22. Physics => TypeOK'
  BY <1>6, <1>7 DEF Physics
<1>23. Player => TypeOK'
  BY <1>8, <1>9, <1>11, <1>12 DEF Player
<1>24. Advance => TypeOK'
  BY <1>13, <1>14, <1>15, <1>16, <1>17, <1>18, <1>19, <1>20 DEF Advance
<1> QED BY <1>21, <1>22, <1>23, <1>24 DEF Next

\* Scenes, droppers, planets and the frame are well typed in every reachable state.
THEOREM GameTyped == Spec => []TypeOK
BY GameInitTyped, GameNextTyped, PTL DEF Spec

-----------------------------------------------------------------------------
(* The carried planet, and planets and their scenes.                       *)

\* A dropper that GameOver has not reached carries a planet.
Attached(s) == droppers[s].exists /\ droppers[s].life = Forever /\ Carrying(s)

\* What it carries is the object made for it, which belongs to its scene.
Sound(s) ==
  /\ Present(s)
  /\ planets[Held(s)].life = Forever
  /\ planets[Held(s)].kind = droppers[s].d.latest
  /\ owner[Held(s)] = s

\* Droppers are in game scenes.
InGames == \A s \in SceneId : droppers[s].exists => sys.scenes[s] = "game"

AllSound == \A s \in SceneId \ sys.doomed : Attached(s) => Sound(s)

AllOwned == \A p \in Live(planets) : planets[p].life # 0 => owner[p] \in Existing(sys)

\* What makes HeldIntact and NoOrphans inductive.  A new planet goes to the scene that
\* Runtime.Scene names, so that the carried planet of a dropper belongs to the dropper's
\* scene only because a dropper outside Runtime.Scene is in a doomed scene (OneLive,
\* InGames); the GameOver trigger reaches the planets of that scene and its dropper at once.
GameInv ==
  /\ TypeOK
  /\ InGames
  /\ ~strayed => OneLive(sys) /\ AllSound /\ AllOwned

\* The planet p is left alone by a step.
Untouched(p) ==
  /\ planets'[p].status = planets[p].status
  /\ planets'[p].kind = planets[p].kind
  /\ planets'[p].life = planets[p].life
  /\ owner'[p] = owner[p] /\ carrier'[p] = carrier[p]

\* A dropper of the scene that Runtime.Scene names carries what it carried, untouched, or
\* what was made for it.
HeldStays ==
  \A s \in SceneId : s = sys'.runtime /\ Attached(s)' =>
    /\ droppers[s].exists
    /\ \/ MadeFor(droppers'[s].held, s, droppers'[s].d.latest)
       \/ /\ Attached(s)
          /\ droppers'[s].d.latest = droppers[s].d.latest
          /\ droppers'[s].held = Held(s)
          /\ s = sys.runtime /\ Sound(s) => Untouched(Held(s))

\* A planet that is not pending deletion was not before, with the same owner, or belongs to
\* the scene that Runtime.Scene named.
OwnedStays ==
  \A p \in PlanetId : planets'[p].status = "live" /\ planets'[p].life # 0 =>
    \/ owner'[p] = sys.runtime
    \/ planets[p].status = "live" /\ planets[p].life # 0 /\ owner'[p] = owner[p]

\* A step that deletes no scene and does no more than that keeps the invariant.
LEMMA StepKeeps ==
  ASSUME GameInv, TypeOK', strayed' = strayed,
         Kept(sys, sys') \/ MovesOn(sys, sys'),
         \A s \in SceneId : droppers'[s].exists => droppers[s].exists \/ sys'.scenes[s] = "game",
         ~strayed => HeldStays /\ OwnedStays
  PROVE  GameInv'
<1>1. TypeOK /\ InGames /\ sys \in SceneSystem /\ sys' \in SceneSystem
  BY DEF GameInv, TypeOK
<1>2. \A s \in SceneId : sys.scenes[s] # "none" => sys'.scenes[s] = sys.scenes[s]
  BY <1>1 DEF Kept, MovesOn, SceneSystem
<1>3. InGames'
  BY <1>1, <1>2 DEF InGames
<1>4. ASSUME ~strayed PROVE OneLive(sys') /\ AllSound' /\ AllOwned'
  <2>1. OneLive(sys) /\ AllSound /\ AllOwned /\ HeldStays /\ OwnedStays
    BY <1>4 DEF GameInv
  <2>2. OneLive(sys')
    BY <1>1, <2>1, OneLiveStays
  <2>3. Existing(sys) \subseteq Existing(sys')
    BY <1>2 DEF Existing
  <2>4. sys.runtime \in Existing(sys) /\ sys.runtime \notin sys.doomed /\ sys.runtime \in SceneId
    BY <2>1 DEF OneLive, Existing
  <2>5. AllOwned'
    BY <2>1, <2>3, <2>4 DEF AllOwned, OwnedStays, Live
  <2>6. ASSUME NEW s \in SceneId, s \notin sys'.doomed, Attached(s)' PROVE Sound(s)'
    <3>1. s = sys'.runtime
      BY <1>3, <2>2, <2>6 DEF Attached, InGames, OneLive, Existing
    <3>2. droppers[s].exists
      BY <2>1, <2>6, <3>1 DEF HeldStays
    <3>3. s = sys.runtime
      <4>1. sys.scenes[s] # "none"
        BY <1>1, <3>2 DEF InGames
      <4> QED BY <3>1, <4>1 DEF Kept, MovesOn
    <3>4. CASE MadeFor(droppers'[s].held, s, droppers'[s].d.latest)
      BY <3>3, <3>4 DEF MadeFor, Sound, Present, Held
    <3>5. CASE ~MadeFor(droppers'[s].held, s, droppers'[s].d.latest)
      <4>1. /\ Attached(s)
            /\ droppers'[s].d.latest = droppers[s].d.latest
            /\ droppers'[s].held = Held(s)
            /\ Sound(s) => Untouched(Held(s))
        BY <2>1, <2>6, <3>1, <3>3, <3>5 DEF HeldStays
      <4>2. Sound(s)
        BY <2>1, <2>4, <3>3, <4>1 DEF AllSound
      <4> QED BY <4>1, <4>2 DEF Untouched, Sound, Present, Held
    <3> QED BY <3>4, <3>5
  <2> QED BY <2>2, <2>5, <2>6 DEF AllSound
<1> QED BY <1>3, <1>4 DEF GameInv

\* The same for a step that leaves scenes, droppers and their planets alone.
LEMMA StillKeeps ==
  ASSUME GameInv, UNCHANGED <<sys, droppers, owner, carrier, strayed>>, TypeOK',
         \A p \in PlanetId : Untouched(p)
  PROVE  GameInv'
<1>1. Kept(sys, sys')
  BY DEF Kept
<1>2. \A s \in SceneId : Held(s) \in PlanetId
  BY DEF Held, GameInv, TypeOK, DropperObject
<1>3. HeldStays
  BY <1>2 DEF HeldStays, Attached, Carrying, Held
<1>4. OwnedStays
  BY DEF OwnedStays, Untouched
<1> QED BY <1>1, <1>3, <1>4, StepKeeps

\* GameInv holds at the start.
LEMMA GameInvInit == Init => GameInv
<1> SUFFICES ASSUME Init PROVE GameInv
  OBVIOUS
<1>1. TypeOK
  BY GameInitTyped
<1>2. /\ sys.doomed = {} /\ sys.runtime = 1 /\ 1 \in SceneId
      /\ sys.scenes = [s \in SceneId |-> IF s = 1 THEN "title" ELSE "none"]
  BY ScenesAssumption DEF Init, SceneId
<1>3. OneLive(sys)
  BY <1>2 DEF OneLive, Existing
<1>4. \A s \in SceneId : ~droppers[s].exists
  BY DEF Init, NoDropper
<1>5. Live(planets) = {}
  BY DEF Init, Live, Unborn
<1> QED BY <1>1, <1>3, <1>4, <1>5 DEF GameInv, InGames, AllSound, AllOwned, Attached

\* A contact touches no carried planet, which has no body, and a planet it makes belongs to
\* Runtime.Scene.
LEMMA ContactKeeps ==
  ASSUME GameInv, TypeOK', NEW p \in PlanetId, NEW q \in PlanetId, Contact(p, q)
  PROVE  GameInv'
<1>1. /\ planets \in Planets /\ NotBorn(planets) # {} /\ p # q
      /\ p \in Live(planets) /\ q \in Live(planets)
      /\ carrier[p] = NoOwner /\ carrier[q] = NoOwner
  BY RoomForOne DEF GameInv, TypeOK, Planets, Contact, Solid
<1> DEFINE id == Fresh(planets)
           ps == SetLifeTime(planets, {p, q}, 0)
<1>2. \/ planets' = planets
      \/ /\ HasNext(planets[p].kind)
         /\ planets' = CreateFromConfig(ps, id, planets[p].kind + 1)
  BY <1>1, ContactIs DEF Contact
<1>3. id \in NotBorn(planets) /\ id \in PlanetId
  BY <1>1 DEF Fresh, NotBorn
<1>4. \A r \in PlanetId :
        \/ planets'[r] = planets[r]
        \/ r \in {p, q} /\ planets'[r] = [planets[r] EXCEPT !.life = 0]
        \/ /\ r = id /\ planets'[r].status = "live"
  <2> HIDE DEF id
  <2>1. \A r \in PlanetId : ps[r] = IF r \in {p, q} THEN [planets[r] EXCEPT !.life = 0] ELSE planets[r]
    BY DEF SetLifeTime
  <2>2. ps \in Planets
    BY <1>1, LifeTimeSet, PlanetAssumption DEF LifeTime
  <2> HIDE DEF ps
  <2> QED BY <1>2, <1>3, <2>1, <2>2 DEF CreateFromConfig, Planets
<1>5. /\ UNCHANGED <<sys, droppers, carrier, strayed>>
      /\ owner' = [r \in PlanetId |-> IF planets'[r].status # planets[r].status
                                        THEN sys.runtime ELSE owner[r]]
  BY DEF Contact
<1>6. OwnedStays
  <2> SUFFICES ASSUME NEW r \in PlanetId, planets'[r].status = "live", planets'[r].life # 0
               PROVE  \/ owner'[r] = sys.runtime
                      \/ planets[r].status = "live" /\ planets[r].life # 0 /\ owner'[r] = owner[r]
    BY DEF OwnedStays
  <2>1. CASE planets'[r] = planets[r]
    BY <1>5, <2>1
  <2>2. CASE r \in {p, q} /\ planets'[r] = [planets[r] EXCEPT !.life = 0]
    BY <1>1, <2>2 DEF Planets, PlanetState
  <2>3. CASE r = id
    BY <1>3, <1>5, <2>3 DEF NotBorn
  <2> QED BY <1>4, <2>1, <2>2, <2>3
<1>7. HeldStays
  <2> SUFFICES ASSUME NEW s \in SceneId, Sound(s) PROVE Untouched(Held(s))
    BY <1>5 DEF HeldStays, Attached, Carrying, Held
  <2>1. Held(s) \in PlanetId
    BY DEF Held, GameInv, TypeOK, DropperObject
  <2>2. Held(s) \notin {p, q, id}
    BY <1>1, <1>3 DEF Sound, Present, NoOwner, SceneId, NotBorn
  <2> QED BY <1>4, <1>5, <2>1, <2>2 DEF Untouched
<1>8. Kept(sys, sys')
  BY <1>5 DEF Kept
<1> QED BY <1>5, <1>6, <1>7, <1>8, StepKeeps

\* The GameOver trigger gives the planets of Runtime.Scene a life time, but it also makes
\* that scene's dropper fade.
LEMMA GameOverKeeps ==
  ASSUME GameInv, TypeOK', GameOverEffects, UNCHANGED <<owner, carrier, strayed>>,
         \A p \in PlanetId : /\ planets'[p].status = planets[p].status
                             /\ owner[p] = sys.runtime \/ planets'[p].life = planets[p].life
  PROVE  GameInv'
<1>1. TypeOK /\ Kept(sys, sys') /\ droppers' = [droppers EXCEPT ![sys.runtime] = FadeAway(@)]
  BY GameOverTyped DEF GameInv
<1>2. sys.runtime \in SceneId /\ droppers \in [SceneId -> DropperObject]
  BY <1>1 DEF TypeOK, SceneSystem
<1>3. droppers'[sys.runtime].life # Forever
  BY <1>1, <1>2, GameAssumption DEF FadeAway, DropperObject, Forever
<1>4. HeldStays
  BY <1>1, <1>3 DEF HeldStays, Attached, Kept
<1>5. OwnedStays
  BY DEF OwnedStays
<1>6. \A s \in SceneId : droppers'[s].exists => droppers[s].exists
  BY <1>1, <1>2 DEF FadeAway, DropperObject
<1> QED BY <1>1, <1>4, <1>5, <1>6, StepKeeps

\* A new planet of a dropper belongs to Runtime.Scene, and what another dropper carries is
\* not what this one lets go.
LEMMA DropperKeeps ==
  ASSUME GameInv, TypeOK', UNCHANGED <<sys, strayed>>,
         NEW s \in SceneId, NEW drop \in BOOLEAN, NEW k \in DropKinds,
         NEW name \in Kind \cup {NoPlanet}, NEW ps \in Planets, NotBorn(ps) = NotBorn(planets),
         DropperSteps(s, drop, k, ps, name),
         \/ ps = planets
         \/ Drops(droppers[s].d, drop) /\ Present(s) /\ ps = SetLifeTime(planets, {Held(s)}, 0)
  PROVE  GameInv'
<1>1. TypeOK /\ planets \in Planets
  BY DEF GameInv, TypeOK, Planets
<1>2. Grows(ps)
  BY <1>1, DropperUpdated
<1>3. PICK d \in DropperState, last \in PlanetId :
        /\ droppers' = [droppers EXCEPT ![s].d = d, ![s].held = last]
        /\ \/ d.latest = NoPlanet
           \/ /\ last = Held(s) /\ d.latest = droppers[s].d.latest
              /\ ~Drops(droppers[s].d, drop)
           \/ MadeFor(last, s, d.latest)
  BY <1>1, DropperUpdated
<1>4. /\ droppers'[s].exists = droppers[s].exists /\ droppers'[s].life = droppers[s].life
      /\ droppers'[s].d = d /\ droppers'[s].held = last
      /\ \A r \in SceneId : r # s => droppers'[r] = droppers[r]
  BY <1>1, <1>3 DEF TypeOK, DropperObject
<1>5. \A p \in PlanetId : /\ ps[p].status = planets[p].status /\ ps[p].kind = planets[p].kind
                          /\ ps[p] = planets[p] \/ (p = Held(s) /\ Present(s) /\ ps[p].life = 0
                                                    /\ Drops(droppers[s].d, drop))
  BY <1>1 DEF SetLifeTime, Planets, PlanetState
<1>6. OwnedStays
  BY <1>2, <1>5 DEF OwnedStays, Grows
<1>7. ASSUME NEW r \in SceneId, Sound(r), r # s \/ ~Drops(droppers[s].d, drop)
      PROVE  Untouched(Held(r))
  <2>1. Held(r) \in PlanetId
    BY <1>1 DEF Held, TypeOK, DropperObject
  <2>2. planets[Held(r)].status = "live" /\ carrier[Held(r)] = r
    BY <1>7 DEF Sound, Present
  <2>3. ps[Held(r)] = planets[Held(r)]
    BY <1>5, <1>7, <2>1, <2>2 DEF Present
  <2>4. Held(r) \notin NotBorn(ps)
    BY <2>2 DEF NotBorn
  <2> QED BY <1>2, <2>1, <2>3, <2>4 DEF Grows, Untouched
<1>8. HeldStays
  <2> SUFFICES ASSUME NEW r \in SceneId, Attached(r)'
               PROVE  /\ droppers[r].exists
                      /\ \/ MadeFor(droppers'[r].held, r, droppers'[r].d.latest)
                         \/ /\ Attached(r)
                            /\ droppers'[r].d.latest = droppers[r].d.latest
                            /\ droppers'[r].held = Held(r)
                            /\ Sound(r) => Untouched(Held(r))
    BY DEF HeldStays
  <2>1. CASE r # s
    BY <1>4, <1>7, <2>1 DEF Attached, Carrying, Held
  <2>2. CASE r = s
    BY <1>3, <1>4, <1>7, <2>2 DEF Attached, Carrying, Held
  <2> QED BY <2>1, <2>2
<1>9. Kept(sys, sys')
  BY DEF Kept
<1> QED BY <1>4, <1>6, <1>8, <1>9, StepKeeps

\* A new game scene has a dropper that carries nothing.
LEMMA ActivateKeeps ==
  ASSUME GameInv, TypeOK', NEW s \in SceneId, Activate(s)
  PROVE  GameInv'
<1>1. /\ sys \in SceneSystem /\ FreeScenes(sys) # {} /\ sys' = FireGameScene(sys)
      /\ UNCHANGED <<planets, owner, carrier, strayed>>
      /\ droppers' = [r \in SceneId |->
                        IF sys'.scenes[r] = "game" /\ sys.scenes[r] = "none"
                          THEN [NoDropper EXCEPT !.exists = TRUE] ELSE droppers[r]]
  BY DEF Activate, GameInv, TypeOK
<1>2. Kept(sys, sys') \/ MovesOn(sys, sys')
  BY <1>1, Transitions
<1>3. \A r \in SceneId : droppers'[r] = droppers[r] \/ droppers'[r].d.latest = NoPlanet
  BY <1>1 DEF NoDropper, NewDropper
<1>4. \A r \in SceneId : Held(r) \in PlanetId
  BY DEF Held, GameInv, TypeOK, DropperObject
<1>5. HeldStays
  BY <1>1, <1>3, <1>4 DEF HeldStays, Attached, Carrying, Held, Untouched
<1>6. OwnedStays
  BY <1>1 DEF OwnedStays
<1> QED BY <1>1, <1>2, <1>5, <1>6, StepKeeps

\* Using a dangling "latest" may do anything to the planets, but droppers stay in game scenes.
LEMMA StrayKeeps ==
  ASSUME GameInv, TypeOK', NEW s \in SceneId, NEW k \in DropKinds,
         NEW name \in Kind \cup {NoPlanet}, StrayDrop(s, k, name)
  PROVE  GameInv'
<1>1. TypeOK /\ InGames /\ strayed' = TRUE
  BY DEF GameInv, StrayDrop
<1>2. sys'.scenes = sys.scenes
  BY <1>1 DEF StrayDrop, Doom, TypeOK, SceneSystem
<1>3. PICK ps : DropperSteps(s, TRUE, k, ps, name)
  BY DEF StrayDrop
<1>4. PICK d, last : droppers' = [droppers EXCEPT ![s].d = d, ![s].held = last]
  BY <1>3 DEF DropperSteps
<1>5. \A r \in SceneId : droppers'[r].exists = droppers[r].exists
  BY <1>1, <1>4 DEF TypeOK, DropperObject
<1> QED BY <1>1, <1>2, <1>5 DEF GameInv, InGames

\* The pass deletes planets whose time is over, never a carried one.
LEMMA BeginPassKeeps ==
  ASSUME GameInv, TypeOK', BeginPass
  PROVE  GameInv'
<1> DEFINE aged == Age(planets, step)
           S    == {p \in PlanetId : aged[p].status = "gone"}
<1>1. /\ planets \in Planets /\ step \in Nat /\ droppers \in [SceneId -> DropperObject]
      /\ UNCHANGED <<sys, strayed>>
      /\ Forget(aged, S)
      /\ droppers' = [s \in SceneId |-> AgeDropper(droppers[s])]
  BY ConfigAssumption DEF GameInv, TypeOK, Planets, BeginPass
<1>2. \A p \in PlanetId :
        /\ aged[p].status = "live" => planets[p].status = "live"
        /\ aged[p].status = "live" /\ aged[p].life # 0 => planets[p].life # 0
        /\ planets[p].status = "live" /\ planets[p].life = Forever => aged[p] = planets[p]
  BY <1>1 DEF Age, Expired, Planets, PlanetState, LifeTime, Forever
<1> HIDE DEF aged
<1>3. \A p \in PlanetId :
        /\ planets'[p].status = "live" => planets'[p] = aged[p] /\ owner'[p] = owner[p]
        /\ aged[p].status = "live" => /\ planets'[p] = aged[p] /\ owner'[p] = owner[p]
                                      /\ carrier'[p] = carrier[p]
  BY <1>1 DEF Forget, Unborn
<1>4. OwnedStays
  BY <1>2, <1>3 DEF OwnedStays
<1>5. \A s \in SceneId : droppers'[s].exists =>
        /\ droppers[s].exists
        /\ droppers'[s].life = Forever => droppers'[s] = droppers[s]
  BY <1>1 DEF AgeDropper, NoDropper, DropperObject, Forever
<1>6. HeldStays
  <2> SUFFICES ASSUME NEW s \in SceneId, Attached(s)', Sound(s) PROVE Untouched(Held(s))
    BY <1>5 DEF HeldStays, Attached, Carrying, Held
  <2>1. Held(s) \in PlanetId
    BY <1>1 DEF Held, DropperObject
  <2>2. planets[Held(s)].status = "live" /\ planets[Held(s)].life = Forever
    BY DEF Sound, Present
  <2> QED BY <1>2, <1>3, <2>1, <2>2 DEF Untouched
<1>7. Kept(sys, sys')
  BY <1>1 DEF Kept
<1> QED BY <1>1, <1>4, <1>5, <1>6, <1>7, StepKeeps

\* A deleted scene takes with it its planets and its dropper.  It is not the scene that
\* Runtime.Scene names, whose dropper keeps what it carries.
LEMMA VisitSceneKeeps ==
  ASSUME GameInv, TypeOK', NEW s \in SceneId, VisitScene(s)
  PROVE  GameInv'
<1>1. TypeOK /\ InGames /\ sys \in SceneSystem /\ sys' \in SceneSystem
  BY DEF GameInv, TypeOK
<1>2. CASE s \notin sys.doomed
  <2>1. UNCHANGED <<sys, droppers, planets, owner, carrier, strayed>>
    BY <1>2 DEF VisitScene, world
  <2> QED BY <2>1, StillKeeps DEF Untouched
<1>3. CASE s \in sys.doomed
  <2>1. /\ sys' = DeleteScene(sys, s) /\ strayed' = strayed
        /\ Forget(planets, OwnedBy(s))
        /\ droppers' = [droppers EXCEPT ![s] = NoDropper]
    BY <1>3 DEF VisitScene
  <2>2. /\ sys'.scenes = [sys.scenes EXCEPT ![s] = "none"]
        /\ sys'.doomed = sys.doomed \ {s} /\ sys'.runtime = sys.runtime
    BY <1>1, <2>1, SceneDeleted
  <2>3. ~droppers'[s].exists /\ \A r \in SceneId : r # s => droppers'[r] = droppers[r]
    BY <1>1, <2>1 DEF TypeOK, NoDropper
  <2>4. InGames'
    BY <1>1, <2>2, <2>3 DEF InGames, SceneSystem
  <2>5. \A p \in PlanetId :
          IF p \in OwnedBy(s) THEN planets'[p].status # "live"
          ELSE planets'[p] = planets[p] /\ owner'[p] = owner[p] /\ carrier'[p] = carrier[p]
    BY <2>1 DEF Forget, Unborn
  <2>6. ASSUME ~strayed PROVE OneLive(sys') /\ AllSound' /\ AllOwned'
    <3>1. OneLive(sys) /\ AllSound /\ AllOwned
      BY <2>6 DEF GameInv
    <3>2. OneLive(sys')
      BY <1>1, <1>3, <2>2, <3>1, OneLiveStays
    <3>3. Existing(sys') = Existing(sys) \ {s}
      BY <1>1, <2>2 DEF Existing, SceneSystem
    <3>4. AllOwned'
      <4> SUFFICES ASSUME NEW p \in PlanetId, planets'[p].status = "live", planets'[p].life # 0
                   PROVE  owner'[p] \in Existing(sys')
        BY DEF AllOwned, Live
      <4>1. p \notin OwnedBy(s) /\ planets'[p] = planets[p] /\ owner'[p] = owner[p]
        BY <2>5
      <4> QED BY <3>1, <3>3, <4>1 DEF AllOwned, OwnedBy, Live
    <3>5. ASSUME NEW r \in SceneId, r \notin sys'.doomed, Attached(r)' PROVE Sound(r)'
      <4>1. r # s /\ droppers'[r] = droppers[r]
        BY <2>3, <3>5 DEF Attached
      <4>2. Attached(r) /\ Sound(r)
        BY <2>2, <3>1, <3>5, <4>1 DEF AllSound, Attached, Carrying
      <4>3. Held(r) \in PlanetId /\ Held(r) \notin OwnedBy(s)
        BY <1>1, <4>1, <4>2 DEF Sound, OwnedBy, Held, TypeOK, DropperObject
      <4> QED BY <2>5, <4>1, <4>2, <4>3 DEF Sound, Present, Held
    <3> QED BY <3>2, <3>4, <3>5 DEF AllSound
  <2> QED BY <2>1, <2>4, <2>6 DEF GameInv
<1> QED BY <1>2, <1>3

\* GameInv holds at the start and every step preserves it.
LEMMA GameInvInductive ==
  /\ Init => GameInv
  /\ GameInv /\ [Next]_vars => GameInv'
<1>1. ASSUME GameInv, [Next]_vars PROVE GameInv'
  <2> USE <1>1
  <2>0. TypeOK /\ TypeOK' /\ planets \in Planets
    BY GameNextTyped DEF GameInv, TypeOK, Planets
  <2>1. ASSUME NEW p \in PlanetId, TopEnter(p) \/ TopLeave(p) PROVE GameInv'
    BY <2>0, <2>1, StillKeeps
    DEF TopEnter, TopLeave, OnArenaTopCollide, OnArenaTopSeparate, Untouched, Planets, PlanetState
  <2>2. ASSUME UNCHANGED <<sys, world>> PROVE GameInv'
    BY <2>0, <2>2, StillKeeps DEF world, Untouched
  <2>3. ASSUME NEW s \in SceneId, GameOverInput(s) PROVE GameInv'
    <3>1. \A p \in PlanetId : /\ planets'[p].status = planets[p].status
                              /\ owner[p] = sys.runtime \/ planets'[p].life = planets[p].life
      BY <2>0, <2>3 DEF GameOverInput, GameOverTrigger, SetLifeTime, OwnedBy, Planets, PlanetState
    <3> QED BY <2>0, <2>3, <3>1, GameOverKeeps DEF GameOverInput
  <2>4. ASSUME NEW s \in SceneId, NEW k \in DropKinds, UpdateDropperObject(s, k) PROVE GameInv'
    BY <2>0, <2>4, DropperKeeps DEF UpdateDropperObject
  <2>5. ASSUME NEW s \in SceneId, NEW k \in DropKinds, DropPlanetOf(s, k) PROVE GameInv'
    <3> DEFINE ps == SetLifeTime(planets, {Held(s)}, 0)
    <3>1. planets[Held(s)].kind \in Kind
      BY <2>0 DEF TypeOK, PlanetState, Held, DropperObject
    <3>2. ps \in Planets /\ NotBorn(ps) = NotBorn(planets)
      BY <2>0, LifeTimeSet, PlanetAssumption DEF LifeTime
    <3>3. Drops(droppers[s].d, TRUE) /\ Present(s)
      BY <2>5 DEF DropPlanetOf, Drops, Carrying
    <3>4. DropperSteps(s, TRUE, k, ps, planets[Held(s)].kind) /\ UNCHANGED <<sys, strayed>>
      BY <2>5 DEF DropPlanetOf
    <3> QED BY <2>0, <3>1, <3>2, <3>3, <3>4, DropperKeeps
  <2>6. ASSUME NEW p \in PlanetId, UpdatePlanet(p) PROVE GameInv'
    <3>1. CASE planets[p].life # 0 /\ TimeUp(planets[p], step)
      <4>1. /\ GameOverEffects /\ UNCHANGED <<owner, carrier, strayed>>
            /\ planets' = UpdateTimer(GameOverTrigger(planets, OwnedBy(sys.runtime)), p, step)
        BY <2>6, <3>1 DEF UpdatePlanet
      <4>2. GameOverTrigger(planets, OwnedBy(sys.runtime)) \in Planets
        BY <2>0, LifeTimeSet, PlanetAssumption DEF GameOverTrigger, LifeTime
      <4>3. \A r \in PlanetId : /\ planets'[r].status = planets[r].status
                                /\ owner[r] = sys.runtime \/ planets'[r].life = planets[r].life
        BY <2>0, <4>1, <4>2
        DEF GameOverTrigger, SetLifeTime, OwnedBy, UpdateTimer, Planets, PlanetState
      <4> QED BY <2>0, <4>1, <4>3, GameOverKeeps
    <3>2. CASE ~(planets[p].life # 0 /\ TimeUp(planets[p], step))
      BY <2>0, <2>6, <3>2, StillKeeps DEF UpdatePlanet, UpdateTimer, Untouched, Planets, PlanetState
    <3> QED BY <3>1, <3>2
  <2>7. ASSUME NEW b \in BannerId, VisitBanner(b) PROVE GameInv'
    <3>1. Kept(sys, sys') \/ MovesOn(sys, sys')
      BY <2>0, <2>7, BannerVisited, ConfigAssumption DEF VisitBanner, TypeOK
    <3>2. UNCHANGED <<droppers, planets, owner, carrier, strayed>>
      BY <2>7 DEF VisitBanner, world
    <3>3. \A s \in SceneId : Held(s) \in PlanetId
      BY <2>0 DEF Held, TypeOK, DropperObject
    <3>4. HeldStays /\ OwnedStays
      BY <3>2, <3>3 DEF HeldStays, OwnedStays, Attached, Carrying, Held, Untouched
    <3> QED BY <2>0, <3>1, <3>2, <3>4, StepKeeps
  <2>8. Physics => GameInv'
    BY <2>0, <2>1, ContactKeeps DEF Physics
  <2>9. Player => GameInv'
    BY <2>0, <2>3, <2>5, ActivateKeeps, StrayKeeps DEF Player
  <2>10. Advance => GameInv'
    BY <2>0, <2>2, <2>4, <2>6, <2>7, BeginPassKeeps, VisitSceneKeeps
    DEF Advance, BeginUpdate, UpdateScene, SkipDropper, EndPass
  <2>11. UNCHANGED vars => GameInv'
    BY <2>2 DEF vars
  <2> QED BY <2>8, <2>9, <2>10, <2>11 DEF Next
<1> QED BY <1>1, GameInvInit

\* Until GameOver reaches its dropper, a carried planet is left alone: no contact, no other
\* dropper and no deletion gets at it.
THEOREM CarriedPlanetIsSafe == Spec => []HeldIntact
<1>1. GameInv => HeldIntact
  BY DEF GameInv, AllSound, HeldIntact, Attached, Sound
<1> QED BY <1>1, GameInvInductive, PTL DEF Spec

\* No planet outlives the scene that owns it.
THEOREM PlanetsHaveScenes == Spec => []NoOrphans
<1>1. GameInv => NoOrphans
  BY DEF GameInv, AllOwned, NoOrphans
<1> QED BY <1>1, GameInvInductive, PTL DEF Spec

-----------------------------------------------------------------------------
(* The scenes of the game are those of SceneFlow.                          *)

\* SceneFlow's operators on scenes are the game's.
LEMMA SameOperators ==
  /\ Scene!SceneId = SceneId /\ Scene!BannerId = BannerId
  /\ \A x : /\ Scene!Existing(x) = Existing(x)
            /\ Scene!Showing(x) = Showing(x)
            /\ Scene!FreeScenes(x) = FreeScenes(x)
            /\ Scene!FreeBanners(x) = FreeBanners(x)
            /\ Scene!FireGameScene(x) = FireGameScene(x)
            /\ Scene!FireGameOver(x) = FireGameOver(x)
  /\ \A x, s : /\ Scene!DeleteScene(x, s) = DeleteScene(x, s)
               /\ Scene!Owned(x, s) = Owned(x, s)
  /\ \A x, b : Scene!DeleteBanner(x, b) = DeleteBanner(x, b)
<1> USE DEF Scene!SceneId, SceneId, Scene!BannerId, BannerId, Scene!NoBanner, NoBanner, Scene!NoOwner, NoOwner
<1>1. \A x : Scene!Existing(x) = Existing(x) /\ Scene!Showing(x) = Showing(x)
  BY DEF Scene!Existing, Existing, Scene!Showing, Showing
<1>2. \A x : Scene!FreeScenes(x) = FreeScenes(x)
  BY DEF Scene!FreeScenes, FreeScenes
<1>3. \A x : Scene!FreeBanners(x) = FreeBanners(x)
  BY <1>1 DEF Scene!FreeBanners, FreeBanners
<1>4. \A x, t : Scene!CreateScene(x, t) = CreateScene(x, t)
  BY <1>2 DEF Scene!CreateScene, CreateScene, Scene!FreeScenes, FreeScenes
<1>5. \A x, s : Scene!Doom(x, s) = Doom(x, s)
  BY DEF Scene!Doom, Doom
<1>6. \A x : /\ Scene!FireGameScene(x) = FireGameScene(x)
             /\ Scene!FireTitleScene(x) = FireTitleScene(x)
  BY <1>4, <1>5 DEF Scene!FireGameScene, FireGameScene, Scene!FireTitleScene, FireTitleScene
<1>7. \A x : Scene!FireGameOver(x) = FireGameOver(x)
  BY DEF Scene!FireGameOver, FireGameOver, Scene!FreeBanners, FreeBanners, Scene!Showing, Showing
<1>8. \A x, s : Scene!Owned(x, s) = Owned(x, s)
  BY <1>1 DEF Scene!Owned, Owned
<1>9. \A x, s : Scene!DeleteScene(x, s) = DeleteScene(x, s)
  BY DEF Scene!DeleteScene, DeleteScene, Scene!Owned, Owned, Scene!Showing, Showing
<1>10. \A x, b : Scene!DeleteBanner(x, b) = DeleteBanner(x, b)
  BY <1>6 DEF Scene!DeleteBanner, DeleteBanner
<1> QED BY <1>1, <1>2, <1>3, <1>6, <1>7, <1>8, <1>9, <1>10

\* From its updates on a frame has a length, and only title scenes wait for inputs.
FrameInv ==
  /\ TypeOK
  /\ phase # "physics" => step \in FrameTimes
  /\ phase = "update" => \A s \in SceneId : <<"scene", s>> \in todo => sys.scenes[s] = "title"

\* Between two passes SceneFlow sees only what happens to the scenes.
LEMMA BetweenPasses ==
  ASSUME phase # "pass", phase' # "pass", Grow
  PROVE  /\ PassTodo = {} /\ PassStep = 0 /\ UNCHANGED <<PassTodo, PassStep>>
         /\ age' = IF sys'.runtime # sys.runtime THEN 0 ELSE age
         /\ Scene!Becomes(sys')
         /\ sys' = sys => UNCHANGED Scene!vars
BY DEF PassTodo, PassStep, Grow, PassEnds, Scene!Becomes, Scene!vars

\* A GameOver in an update is SceneFlow's, or none where the bound on banners is reached.
LEMMA GameOverIsFlows ==
  ASSUME TypeOK, GameOverEffects, phase = "update", UNCHANGED phase, Grow
  PROVE  [Scene!Next]_(Scene!vars)
<1>1. CASE FreeBanners(sys) = {}
  BY <1>1, BetweenPasses DEF GameOverEffects
<1>2. CASE FreeBanners(sys) # {}
  <2>1. sys' = Scene!FireGameOver(sys) /\ Scene!FreeBanners(sys) # {}
    BY <1>2, SameOperators DEF GameOverEffects
  <2>2. Scene!GameOver
    BY <2>1, BetweenPasses DEF Scene!GameOver
  <2> QED BY <2>2 DEF Scene!Next
<1> QED BY <1>1, <1>2

\* Start in an update is SceneFlow's.
LEMMA ActivateIsFlows ==
  ASSUME FrameInv, NEW s \in SceneId, Activate(s), Grow
  PROVE  Scene!Activate
<1>1. /\ phase = "update" /\ phase' = "update" /\ s \notin sys.doomed
      /\ sys.scenes[s] = "title" /\ FreeScenes(sys) # {} /\ sys' = FireGameScene(sys)
  BY DEF Activate, ToUpdate, FrameInv
<1>2. s \in Scene!Existing(sys) \ sys.doomed
  BY <1>1, SameOperators DEF Existing
<1>3. Scene!FreeScenes(sys) # {} /\ sys' = Scene!FireGameScene(sys)
  BY <1>1, SameOperators
<1> QED BY <1>1, <1>2, <1>3, BetweenPasses DEF Scene!Activate

\* The pass begins, visits scenes and banners and ends as SceneFlow's does.
LEMMA PassIsFlows ==
  ASSUME FrameInv, Grow,
         \/ BeginPass
         \/ \E s \in SceneId : VisitScene(s)
         \/ \E b \in BannerId : VisitBanner(b)
         \/ EndPass
  PROVE  Scene!Next
<1> DEFINE Visiting == phase = "pass" /\ phase' = "pass" /\ UNCHANGED step
<1>1. ASSUME Visiting
      PROVE  /\ PassTodo = todo /\ PassTodo' = todo' /\ PassStep = step /\ UNCHANGED PassStep
             /\ Scene!Becomes(sys')
             /\ sys' = sys => UNCHANGED age
  BY <1>1 DEF PassTodo, PassStep, Grow, PassEnds, Scene!Becomes
<1>2. CASE BeginPass
  <2>1. PassTodo' = {"scene"} \X Scene!Existing(sys) \cup {"banner"} \X Scene!Showing(sys)
    BY <1>2, SameOperators DEF BeginPass, PassTodo
  <2>2. /\ step \in FrameTimes /\ PassStep = 0 /\ PassStep' = step
        /\ UNCHANGED <<sys, age>>
    BY <1>2 DEF BeginPass, PassStep, FrameInv, Grow, PassEnds
  <2>3. Scene!BeginPass(step)
    BY <2>1, <2>2 DEF Scene!BeginPass
  <2> QED BY <2>2, <2>3 DEF Scene!Next
<1>3. ASSUME NEW s \in SceneId, VisitScene(s) PROVE Scene!Next
  <2>0. Visiting
    BY <1>3 DEF VisitScene
  <2>1. CASE s \in sys.doomed
    <3>1. sys' = Scene!DeleteScene(sys, s)
      BY <1>3, <2>1, SameOperators DEF VisitScene
    <3>2. \/ PassTodo' = PassTodo \ {<<"scene", s>>}
          \/ PassTodo' = (PassTodo \ {<<"scene", s>>}) \cup {"banner"} \X Scene!Owned(sys, s)
      BY <1>1, <1>3, <2>0, <2>1, SameOperators DEF VisitScene
    <3>3. Scene!VisitScene(s)
      BY <1>1, <1>3, <2>0, <2>1, <3>1, <3>2 DEF VisitScene, Scene!VisitScene
    <3> QED BY <3>3, SameOperators DEF Scene!Next, Scene!Pass
  <2>2. CASE s \notin sys.doomed
    <3>1. Scene!VisitScene(s)
      BY <1>1, <1>3, <2>0, <2>2 DEF VisitScene, Scene!VisitScene
    <3> QED BY <3>1, SameOperators DEF Scene!Next, Scene!Pass
  <2> QED BY <2>1, <2>2
<1>4. ASSUME NEW b \in BannerId, VisitBanner(b) PROVE Scene!Next
  <2>0. Visiting
    BY <1>4 DEF VisitBanner, Visited
  <2>1. /\ Scene!FreeScenes(sys) # {}
        /\ sys' = IF sys.banners[b].left <= step THEN Scene!DeleteBanner(sys, b)
                                                 ELSE [sys EXCEPT !.banners[b].left = @ - step]
    BY <1>4, SameOperators DEF VisitBanner
  <2>2. Scene!VisitBanner(b)
    BY <1>1, <1>4, <2>0, <2>1 DEF VisitBanner, Visited, Scene!VisitBanner
  <2> QED BY <2>2, SameOperators DEF Scene!Next, Scene!Pass
<1>5. CASE EndPass
  <2>1. step # 0
    BY <1>5, ConfigAssumption DEF EndPass, FrameInv
  <2>2. /\ PassStep # 0 /\ PassTodo = {} /\ PassStep' = 0
        /\ age' = IF age < 2 THEN age + 1 ELSE age
        /\ UNCHANGED <<sys, PassTodo>>
    BY <1>5, <2>1 DEF EndPass, PassStep, PassTodo, Grow, PassEnds
  <2>3. Scene!EndPass
    BY <2>2 DEF Scene!EndPass
  <2> QED BY <2>3 DEF Scene!Next, Scene!Pass
<1> QED BY <1>2, <1>3, <1>4, <1>5

\* Every step of the game is a step of SceneFlow or none, but for a dangling "latest".
LEMMA StepFollowsSceneFlow ==
  ASSUME FrameInv, [AgedNext]_agedVars
  PROVE  [strayed' \/ Scene!Next]_(Scene!vars)
<1>1. CASE UNCHANGED agedVars
  BY <1>1 DEF agedVars, vars, frame, Scene!vars, PassTodo, PassStep
<1>2. CASE AgedNext
  <2>0. Next /\ Grow /\ TypeOK
    BY <1>2 DEF AgedNext, FrameInv
  <2>1. ASSUME UNCHANGED sys, phase # "pass", phase' # "pass" PROVE UNCHANGED Scene!vars
    BY <2>0, <2>1, BetweenPasses
  <2>2. CASE Physics
    BY <2>1, <2>2 DEF Physics, Contact, TopEnter, TopLeave, frame
  <2>3. CASE Player
    <3>1. ASSUME NEW s \in SceneId, Activate(s) PROVE Scene!Next
      BY <2>0, <3>1, ActivateIsFlows DEF Scene!Next
    <3>2. ASSUME NEW s \in SceneId, GameOverInput(s) PROVE [Scene!Next]_(Scene!vars)
      BY <2>0, <3>2, GameOverIsFlows DEF GameOverInput, ToUpdate, frame
    <3>3. ASSUME NEW s \in SceneId, NEW k \in DropKinds, DropPlanetOf(s, k)
          PROVE  UNCHANGED Scene!vars
      BY <2>1, <3>3 DEF DropPlanetOf, DropperSteps, ToUpdate, Visited
    <3>4. ASSUME NEW s \in SceneId, NEW k \in DropKinds, NEW name \in Kind \cup {NoPlanet},
                 StrayDrop(s, k, name)
          PROVE  strayed'
      BY <3>4 DEF StrayDrop
    <3> QED BY <2>3, <3>1, <3>2, <3>3, <3>4 DEF Player
  <2>4. CASE Advance
    <3>1. ASSUME NEW dt \in FrameTimes, BeginUpdate(dt) PROVE UNCHANGED Scene!vars
      BY <2>1, <3>1 DEF BeginUpdate
    <3>2. ASSUME NEW s \in SceneId, UpdateScene(s) \/ SkipDropper(s) PROVE UNCHANGED Scene!vars
      BY <2>1, <3>2 DEF UpdateScene, SkipDropper, ToUpdate, Visited
    <3>3. ASSUME NEW s \in SceneId, NEW k \in DropKinds, UpdateDropperObject(s, k)
          PROVE  UNCHANGED Scene!vars
      BY <2>1, <3>3 DEF UpdateDropperObject, DropperSteps, ToUpdate, Visited
    <3>4. ASSUME NEW p \in PlanetId, UpdatePlanet(p) PROVE [Scene!Next]_(Scene!vars)
      <4>1. phase = "update" /\ UNCHANGED phase /\ (GameOverEffects \/ UNCHANGED sys)
        BY <3>4 DEF UpdatePlanet, ToUpdate, Visited
      <4> QED BY <2>0, <2>1, <4>1, GameOverIsFlows
    <3> QED BY <2>0, <2>4, <3>1, <3>2, <3>3, <3>4, PassIsFlows DEF Advance
  <2> QED BY <2>0, <2>2, <2>3, <2>4 DEF Next
<1> QED BY <1>1, <1>2 DEF agedVars

\* In the updates the scenes that wait for an input stay title scenes: only a new scene
\* changes what it is, and it has an identity that no scene had.
LEMMA TitlesStay ==
  ASSUME FrameInv, phase = "update", phase' = "update",
         sys'.scenes = sys.scenes \/ MovesOn(sys, sys'),
         \A s \in SceneId : <<"scene", s>> \in todo' => <<"scene", s>> \in todo
  PROVE  \A s \in SceneId : <<"scene", s>> \in todo' => sys'.scenes[s] = "title"
<1>1. sys.scenes \in [SceneId -> {"none", "title", "game"}]
  BY DEF FrameInv, TypeOK, SceneSystem
<1>2. \A s \in SceneId : sys.scenes[s] = "title" => sys'.scenes[s] = "title"
  BY <1>1 DEF MovesOn
<1> QED BY <1>2 DEF FrameInv

\* FrameInv holds at the start and every step preserves it.
LEMMA FrameInvInductive ==
  /\ Init => FrameInv
  /\ FrameInv /\ [Next]_vars => FrameInv'
<1>1. Init => FrameInv
  BY GameInitTyped DEF Init, FrameInv
<1>2. ASSUME FrameInv, [Next]_vars PROVE FrameInv'
  <2>0. TypeOK /\ TypeOK'
    BY <1>2, GameNextTyped DEF FrameInv
  <2>1. ASSUME phase' # "update", phase' # "physics" => step' \in FrameTimes PROVE FrameInv'
    BY <2>0, <2>1 DEF FrameInv
  <2>2. ASSUME phase = "update", phase' = "update", UNCHANGED step,
               sys'.scenes = sys.scenes \/ MovesOn(sys, sys'),
               \A s \in SceneId : <<"scene", s>> \in todo' => <<"scene", s>> \in todo
        PROVE  FrameInv'
    BY <1>2, <2>0, <2>2, TitlesStay DEF FrameInv
  <2>3. GameOverEffects => sys'.scenes = sys.scenes
    BY <2>0, GameOverTyped DEF Kept
  <2>4. Physics => FrameInv'
    BY <1>2, <2>1 DEF Physics, Contact, TopEnter, TopLeave, frame
  <2>5. ASSUME NEW s \in SceneId, Activate(s) PROVE FrameInv'
    <3>1. sys' = FireGameScene(sys) /\ FreeScenes(sys) # {} /\ sys \in SceneSystem
      BY <2>0, <2>5 DEF Activate, TypeOK
    <3>2. sys'.scenes = sys.scenes \/ MovesOn(sys, sys')
      BY <3>1, Transitions DEF Kept
    <3> QED BY <2>2, <2>5, <3>2 DEF Activate, ToUpdate
  <2>6. ASSUME NEW s \in SceneId, GameOverInput(s) PROVE FrameInv'
    BY <2>2, <2>3, <2>6 DEF GameOverInput, ToUpdate, frame
  <2>7. ASSUME NEW s \in SceneId, NEW k \in DropKinds, NEW drop, NEW ps, NEW name,
               DropperSteps(s, drop, k, ps, name), sys'.scenes = sys.scenes
        PROVE  FrameInv'
    BY <2>2, <2>7 DEF DropperSteps, ToUpdate, Visited
  <2>8. ASSUME NEW s \in SceneId, NEW k \in DropKinds, NEW name \in Kind \cup {NoPlanet},
               StrayDrop(s, k, name)
        PROVE  FrameInv'
    <3>1. sys'.scenes = sys.scenes
      BY <2>0, <2>8 DEF StrayDrop, Doom, TypeOK, SceneSystem
    <3>2. PICK ps : DropperSteps(s, TRUE, k, ps, name)
      BY <2>8 DEF StrayDrop
    <3> QED BY <2>7, <3>1, <3>2
  <2>9. Player => FrameInv'
    BY <2>5, <2>6, <2>7, <2>8 DEF Player, DropPlanetOf
  <2>10. ASSUME NEW dt \in FrameTimes, BeginUpdate(dt) PROVE FrameInv'
    BY <2>0, <2>10 DEF BeginUpdate, FrameInv
  <2>11. ASSUME NEW p \in PlanetId, UpdatePlanet(p) PROVE FrameInv'
    <3>1. /\ phase = "update" /\ phase' = "update" /\ UNCHANGED step
          /\ todo' = todo \ {<<"planet", p>>}
          /\ GameOverEffects \/ UNCHANGED sys
      BY <2>11 DEF UpdatePlanet, ToUpdate, Visited
    <3> QED BY <2>2, <2>3, <3>1
  <2>12. ASSUME NEW s \in SceneId, UpdateScene(s) \/ SkipDropper(s) PROVE FrameInv'
    BY <2>2, <2>12 DEF UpdateScene, SkipDropper, ToUpdate, Visited
  <2>13. ASSUME NEW s \in SceneId, VisitScene(s) PROVE FrameInv'
    BY <1>2, <2>1, <2>13 DEF VisitScene, FrameInv
  <2>14. ASSUME NEW b \in BannerId, VisitBanner(b) PROVE FrameInv'
    BY <1>2, <2>1, <2>14 DEF VisitBanner, Visited, FrameInv
  <2>15. BeginPass \/ EndPass => FrameInv'
    BY <1>2, <2>1 DEF BeginPass, EndPass, FrameInv
  <2>16. Advance => FrameInv'
    BY <2>7, <2>10, <2>11, <2>12, <2>13, <2>14, <2>15 DEF Advance, UpdateDropperObject
  <2>17. UNCHANGED vars => FrameInv'
    BY <1>2 DEF vars, frame, FrameInv, TypeOK, world
  <2> QED BY <1>2, <2>4, <2>9, <2>16, <2>17 DEF Next
<1> QED BY <1>1, <1>2

\* The first state is SceneFlow's.
LEMMA AgedStart == AgedInit => FrameInv /\ Scene!Init
<1>1. AgedInit => FrameInv
  BY FrameInvInductive DEF AgedInit
<1>2. AgedInit => Scene!Init
  BY SameOperators
  DEF AgedInit, Init, Scene!Init, PassTodo, PassStep, NoBanner, NoOwner, Scene!NoBanner, Scene!NoOwner
<1> QED BY <1>1, <1>2

\* The game with SceneFlow's history keeps FrameInv.
LEMMA AgedFrame == FrameInv /\ [AgedNext]_agedVars => FrameInv'
BY FrameInvInductive DEF AgedNext, agedVars

\* The whole game implements SceneFlow, for any number of planets, scenes and banners,
\* until a dangling "latest" is used.
THEOREM ScenesFollowSceneFlow == AgedSpec => FollowsSceneFlow
<1>1. FrameInv /\ [AgedNext]_agedVars => [strayed' \/ Scene!Next]_(Scene!vars)
  BY StepFollowsSceneFlow
<1> QED BY <1>1, AgedStart, AgedFrame, PTL DEF AgedSpec, FollowsSceneFlow

-----------------------------------------------------------------------------
(* So what is proved of SceneFlow holds in the game.                       *)

Proved == INSTANCE SceneFlowProofs WITH todo <- PassTodo, step <- PassStep

\* The game's constants are as SceneFlow assumes.
LEMMA SceneAssumptions == Proved!ScenesAssumption /\ Proved!FlowAssumption
BY ScenesAssumption, ConfigAssumption DEF Proved!ScenesAssumption, Proved!FlowAssumption

\* The module of those proofs speaks of the same SceneFlow.
LEMMA SameFlow ==
  /\ Scene!vars = Proved!vars /\ (Scene!vars)' = (Proved!vars)'
  /\ Scene!Init => Proved!Init
  /\ Scene!Next => Proved!Next
<1>1. /\ Scene!vars = Proved!vars /\ (Scene!vars)' = (Proved!vars)'
  BY DEF Scene!vars, Proved!vars
<1>2. Scene!Init => Proved!Init
  BY DEF Scene!Init, Proved!Init, Scene!SceneId, Proved!SceneId, Scene!BannerId, Proved!BannerId,
     Scene!NoBanner, Proved!NoBanner, Scene!NoOwner, Proved!NoOwner
<1> USE DEF Scene!SceneId, Proved!SceneId, Scene!BannerId, Proved!BannerId, Scene!NoBanner, Proved!NoBanner,
     Scene!NoOwner, Proved!NoOwner, Scene!Existing, Proved!Existing, Scene!Showing, Proved!Showing,
     Scene!FreeScenes, Proved!FreeScenes, Scene!FreeBanners, Proved!FreeBanners,
     Scene!Becomes, Proved!Becomes, Scene!CreateScene, Proved!CreateScene, Scene!Doom, Proved!Doom,
     Scene!FireGameScene, Proved!FireGameScene, Scene!FireTitleScene, Proved!FireTitleScene,
     Scene!FireGameOver, Proved!FireGameOver, Scene!DeleteBanner, Proved!DeleteBanner,
     Scene!Owned, Proved!Owned, Scene!DeleteScene, Proved!DeleteScene
<1>3. Scene!Activate => Proved!Activate
  BY DEF Scene!Activate, Proved!Activate
<1>4. Scene!GameOver => Proved!GameOver
  BY DEF Scene!GameOver, Proved!GameOver
<1>5. \A dt : Scene!BeginPass(dt) => Proved!BeginPass(dt)
  BY DEF Scene!BeginPass, Proved!BeginPass
<1>6. \A s : Scene!VisitScene(s) => Proved!VisitScene(s)
  BY DEF Scene!VisitScene, Proved!VisitScene
<1>7. \A s : Scene!VisitBanner(s) => Proved!VisitBanner(s)
  BY DEF Scene!VisitBanner, Proved!VisitBanner
<1>8. Scene!EndPass => Proved!EndPass
  BY DEF Scene!EndPass, Proved!EndPass
<1>9. Scene!Next => Proved!Next
  BY <1>3, <1>4, <1>5, <1>6, <1>7, <1>8 DEF Scene!Next, Proved!Next, Scene!Pass, Proved!Pass
<1> QED BY <1>1, <1>2, <1>9

\* What makes SceneFlow's theorems hold in the game: its invariant, until a dangling
\* "latest" is used.
FlowUnstrayed == FrameInv /\ (~strayed => Proved!FlowInv)

\* A use of a dangling "latest" is remembered.
LEMMA StrayedForGood ==
  ASSUME [AgedNext]_agedVars, strayed
  PROVE  strayed'
<1> USE DEF world
<1>1. Physics => UNCHANGED strayed
  BY DEF Physics, Contact, TopEnter, TopLeave
<1>2. Player => strayed' = strayed \/ strayed'
  BY DEF Player, Activate, GameOverInput, DropPlanetOf, StrayDrop
<1>3. Advance => UNCHANGED strayed
  BY DEF Advance, BeginUpdate, UpdateScene, SkipDropper, VisitScene, UpdateDropperObject,
     UpdatePlanet, VisitBanner, BeginPass, EndPass
<1> QED BY <1>1, <1>2, <1>3 DEF AgedNext, Next, agedVars, vars

\* Until then a step of the game is a step of the SceneFlow of those proofs or none.
LEMMA StepIsFlows ==
  ASSUME FrameInv, [AgedNext]_agedVars, ~strayed'
  PROVE  [Proved!Next]_(Proved!vars)
BY StepFollowsSceneFlow, SameFlow

\* FlowUnstrayed holds at the start and every step preserves it.
LEMMA FlowUnstrayedInductive ==
  /\ AgedInit => FlowUnstrayed
  /\ FlowUnstrayed /\ [AgedNext]_agedVars => FlowUnstrayed'
<1>1. AgedInit => FlowUnstrayed
  BY AgedStart, SameFlow, SceneAssumptions, Proved!FlowInvInductive DEF FlowUnstrayed
<1>2. ASSUME FlowUnstrayed, [AgedNext]_agedVars, ~strayed' PROVE Proved!FlowInv'
  <2>1. Proved!FlowInv
    BY <1>2, StrayedForGood DEF FlowUnstrayed
  <2>2. [Proved!Next]_(Proved!vars)
    BY <1>2, StepIsFlows DEF FlowUnstrayed
  <2> QED BY <2>1, <2>2, SceneAssumptions, Proved!FlowInvInductive
<1> QED BY <1>1, <1>2, AgedFrame DEF FlowUnstrayed

\* One scene is live and at most four exist, however planets, droppers and inputs fire
\* their triggers.
THEOREM ScenesStayInOrder == AgedSpec => []ScenesInOrder
<1>1. FlowUnstrayed /\ ~strayed => Proved!FewScenes
  BY SceneAssumptions, Proved!FourScenes DEF FlowUnstrayed
<1>2. FlowUnstrayed /\ ~strayed => Proved!OneScene
  BY DEF FlowUnstrayed, Proved!FlowInv, Proved!Inv, Proved!WellFormed, Proved!OneScene
<1>3. Scene!Existing(sys) = Proved!Existing(sys)
  BY DEF Scene!Existing, Proved!Existing, Scene!SceneId, Proved!SceneId
<1>4. FlowUnstrayed => ScenesInOrder
  BY <1>1, <1>2, <1>3
  DEF ScenesInOrder, Scene!OneScene, Proved!OneScene, Scene!FewScenes, Proved!FewScenes,
      Scene!Cardinality, Proved!Cardinality
<1> QED BY <1>4, FlowUnstrayedInductive, PTL DEF AgedSpec

\* The whole game shows the player title, game, Game Over and the title again: it
\* implements GameFlow, but for its fairness.
THEOREM GameFollowsTheFlow == AgedSpec => FollowsGameFlow
<1>1. /\ Scene!Flow!Init <=> Proved!Flow!Init
      /\ Scene!Flow!Next <=> Proved!Flow!Next
      /\ Scene!Flow!vars = Proved!Flow!vars /\ (Scene!Flow!vars)' = (Proved!Flow!vars)'
  <2> USE DEF Scene!BannerId, Proved!BannerId
  <2>1. (Scene!Playing <=> Proved!Playing) /\ (Scene!Over <=> Proved!Over)
    BY DEF Scene!Playing, Proved!Playing, Scene!Over, Proved!Over
  <2>2. (Scene!Playing' <=> Proved!Playing') /\ (Scene!Over' <=> Proved!Over')
    BY DEF Scene!Playing, Proved!Playing, Scene!Over, Proved!Over
  <2> QED BY <2>1, <2>2
      DEF Scene!Flow!Init, Proved!Flow!Init, Scene!Flow!vars, Proved!Flow!vars,
          Scene!Flow!Next, Proved!Flow!Next, Scene!Flow!Start, Proved!Flow!Start,
          Scene!Flow!End, Proved!Flow!End, Scene!Flow!Return, Proved!Flow!Return,
          Scene!Flow!Cancel, Proved!Flow!Cancel, Scene!Flow!Settle, Proved!Flow!Settle
<1>2. AgedInit => Scene!Flow!Init
  BY <1>1, AgedStart, SameFlow, SceneAssumptions, Proved!FlowStarts
<1>3. ASSUME FlowUnstrayed, [AgedNext]_agedVars
      PROVE  [strayed' \/ Scene!Flow!Next]_(Scene!Flow!vars)
  <2>1. CASE strayed'
    BY <2>1
  <2>2. CASE ~strayed'
    <3>1. [Proved!Next]_(Proved!vars)
      BY <1>3, <2>2, StepIsFlows DEF FlowUnstrayed
    <3>2. Proved!FlowInv
      BY <1>3, <2>2, StrayedForGood DEF FlowUnstrayed
    <3>3. [Proved!Flow!Next]_(Proved!Flow!vars)
      BY <3>1, <3>2, SceneAssumptions, Proved!StepFollowsTheFlow
    <3> QED BY <1>1, <3>3
  <2> QED BY <2>1, <2>2
<1> QED BY <1>2, <1>3, FlowUnstrayedInductive, PTL DEF AgedSpec, FollowsGameFlow

-----------------------------------------------------------------------------
(* The dropper on its own.                                                 *)

\* What makes DropSpacing inductive.  Before the first planet nothing was dropped;
\* while the dropper is empty after a drop, its waited time is the frame of the
\* drop and every frame since; when it carries again, they exceed the wait.
SinceIsElapsed ==
  /\ dropper.first => dropTime = 0 /\ ~Carries
  /\ ~dropper.first /\ ~Carries => /\ dropTime # 0
                                   /\ dropper.since = dropTime + elapsed
  /\ Carries /\ dropTime # 0 => dropTime + elapsed > MinDropWait

DropperInv == DropTypeOK /\ WaitBounded /\ SinceIsElapsed

\* DropperInv holds at the start and every frame preserves it.
LEMMA DropperInvInductive ==
  /\ DropInit => DropperInv
  /\ DropperInv /\ [DropNext]_dropVars => DropperInv'
<1>1. ASSUME DropInit PROVE DropperInv
  <2>1. NewDropper \in DropperState
    BY DropperAssumption DEF NewDropper, DropperState
  <2>2. DropTypeOK
    BY <1>1, <2>1 DEF DropInit, DropTypeOK
  <2>3. dropper.first = TRUE /\ dropper.latest = NoPlanet /\ dropper.since = 0 /\ dropTime = 0
    BY <1>1 DEF DropInit, NewDropper
  <2> QED BY <2>2, <2>3 DEF DropperInv, WaitBounded, SinceIsElapsed, Carries
<1>2. ASSUME DropperInv, [DropNext]_dropVars PROVE DropperInv'
  <2> USE <1>2
  <2>1. ASSUME NEW dt \in FrameTimes, NEW dir \in Direction, NEW drop \in BOOLEAN,
               NEW k \in DropKinds, Update(dt, dir, drop, k)
        PROVE  DropperInv'
    <3> DEFINE free == dropper.latest = NoPlanet \/ drop
    <3>1. dt \in Nat \ {0} /\ k # NoPlanet /\ MinDropWait \in Nat
      BY ConfigAssumption, DropperAssumption DEF NoPlanet, Kind
    <3>2. /\ dropper' \in DropperState
          /\ ~free => /\ dropper'.latest = dropper.latest
                      /\ dropper'.first = dropper.first
                      /\ dropper'.since = dropper.since
          /\ free /\ Ready(dropper, dt) =>
               dropper'.latest = k /\ ~dropper'.first /\ dropper'.since = 0
          /\ free /\ ~Ready(dropper, dt) =>
               /\ dropper'.latest = NoPlanet
               /\ dropper'.first = dropper.first
               /\ dropper'.since = dropper.since + dt
      BY <2>1, UpdateCases, ConfigAssumption DEF Update, DropperInv, DropTypeOK
    <3>3. /\ dropped' = (Carries /\ drop)
          /\ dropTime' = IF dropped' THEN dt ELSE dropTime
          /\ elapsed' = IF dropped' THEN 0 ELSE Count(elapsed + dt)
      BY <2>1 DEF Update, Drops, Carries
    <3>4. DropTypeOK'
      BY <3>1, <3>2, <3>3 DEF DropperInv, DropTypeOK, Count
    <3>5. CASE ~free
      BY <3>1, <3>2, <3>3, <3>4, <3>5, ConfigAssumption
      DEF DropperInv, DropTypeOK, WaitBounded, SinceIsElapsed, Carries, Count, DropperState
    <3>6. CASE free /\ Ready(dropper, dt)
      BY <3>1, <3>2, <3>3, <3>4, <3>6, ConfigAssumption
      DEF DropperInv, DropTypeOK, WaitBounded, SinceIsElapsed, Carries, Count, Ready, DropperState
    <3>7. CASE free /\ ~Ready(dropper, dt)
      BY <3>1, <3>2, <3>3, <3>4, <3>7, ConfigAssumption
      DEF DropperInv, DropTypeOK, WaitBounded, SinceIsElapsed, Carries, Count, Ready, DropperState
    <3> QED BY <3>5, <3>6, <3>7
  <2>2. CASE UNCHANGED dropVars
    BY <2>2 DEF dropVars, DropperInv, DropTypeOK, WaitBounded, SinceIsElapsed, Carries
  <2> QED BY <2>1, <2>2 DEF DropNext
<1> QED BY <1>1, <1>2

\* The dropper stays in the play area and its state stays well typed.
THEOREM DropperTyped == DropSpec => []DropTypeOK
<1>1. DropperInv => DropTypeOK
  BY DEF DropperInv
<1> QED BY <1>1, DropperInvInductive, PTL DEF DropSpec

\* The waited time never exceeds the wait the configuration asks for.
THEOREM WaitsNoLonger == DropSpec => []WaitBounded
<1>1. DropperInv => WaitBounded
  BY DEF DropperInv
<1> QED BY <1>1, DropperInvInductive, PTL DEF DropSpec

\* Two planets are let go more than MinDropWait apart, whatever the frame lengths.
THEOREM DropsAreSpaced == DropSpec => DropSpacing
<1> DEFINE Spaced == dropped' /\ dropTime # 0 => dropTime + elapsed > MinDropWait
<1>1. ASSUME DropperInv, DropNext PROVE Spaced
  BY <1>1 DEF DropNext, Update, Drops, DropperInv, SinceIsElapsed, Carries
<1>2. DropperInv /\ [DropNext]_dropVars => [Spaced]_dropVars
  BY <1>1
<1> QED BY <1>2, DropperInvInductive, PTL DEF DropSpec, DropSpacing
=============================================================================
