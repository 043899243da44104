------------------------------- MODULE Scenes -------------------------------
(***************************************************************************)
(* The title scene, the game scenes and the Game Over banners that lead    *)
(* from one to the other: the scene sections of src/data/config/planet.ini.*)
(* Every trigger is an operator on a record of                             *)
(*   scenes  : what each scene object is, "none" while it does not exist,  *)
(*   doomed  : the scenes with a life time of 0, deleted by the next pass, *)
(*   runtime : the scene Runtime.Scene names,                              *)
(*   banners : for each GameOver object its owner and its time left.       *)
(***************************************************************************)
EXTENDS Integers, FiniteSets

CONSTANTS
  MaxScenes,   \* bound: how many scene objects may exist at a time
  MaxBanners,  \* bound: how many GameOver objects may exist at a time
  BannerLife   \* the "LifeTime" of GameOver (5 s)

ASSUME ScenesAssumption ==
  /\ MaxScenes \in Nat \ {0}
  /\ MaxBanners \in Nat
  /\ BannerLife \in Nat \ {0}

SceneId  == 1 .. MaxScenes
BannerId == 1 .. MaxBanners

NoOwner  == 0
NoBanner == [owner |-> NoOwner, left |-> 0]

SceneSystem ==
  [ scenes  : [SceneId -> {"none", "title", "game"}],
    doomed  : SUBSET SceneId,
    runtime : SceneId,
    banners : [BannerId -> [owner : SceneId \cup {NoOwner}, left : 0 .. BannerLife]] ]

Existing(sys) == {s \in SceneId : sys.scenes[s] # "none"}
Showing(sys)  == {b \in BannerId : sys.banners[b] # NoBanner}

\* Identities stand for GUIDs, which are not reused: a new scene takes none that
\* Runtime.Scene or a banner still refers to.
FreeScenes(sys) ==
  {s \in SceneId : /\ sys.scenes[s] = "none" /\ s # sys.runtime
                   /\ \A b \in BannerId : sys.banners[b].owner # s}
FreeBanners(sys) == BannerId \ Showing(sys)

\* Creating a scene makes it Runtime.Scene (Scene.OnCreate).
CreateScene(sys, type) ==
  LET id == CHOOSE s \in FreeScenes(sys) : TRUE
  IN  [sys EXCEPT !.scenes[id] = type, !.runtime = id]

\* Object.Delete: the object's life time becomes 0.
Doom(sys, s) == [sys EXCEPT !.doomed = @ \cup {s}]

\* Mutants of FireTitleScene: the game scene stays; a title scene has the trigger too.
FireTitleSceneKeepsGame(sys) ==
  IF sys.scenes[sys.runtime] = "game" THEN CreateScene(sys, "title") ELSE sys
FireTitleSceneAlways(sys) == CreateScene(Doom(sys, sys.runtime), "title")

\* The GameScene trigger, which only a title scene has, and the TitleScene trigger,
\* which only a game scene has, fired at Runtime.Scene.
FireGameScene(sys) ==
  IF sys.scenes[sys.runtime] = "title" THEN CreateScene(Doom(sys, sys.runtime), "game") ELSE sys

FireTitleScene(sys) ==
  IF sys.scenes[sys.runtime] = "game" THEN CreateScene(Doom(sys, sys.runtime), "title") ELSE sys

\* Mutant of FireGameOver: GameOver.OnCreate does not set an owner.
FireGameOverUnowned(sys) ==
  IF sys.scenes[sys.runtime] = "game"
    THEN LET b == CHOOSE c \in FreeBanners(sys) : TRUE
         IN  [sys EXCEPT !.banners[b] = [owner |-> NoOwner, left |-> BannerLife]]
    ELSE sys

\* The GameOver trigger fired at Runtime.Scene: a game scene shows a banner, which
\* makes Runtime.Scene its owner (GameOver.OnCreate).
FireGameOver(sys) ==
  IF sys.scenes[sys.runtime] = "game"
    THEN LET b == CHOOSE c \in FreeBanners(sys) : TRUE
         IN  [sys EXCEPT !.banners[b] = [owner |-> sys.runtime, left |-> BannerLife]]
    ELSE sys

\* Deleting a banner fires TitleScene (GameOver.OnDelete); deleting a scene deletes
\* what it owns.
DeleteBanner(sys, b) == FireTitleScene([sys EXCEPT !.banners[b] = NoBanner])

Owned(sys, s) == {b \in Showing(sys) : sys.banners[b].owner = s}

DeleteScene(sys, s) ==
  [sys EXCEPT
    !.scenes[s] = "none",
    !.doomed = @ \ {s},
    !.banners = [b \in BannerId |-> IF b \in Owned(sys, s) THEN [@[b] EXCEPT !.left = 0] ELSE @[b]]]
=============================================================================
