--------------------------- MODULE SceneFlowProofs ---------------------------
(***************************************************************************)
(* Theorems about SceneFlow, for every number of scenes and banners and    *)
(* every frame length.                                                     *)
(***************************************************************************)
EXTENDS SceneFlow, FiniteSetTheorems, TLAPS

\* What a scene system must look like between any two triggers.
WellFormed(x) ==
  /\ x \in SceneSystem
  /\ x.doomed \subseteq Existing(x)
  /\ Existing(x) \ x.doomed = {x.runtime}

\* What comes of replacing the live scene of x by a new one.
Replaced(x, z, id, type) ==
  /\ id \in FreeScenes(x)
  /\ z.scenes = [x.scenes EXCEPT ![id] = type]
  /\ z.doomed = x.doomed \cup {x.runtime}
  /\ z.runtime = id
  /\ z.banners = x.banners

\* Object.Delete of the live scene and the creation of another one replace it.
LEMMA ReplacingIs ==
  ASSUME NEW x \in SceneSystem, FreeScenes(x) # {}, NEW type \in {"title", "game"}
  PROVE  LET z == CreateScene(Doom(x, x.runtime), type)
         IN  z \in SceneSystem /\ Replaced(x, z, z.runtime, type)
<1> DEFINE y  == Doom(x, x.runtime)
           id == CHOOSE s \in FreeScenes(y) : TRUE
           z  == CreateScene(y, type)
<1>1. /\ y \in SceneSystem
      /\ y.scenes = x.scenes /\ y.runtime = x.runtime /\ y.banners = x.banners
      /\ y.doomed = x.doomed \cup {x.runtime}
  BY DEF Doom, SceneSystem
<1>2. FreeScenes(y) = FreeScenes(x)
  BY <1>1 DEF FreeScenes
<1>3. id \in FreeScenes(x)
  BY <1>2
<1>4. id \in SceneId
  BY <1>3 DEF FreeScenes
<1> DEFINE f == [x.scenes EXCEPT ![id] = type]
<1>5. f \in [SceneId -> {"none", "title", "game"}]
  BY <1>4 DEF SceneSystem
<1>6. z = [y EXCEPT !.scenes[id] = type, !.runtime = id]
  BY DEF CreateScene
<1> HIDE DEF y, id
<1>7. [y EXCEPT !.scenes[id] = type, !.runtime = id] = [y EXCEPT !.scenes = f, !.runtime = id]
  BY <1>1 DEF SceneSystem
<1>8. z = [y EXCEPT !.scenes = f, !.runtime = id]
  BY <1>6, <1>7
<1> HIDE DEF z, f
<1>9. /\ z \in SceneSystem
      /\ z.scenes = f /\ z.doomed = x.doomed \cup {x.runtime}
      /\ z.runtime = id /\ z.banners = x.banners
  BY <1>1, <1>4, <1>5, <1>8 DEF SceneSystem
<1>10. Replaced(x, z, z.runtime, type)
  BY <1>3, <1>9 DEF Replaced, f
<1> QED BY <1>9, <1>10 DEF y, z

\* A replaced scene exists and the others exist as before.
LEMMA ReplacedExisting ==
  ASSUME NEW x \in SceneSystem, NEW z \in SceneSystem, NEW id, NEW type \in {"title", "game"},
         Replaced(x, z, id, type)
  PROVE  /\ Existing(z) = Existing(x) \cup {id}
         /\ id \in SceneId /\ id \notin Existing(x) /\ id # x.runtime
         /\ z.scenes[id] = type
BY DEF Replaced, FreeScenes, Existing, SceneSystem

\* Replacing the live scene by a new one leaves one live scene, and Runtime.Scene
\* names it (Object.Delete of the old scene, creation of the new one).
LEMMA Replacing ==
  ASSUME NEW x, WellFormed(x), FreeScenes(x) # {}, NEW type \in {"title", "game"}
  PROVE  WellFormed(CreateScene(Doom(x, x.runtime), type))
<1> DEFINE z == CreateScene(Doom(x, x.runtime), type)
<1>1. x \in SceneSystem
  BY DEF WellFormed
<1>2. z \in SceneSystem /\ Replaced(x, z, z.runtime, type)
  BY <1>1, ReplacingIs
<1> HIDE DEF z
<1> DEFINE id == z.runtime
<1>3. /\ Existing(z) = Existing(x) \cup {id} /\ id \notin Existing(x)
      /\ z.doomed = x.doomed \cup {x.runtime}
  <2> HIDE DEF id
  <2>1. Replaced(x, z, id, type)
    BY <1>2 DEF id
  <2>2. Existing(z) = Existing(x) \cup {id} /\ id \notin Existing(x)
    BY <1>1, <1>2, <2>1, ReplacedExisting
  <2> QED BY <2>1, <2>2 DEF Replaced
<1>4. x.runtime \in Existing(x)
  BY DEF WellFormed
<1>5. WellFormed(z)
  BY <1>2, <1>3, <1>4 DEF WellFormed
<1> QED BY <1>5 DEF z

\* The two transition triggers keep the scenes well formed.
LEMMA TriggersKeepOneScene ==
  ASSUME NEW x, WellFormed(x), FreeScenes(x) # {}
  PROVE  WellFormed(FireGameScene(x)) /\ WellFormed(FireTitleScene(x))
BY Replacing DEF FireGameScene, FireTitleScene

\* Changing only banners changes nothing about the scenes.
LEMMA BannersOnly ==
  ASSUME NEW x, WellFormed(x),
         NEW bs \in [BannerId -> [owner : SceneId \cup {NoOwner}, left : 0 .. BannerLife]]
  PROVE  /\ WellFormed([x EXCEPT !.banners = bs])
         /\ [x EXCEPT !.banners = bs].banners = bs
         /\ [x EXCEPT !.banners = bs].scenes = x.scenes
         /\ [x EXCEPT !.banners = bs].runtime = x.runtime
BY DEF WellFormed, SceneSystem, Existing

\* Deleting a doomed scene leaves the live one alone.
LEMMA DeletingKeepsOneScene ==
  ASSUME NEW x, WellFormed(x), NEW s \in x.doomed
  PROVE  WellFormed(DeleteScene(x, s))
<1> DEFINE bs == [b \in BannerId |-> IF b \in Owned(x, s) THEN [x.banners[b] EXCEPT !.left = 0]
                                                          ELSE x.banners[b]]
           z  == DeleteScene(x, s)
<1>1. s \in SceneId /\ s # x.runtime
  BY DEF WellFormed, Existing
<1>2. bs \in [BannerId -> [owner : SceneId \cup {NoOwner}, left : 0 .. BannerLife]]
  BY ScenesAssumption DEF WellFormed, SceneSystem
<1>3. z = [x EXCEPT !.scenes[s] = "none", !.doomed = x.doomed \ {s}, !.banners = bs]
  BY DEF DeleteScene
<1> DEFINE f == [x.scenes EXCEPT ![s] = "none"]
<1>4. f \in [SceneId -> {"none", "title", "game"}]
  BY <1>1 DEF WellFormed, SceneSystem
<1>5. /\ z \in SceneSystem
      /\ z.scenes = f
      /\ z.doomed = x.doomed \ {s}
      /\ z.runtime = x.runtime
  <2> HIDE DEF bs
  <2>1. [x EXCEPT !.scenes[s] = "none", !.doomed = x.doomed \ {s}, !.banners = bs]
          = [x EXCEPT !.scenes = f, !.doomed = x.doomed \ {s}, !.banners = bs]
    BY DEF WellFormed, SceneSystem
  <2>2. z = [x EXCEPT !.scenes = f, !.doomed = x.doomed \ {s}, !.banners = bs]
    BY <1>3, <2>1
  <2> HIDE DEF z, f
  <2> QED BY <1>2, <1>4, <2>2 DEF WellFormed, SceneSystem
<1> HIDE DEF z
<1>6. Existing(z) = Existing(x) \ {s}
  BY <1>1, <1>5 DEF Existing, WellFormed, SceneSystem
<1> QED BY <1>1, <1>5, <1>6 DEF WellFormed, z

-----------------------------------------------------------------------------
Inv == TypeOK /\ WellFormed(sys)

\* Inv holds at the start and every step preserves it.
LEMMA InvInductive ==
  /\ Init => Inv
  /\ Inv /\ [Next]_vars => Inv'
<1>1. ASSUME Init PROVE Inv
  <2>1. sys \in SceneSystem
    BY <1>1, ScenesAssumption DEF Init, SceneSystem, SceneId, NoBanner
  <2>2. Existing(sys) = {1} /\ sys.doomed = {} /\ sys.runtime = 1
    BY <1>1, ScenesAssumption DEF Init, Existing, SceneId
  <2> QED BY <1>1, <2>1, <2>2 DEF Init, Inv, TypeOK, WellFormed
<1>2. ASSUME Inv, [Next]_vars PROVE Inv'
  <2> USE <1>2
  <2>0. /\ WellFormed(sys) /\ sys \in SceneSystem /\ todo \subseteq Object
        /\ step \in FrameTimes \cup {0} /\ age \in 0 .. 2
    BY DEF Inv, TypeOK
  <2>a. ASSUME NEW new, Becomes(new), WellFormed(new), todo' \subseteq Object,
               step' \in FrameTimes \cup {0}
        PROVE  Inv'
    BY <2>0, <2>a DEF Becomes, Inv, TypeOK, WellFormed
  <2>1. CASE Activate
    BY <2>0, <2>1, <2>a, TriggersKeepOneScene DEF Activate
  <2>2. CASE GameOver
    <3> DEFINE b  == CHOOSE c \in FreeBanners(sys) : TRUE
               bs == [sys.banners EXCEPT ![b] = [owner |-> sys.runtime, left |-> BannerLife]]
    <3>1. b \in BannerId
      BY <2>2 DEF GameOver, FreeBanners
    <3>2. bs \in [BannerId -> [owner : SceneId \cup {NoOwner}, left : 0 .. BannerLife]]
      BY <2>0, <3>1, ScenesAssumption DEF SceneSystem
    <3>3. FireGameOver(sys) = sys \/ FireGameOver(sys) = [sys EXCEPT !.banners = bs]
      BY <2>0 DEF FireGameOver, SceneSystem
    <3> HIDE DEF b, bs
    <3>4. WellFormed(FireGameOver(sys))
      BY <2>0, <3>2, <3>3, BannersOnly
    <3> QED BY <2>0, <2>2, <2>a, <3>4 DEF GameOver
  <2>3. ASSUME NEW dt \in FrameTimes, BeginPass(dt) PROVE Inv'
    BY <2>0, <2>3 DEF BeginPass, Inv, TypeOK, Object, Existing, Showing
  <2>4. ASSUME NEW s \in SceneId, VisitScene(s) PROVE Inv'
    <3>1. CASE s \in sys.doomed
      <4>1. WellFormed(DeleteScene(sys, s))
        BY <2>0, <3>1, DeletingKeepsOneScene
      <4>2. todo' \subseteq Object
        BY <2>0, <2>4, <3>1 DEF VisitScene, Object, Owned, Showing
      <4> QED BY <2>0, <2>4, <2>a, <3>1, <4>1, <4>2 DEF VisitScene
    <3>2. CASE s \notin sys.doomed
      BY <2>0, <2>4, <3>2 DEF VisitScene, Inv, TypeOK
    <3> QED BY <3>1, <3>2
  <2>5. ASSUME NEW b \in BannerId, VisitBanner(b) PROVE Inv'
    <3>1. CASE sys.banners[b].left <= step
      <4> DEFINE bs == [sys.banners EXCEPT ![b] = NoBanner]
                 x  == [sys EXCEPT !.banners = bs]
      <4>1. bs \in [BannerId -> [owner : SceneId \cup {NoOwner}, left : 0 .. BannerLife]]
        BY <2>0, ScenesAssumption DEF SceneSystem, NoBanner
      <4>2. DeleteBanner(sys, b) = FireTitleScene(x)
        BY <2>0 DEF DeleteBanner, SceneSystem
      <4>3. /\ WellFormed(x) /\ x.scenes = sys.scenes /\ x.runtime = sys.runtime
            /\ x.banners = bs
        BY <2>0, <4>1, BannersOnly
      <4> HIDE DEF x
      <4>4. FreeScenes(x) # {}
        <5>1. PICK s \in FreeScenes(sys) : TRUE
          BY <2>5 DEF VisitBanner
        <5>2. \A c \in BannerId : x.banners[c].owner # s
          BY <2>0, <4>3, <5>1 DEF FreeScenes, SceneSystem, NoBanner, NoOwner, SceneId
        <5> QED BY <4>3, <5>1, <5>2 DEF FreeScenes
      <4>5. WellFormed(DeleteBanner(sys, b))
        BY <4>2, <4>3, <4>4, TriggersKeepOneScene
      <4> QED BY <2>0, <2>5, <2>a, <3>1, <4>5 DEF VisitBanner
    <3>2. CASE ~(sys.banners[b].left <= step)
      <4> DEFINE left == sys.banners[b].left - step
                 bs   == [sys.banners EXCEPT ![b].left = left]
      <4>1. left \in 0 .. BannerLife
        BY <2>0, <3>2, ScenesAssumption, FlowAssumption DEF SceneSystem
      <4> HIDE DEF left
      <4>2. bs \in [BannerId -> [owner : SceneId \cup {NoOwner}, left : 0 .. BannerLife]]
        BY <2>0, <4>1 DEF SceneSystem
      <4>3. [sys EXCEPT !.banners[b].left = @ - step] = [sys EXCEPT !.banners = bs]
        BY <2>0 DEF SceneSystem, left
      <4>4. WellFormed([sys EXCEPT !.banners[b].left = @ - step])
        BY <2>0, <4>2, <4>3, BannersOnly
      <4> QED BY <2>0, <2>5, <2>a, <3>2, <4>4 DEF VisitBanner
    <3> QED BY <3>1, <3>2
  <2>6. CASE EndPass
    BY <2>0, <2>6 DEF EndPass, Inv, TypeOK
  <2>7. CASE UNCHANGED vars
    BY <2>0, <2>7 DEF vars, Inv, TypeOK
  <2> QED BY <2>1, <2>2, <2>3, <2>4, <2>5, <2>6, <2>7 DEF Next, Pass
<1> QED BY <1>1, <1>2

\* Scenes, banners, the pass and the frame are well typed in every reachable state.
THEOREM TypeCorrect == Spec => []TypeOK
<1>1. Inv => TypeOK
  BY DEF Inv
<1> QED BY <1>1, InvInductive, PTL DEF Spec

\* In every reachable state exactly one scene is not on its way out and Runtime.Scene
\* names it, for any number of scenes and banners.
THEOREM OneSceneAlways == Spec => []OneScene
<1>1. Inv => OneScene
  BY DEF Inv, WellFormed, OneScene
<1> QED BY <1>1, InvInductive, PTL DEF Spec

-----------------------------------------------------------------------------
(* What each action does to the scenes and the banners.                    *)

Live(x) == x.scenes[x.runtime]

\* The live scene is a title or a game.
LEMMA LiveIs ==
  ASSUME Inv
  PROVE  /\ sys \in SceneSystem /\ sys.runtime \in SceneId
         /\ Live(sys) \in {"title", "game"}
         /\ Existing(sys) = {sys.runtime} \cup sys.doomed
         /\ sys.runtime \notin sys.doomed
<1>1. sys \in SceneSystem /\ sys.runtime \in Existing(sys) \ sys.doomed
      /\ sys.doomed \subseteq Existing(sys)
  BY DEF Inv, WellFormed
<1> QED BY <1>1 DEF Inv, WellFormed, Live, Existing, SceneSystem

\* Activate replaces a title by a game.
LEMMA ActivateIs ==
  ASSUME Inv, Activate
  PROVE  Live(sys) = "title" /\ Replaced(sys, sys', sys'.runtime, "game") /\ age' = 0
<1>1. Live(sys) = "title" /\ FreeScenes(sys) # {} /\ sys \in SceneSystem
  BY LiveIs DEF Activate, Live, Inv, WellFormed
<1>2. sys' = CreateScene(Doom(sys, sys.runtime), "game")
  BY <1>1 DEF Activate, Becomes, FireGameScene, Live
<1>3. sys' \in SceneSystem /\ Replaced(sys, sys', sys'.runtime, "game")
  BY <1>1, <1>2, ReplacingIs
<1>4. sys'.runtime # sys.runtime
  BY <1>3 DEF Replaced, FreeScenes
<1> QED BY <1>1, <1>3, <1>4 DEF Activate, Becomes

\* GameOver shows a banner of the live scene, if that is a game.
LEMMA GameOverIs ==
  ASSUME Inv, GameOver
  PROVE  /\ sys'.scenes = sys.scenes /\ sys'.doomed = sys.doomed
         /\ sys'.runtime = sys.runtime /\ age' = age
         /\ \/ sys'.banners = sys.banners
            \/ /\ Live(sys) = "game"
               /\ \E b \in FreeBanners(sys) :
                    sys'.banners = [sys.banners EXCEPT ![b] = [owner |-> sys.runtime, left |-> BannerLife]]
<1>1. sys \in SceneSystem
  BY LiveIs
<1> DEFINE b  == CHOOSE c \in FreeBanners(sys) : TRUE
           bs == [sys.banners EXCEPT ![b] = [owner |-> sys.runtime, left |-> BannerLife]]
<1>2. b \in FreeBanners(sys)
  BY DEF GameOver
<1>3. CASE Live(sys) = "game"
  <2>1. FireGameOver(sys) = [sys EXCEPT !.banners = bs]
    BY <1>1, <1>3 DEF FireGameOver, SceneSystem, Live
  <2> HIDE DEF b, bs
  <2>2. sys' = [sys EXCEPT !.banners = bs]
    BY <2>1 DEF GameOver, Becomes
  <2>3. /\ sys'.scenes = sys.scenes /\ sys'.doomed = sys.doomed
        /\ sys'.runtime = sys.runtime /\ sys'.banners = bs
    BY <1>1, <2>2 DEF SceneSystem
  <2>4. age' = age
    BY <2>1, <2>2, <2>3 DEF GameOver, Becomes
  <2> QED BY <1>2, <1>3, <2>3, <2>4 DEF bs
<1>4. CASE Live(sys) # "game"
  <2>1. sys' = sys /\ age' = age
    BY <1>4 DEF GameOver, Becomes, FireGameOver, Live
  <2> QED BY <2>1
<1> QED BY <1>3, <1>4

\* The deletion of a scene leaves its banners without time.
Deleted(x, z, s) ==
  /\ z.scenes = [x.scenes EXCEPT ![s] = "none"]
  /\ z.doomed = x.doomed \ {s}
  /\ z.runtime = x.runtime
  /\ z.banners = [b \in BannerId |-> IF b \in Owned(x, s) THEN [x.banners[b] EXCEPT !.left = 0]
                                                          ELSE x.banners[b]]

LEMMA DeletingIs ==
  ASSUME NEW x \in SceneSystem, NEW s \in SceneId
  PROVE  Deleted(x, DeleteScene(x, s), s)
<1> DEFINE bs == [b \in BannerId |-> IF b \in Owned(x, s) THEN [x.banners[b] EXCEPT !.left = 0]
                                                          ELSE x.banners[b]]
           f  == [x.scenes EXCEPT ![s] = "none"]
           z  == DeleteScene(x, s)
<1>1. z = [x EXCEPT !.scenes[s] = "none", !.doomed = x.doomed \ {s}, !.banners = bs]
  BY DEF DeleteScene
<1> HIDE DEF bs, z
<1>2. [x EXCEPT !.scenes[s] = "none", !.doomed = x.doomed \ {s}, !.banners = bs]
        = [x EXCEPT !.scenes = f, !.doomed = x.doomed \ {s}, !.banners = bs]
  BY DEF SceneSystem
<1>3. z = [x EXCEPT !.scenes = f, !.doomed = x.doomed \ {s}, !.banners = bs]
  BY <1>1, <1>2
<1> HIDE DEF f
<1>4. /\ z.scenes = f /\ z.doomed = x.doomed \ {s} /\ z.runtime = x.runtime
      /\ z.banners = bs
  BY <1>3 DEF SceneSystem
<1> QED BY <1>4 DEF Deleted, f, bs, z

\* A visit to a scene on its way out deletes it.
LEMMA VisitSceneIs ==
  ASSUME Inv, NEW s \in SceneId, VisitScene(s), s \in sys.doomed
  PROVE  Deleted(sys, sys', s) /\ age' = age
<1>1. sys' = DeleteScene(sys, s)
  BY DEF VisitScene, Becomes
<1>2. Deleted(sys, sys', s)
  BY <1>1, LiveIs, DeletingIs
<1>3. sys'.runtime = sys.runtime
  BY <1>2 DEF Deleted
<1> QED BY <1>2, <1>3 DEF VisitScene, Becomes

\* A visit to a banner lets its time run, or deletes it: then a game gives way to a title.
LEMMA VisitBannerIs ==
  ASSUME Inv, NEW b \in BannerId, VisitBanner(b)
  PROVE  \/ /\ sys.banners[b].left > step
            /\ sys'.scenes = sys.scenes /\ sys'.doomed = sys.doomed
            /\ sys'.runtime = sys.runtime /\ age' = age
            /\ sys'.banners = [sys.banners EXCEPT ![b].left = @ - step]
         \/ /\ sys.banners[b].left <= step
            /\ sys'.banners = [sys.banners EXCEPT ![b] = NoBanner]
            /\ \/ /\ Live(sys) = "title"
                  /\ sys'.scenes = sys.scenes /\ sys'.doomed = sys.doomed
                  /\ sys'.runtime = sys.runtime /\ age' = age
               \/ /\ Live(sys) = "game"
                  /\ sys'.runtime \in SceneId \ Existing(sys)
                  /\ sys'.scenes = [sys.scenes EXCEPT ![sys'.runtime] = "title"]
                  /\ sys'.doomed = sys.doomed \cup {sys.runtime}
                  /\ age' = 0
<1>0. /\ sys \in SceneSystem /\ Live(sys) \in {"title", "game"} /\ step \in Nat
      /\ sys.banners[b].left \in Nat
  BY LiveIs, FlowAssumption, ScenesAssumption DEF Inv, TypeOK, SceneSystem
<1>1. CASE sys.banners[b].left > step
  <2> DEFINE left == sys.banners[b].left - step
             bs   == [sys.banners EXCEPT ![b].left = left]
  <2>1. sys' = [sys EXCEPT !.banners[b].left = @ - step] /\ Becomes(sys')
    <3>1. ~(sys.banners[b].left <= step)
      BY <1>0, <1>1
    <3> QED BY <3>1 DEF VisitBanner, Becomes
  <2>2. [sys EXCEPT !.banners[b].left = @ - step] = [sys EXCEPT !.banners = bs]
    BY <1>0 DEF SceneSystem
  <2> HIDE DEF bs
  <2>3. /\ sys'.scenes = sys.scenes /\ sys'.doomed = sys.doomed
        /\ sys'.runtime = sys.runtime /\ sys'.banners = bs
    BY <1>0, <2>1, <2>2 DEF SceneSystem
  <2>4. age' = age
    BY <2>1, <2>3 DEF Becomes
  <2>5. bs = [sys.banners EXCEPT ![b].left = @ - step]
    BY <1>0 DEF bs, SceneSystem
  <2> QED BY <1>1, <2>3, <2>4, <2>5
<1>2. CASE sys.banners[b].left <= step
  <2> DEFINE bs == [sys.banners EXCEPT ![b] = NoBanner]
             x  == [sys EXCEPT !.banners = bs]
  <2>1. bs \in [BannerId -> [owner : SceneId \cup {NoOwner}, left : 0 .. BannerLife]]
    BY <1>0, ScenesAssumption DEF SceneSystem, NoBanner
  <2>2. sys' = FireTitleScene(x) /\ Becomes(sys')
    <3>1. [sys EXCEPT !.banners[b] = NoBanner] = x
      BY <1>0 DEF SceneSystem
    <3> QED BY <1>2, <3>1 DEF VisitBanner, Becomes, DeleteBanner
  <2> HIDE DEF bs
  <2>3. /\ x \in SceneSystem /\ x.scenes = sys.scenes /\ x.runtime = sys.runtime
        /\ x.doomed = sys.doomed /\ x.banners = bs
    BY <1>0, <2>1 DEF SceneSystem
  <2>4. FreeScenes(x) # {}
    <3>1. PICK s \in FreeScenes(sys) : TRUE
      BY DEF VisitBanner
    <3>2. \A c \in BannerId : x.banners[c].owner # s
      BY <1>0, <2>3, <3>1 DEF bs, FreeScenes, SceneSystem, NoBanner, NoOwner, SceneId
    <3> QED BY <2>3, <3>1, <3>2 DEF FreeScenes
  <2>5. CASE Live(sys) = "title"
    <3>1. sys' = x
      BY <2>2, <2>3, <2>5 DEF FireTitleScene, Live
    <3>2. age' = age
      BY <2>2, <2>3, <3>1 DEF Becomes
    <3> QED BY <1>2, <2>3, <2>5, <3>1, <3>2 DEF bs
  <2>6. CASE Live(sys) = "game"
    <3> HIDE DEF x
    <3>1. sys' = CreateScene(Doom(x, x.runtime), "title")
      BY <2>2, <2>3, <2>6 DEF FireTitleScene, Live
    <3>2. Replaced(x, sys', sys'.runtime, "title")
      BY <2>3, <2>4, <3>1, ReplacingIs
    <3>3. sys'.runtime # sys.runtime /\ sys'.banners = bs
      BY <2>3, <3>2 DEF Replaced, FreeScenes
    <3>4. age' = 0
      BY <2>2, <3>3 DEF Becomes
    <3>5. /\ sys'.runtime \in SceneId \ Existing(sys)
          /\ sys'.scenes = [sys.scenes EXCEPT ![sys'.runtime] = "title"]
          /\ sys'.doomed = sys.doomed \cup {sys.runtime}
      BY <2>3, <3>2 DEF Replaced, FreeScenes, Existing
    <3> QED BY <1>2, <2>6, <3>3, <3>4, <3>5 DEF bs
  <2> QED BY <1>0, <2>5, <2>6
<1> QED BY <1>0, <1>1, <1>2

-----------------------------------------------------------------------------
(* How many scenes there are.                                              *)

\* The scenes the pass has still to visit.
Pending == {s \in SceneId : <<"scene", s>> \in todo}

\* While objects update, at most two scenes are on their way out, and before a game
\* starts one; the pass finds them all, but for a game it has ended itself.
FewDoomed ==
  /\ step = 0 => todo = {}
  /\ step = 0 => \E x, y \in SceneId : sys.doomed \subseteq {x, y}
  /\ step = 0 /\ Live(sys) = "title" => \E x \in SceneId : sys.doomed \subseteq {x}
  /\ step # 0 => \E x, y, z \in SceneId : /\ sys.doomed \subseteq {x, y, z}
                                          /\ sys.doomed \ {z} \subseteq Pending
  /\ step # 0 /\ Live(sys) = "game" => /\ sys.doomed \subseteq Pending
                                       /\ \E x, y \in SceneId : sys.doomed \subseteq {x, y}

\* A step that leaves scenes and todo alone, or only visits scenes that stay.
LEMMA FewDoomedSame ==
  ASSUME Inv, FewDoomed, sys'.doomed = sys.doomed, Live(sys') = Live(sys), step' = step,
         Pending' \cap sys.doomed = Pending \cap sys.doomed, step = 0 => todo' = {}
  PROVE  FewDoomed'
<1>1. Pending \subseteq SceneId /\ Pending' \subseteq SceneId
  BY DEF Pending
<1>2. \A S : sys.doomed \ S \subseteq Pending <=> sys.doomed \ S \subseteq Pending'
  OBVIOUS
<1>3. sys.doomed \subseteq Pending <=> sys.doomed \subseteq Pending'
  OBVIOUS
<1>4. Live(sys)' = Live(sys')
  BY DEF Live
<1> QED BY <1>2, <1>3, <1>4 DEF FewDoomed

LEMMA FewDoomedNext ==
  ASSUME Inv, FewDoomed, [Next]_vars
  PROVE  FewDoomed'
<1>0. /\ sys \in SceneSystem /\ sys.runtime \in SceneId /\ Live(sys) \in {"title", "game"}
      /\ sys.doomed \subseteq SceneId
      /\ Live(sys)' = Live(sys')
  BY LiveIs DEF Live, SceneSystem
<1>1. CASE Activate
  <2>1. /\ Live(sys) = "title" /\ sys'.doomed = sys.doomed \cup {sys.runtime}
        /\ step = 0 /\ step' = 0 /\ todo' = {}
    BY <1>1, ActivateIs DEF Activate, Replaced, FewDoomed
  <2>2. PICK x \in SceneId : sys.doomed \subseteq {x}
    BY <2>1 DEF FewDoomed
  <2>3. Live(sys') = "game"
    BY <1>0, <1>1, ActivateIs DEF Replaced, FreeScenes, Live, SceneSystem
  <2>4. sys'.doomed \subseteq {x, sys.runtime}
    BY <2>1, <2>2
  <2> QED BY <1>0, <2>1, <2>3, <2>4 DEF FewDoomed
<1>2. CASE GameOver
  <2>1. /\ sys'.doomed = sys.doomed /\ Live(sys') = Live(sys)
        /\ step' = step /\ todo' = todo /\ Pending' = Pending
    BY <1>2, GameOverIs DEF GameOver, Live, Pending
  <2> QED BY <2>1, FewDoomedSame DEF FewDoomed
<1>3. ASSUME NEW dt \in FrameTimes, BeginPass(dt) PROVE FewDoomed'
  <2>1. step = 0 /\ step' # 0 /\ sys' = sys
    BY <1>3, FlowAssumption DEF BeginPass
  <2>2. Pending' = Existing(sys)
    BY <1>3 DEF BeginPass, Pending, Existing
  <2>3. sys.doomed \subseteq Pending'
    BY <2>2, LiveIs
  <2>4. PICK x, y \in SceneId : sys.doomed \subseteq {x, y}
    BY <2>1 DEF FewDoomed
  <2>5. sys.doomed \subseteq {x, y, y}
    BY <2>4
  <2> QED BY <1>0, <2>1, <2>3, <2>4, <2>5 DEF FewDoomed
<1>4. ASSUME NEW s \in SceneId, VisitScene(s) PROVE FewDoomed'
  <2>1. step' = step /\ step # 0 /\ Pending' = Pending \ {s}
    BY <1>4 DEF VisitScene, Pending, FewDoomed
  <2>2. CASE s \in sys.doomed
    <3>1. sys'.doomed = sys.doomed \ {s} /\ sys'.runtime = sys.runtime
          /\ sys'.scenes = [sys.scenes EXCEPT ![s] = "none"]
      BY <1>4, <2>2, VisitSceneIs DEF Deleted
    <3>2. Live(sys') = Live(sys)
      BY <1>0, <2>2, <3>1, LiveIs DEF Live, SceneSystem
    <3>3. \E x, y, z \in SceneId : sys'.doomed \subseteq {x, y, z} /\ sys'.doomed \ {z} \subseteq Pending'
      <4>1. PICK x, y, z \in SceneId : sys.doomed \subseteq {x, y, z} /\ sys.doomed \ {z} \subseteq Pending
        BY <2>1 DEF FewDoomed
      <4>2. sys'.doomed \subseteq {x, y, z} /\ sys'.doomed \ {z} \subseteq Pending'
        BY <2>1, <3>1, <4>1
      <4> QED BY <4>2
    <3>4. ASSUME Live(sys) = "game"
          PROVE  sys'.doomed \subseteq Pending' /\ \E x, y \in SceneId : sys'.doomed \subseteq {x, y}
      <4>1. PICK x, y \in SceneId : sys.doomed \subseteq {x, y}
        BY <2>1, <3>4 DEF FewDoomed
      <4>2. sys'.doomed \subseteq {x, y} /\ sys'.doomed \subseteq Pending'
        BY <2>1, <3>1, <3>4, <4>1 DEF FewDoomed
      <4> QED BY <4>2
    <3> QED BY <1>0, <2>1, <3>2, <3>3, <3>4 DEF FewDoomed
  <2>3. CASE s \notin sys.doomed
    BY <1>4, <2>1, <2>3, FewDoomedSame DEF VisitScene
  <2> QED BY <2>2, <2>3
<1>5. ASSUME NEW b \in BannerId, VisitBanner(b) PROVE FewDoomed'
  <2>1. step' = step /\ step # 0
    BY <1>5 DEF VisitBanner, FewDoomed
  <2>2. Pending' = Pending
    BY <1>5 DEF VisitBanner, Pending
  <2>3. CASE sys'.doomed = sys.doomed /\ sys'.scenes = sys.scenes /\ sys'.runtime = sys.runtime
    BY <2>1, <2>2, <2>3, FewDoomedSame DEF Live
  <2>4. CASE /\ Live(sys) = "game"
             /\ sys'.runtime \in SceneId \ Existing(sys)
             /\ sys'.scenes = [sys.scenes EXCEPT ![sys'.runtime] = "title"]
             /\ sys'.doomed = sys.doomed \cup {sys.runtime}
    <3>1. Live(sys') = "title"
      BY <1>0, <2>4 DEF Live, SceneSystem
    <3>2. PICK x, y \in SceneId : sys.doomed \subseteq {x, y}
      BY <2>1, <2>4 DEF FewDoomed
    <3>3. sys.doomed \subseteq Pending
      BY <2>1, <2>4 DEF FewDoomed
    <3>4. /\ sys'.doomed \subseteq {x, y, sys.runtime}
          /\ sys'.doomed \ {sys.runtime} \subseteq Pending'
      BY <2>2, <2>4, <3>2, <3>3
    <3> QED BY <1>0, <2>1, <3>1, <3>4 DEF FewDoomed
  <2> QED BY <1>5, <2>3, <2>4, VisitBannerIs
<1>6. CASE EndPass
  <2>1. step # 0 /\ step' = 0 /\ todo' = {} /\ sys' = sys /\ Pending = {}
    BY <1>6 DEF EndPass, Pending
  <2>2. PICK x, y, z \in SceneId : sys.doomed \subseteq {x, y, z} /\ sys.doomed \ {z} \subseteq Pending
    BY <2>1 DEF FewDoomed
  <2>3. sys.doomed \subseteq {z} /\ sys.doomed \subseteq {z, z}
    BY <2>1, <2>2
  <2> QED BY <1>0, <2>1, <2>3 DEF FewDoomed
<1>7. CASE UNCHANGED vars
  <2>1. /\ sys'.doomed = sys.doomed /\ Live(sys') = Live(sys) /\ step' = step
        /\ todo' = todo /\ Pending' = Pending
    BY <1>7 DEF vars, Pending, Live
  <2> QED BY <2>1, FewDoomedSame DEF FewDoomed
<1> QED BY <1>1, <1>2, <1>3, <1>4, <1>5, <1>6, <1>7 DEF Next, Pass

-----------------------------------------------------------------------------
(* How long banners of other scenes last.                                  *)

\* A banner on show of a scene that is not the live one.
Stale(b) == b \in Showing(sys) /\ sys.banners[b].owner # sys.runtime

\* A banner's scene exists, or the banner has no time left. From the frame after its first
\* on, a game finds no other scene; in that frame the pass finds all banners of other
\* scenes, and then there are none.
StaleBanners ==
  /\ \A b \in BannerId : <<"banner", b>> \in todo => b \in Showing(sys)
  /\ \A b \in Showing(sys) : sys.banners[b].owner \in Existing(sys) \/ sys.banners[b].left = 0
  /\ Live(sys) = "game" /\ age >= 1 => sys.doomed = {}
  /\ Live(sys) = "game" /\ age = 1 /\ step # 0 => \A b \in BannerId : Stale(b) => <<"banner", b>> \in todo
  /\ Live(sys) = "game" /\ age = 2 => \A b \in BannerId : ~Stale(b)

\* A new live scene, and banners that showed before.
LEMMA StaleBannersNew ==
  ASSUME Inv, StaleBanners, sys' \in SceneSystem,
         sys'.runtime \in SceneId \ Existing(sys),
         NEW type \in {"title", "game"}, sys'.scenes = [sys.scenes EXCEPT ![sys'.runtime] = type],
         age' = 0,
         \A b \in BannerId : <<"banner", b>> \in todo' => <<"banner", b>> \in todo /\ sys'.banners[b] = sys.banners[b],
         \A b \in BannerId : sys'.banners[b] \in {sys.banners[b], NoBanner}
  PROVE  StaleBanners'
<1>1. sys \in SceneSystem
  BY LiveIs
<1>2. Existing(sys) \subseteq Existing(sys')
  BY <1>1 DEF Existing, SceneSystem
<1>3. \A b \in Showing(sys') : b \in Showing(sys) /\ sys'.banners[b] = sys.banners[b]
  BY DEF Showing
<1>4. \A b \in BannerId : <<"banner", b>> \in todo' => b \in Showing(sys')
  BY DEF Showing, StaleBanners
<1>5. \A b \in Showing(sys') : sys'.banners[b].owner \in Existing(sys') \/ sys'.banners[b].left = 0
  BY <1>2, <1>3 DEF StaleBanners
<1> QED BY <1>4, <1>5 DEF StaleBanners, Showing, Existing

LEMMA StaleBannersNext ==
  ASSUME Inv, FewDoomed, StaleBanners, [Next]_vars
  PROVE  StaleBanners'
<1>0. /\ sys \in SceneSystem /\ sys.runtime \in SceneId /\ Live(sys) \in {"title", "game"}
      /\ Existing(sys) = {sys.runtime} \cup sys.doomed
      /\ Live(sys)' = Live(sys') /\ Showing(sys)' = Showing(sys') /\ Existing(sys)' = Existing(sys')
      /\ sys' \in SceneSystem /\ age \in 0 .. 2
      /\ \A x \in SceneSystem : \A b \in BannerId : x.banners[b].owner \in Int /\ x.banners[b].left \in Int
  BY LiveIs, InvInductive, ScenesAssumption
     DEF Live, Showing, Existing, Inv, TypeOK, SceneSystem, SceneId, NoOwner
<1>1. CASE Activate
  <2>1. /\ sys'.runtime \in SceneId \ Existing(sys)
        /\ sys'.scenes = [sys.scenes EXCEPT ![sys'.runtime] = "game"]
        /\ age' = 0 /\ todo' = todo /\ sys'.banners = sys.banners
    BY <1>1, ActivateIs DEF Activate, Replaced, FreeScenes, Existing
  <2> QED BY <1>0, <2>1, StaleBannersNew
<1>2. CASE GameOver
  <2>1. /\ sys'.scenes = sys.scenes /\ sys'.doomed = sys.doomed /\ sys'.runtime = sys.runtime
        /\ Live(sys') = Live(sys) /\ Existing(sys') = Existing(sys)
        /\ age' = age /\ step' = step /\ todo' = todo /\ step = 0
    BY <1>2, GameOverIs DEF GameOver, Live, Existing
  <2>2. CASE sys'.banners = sys.banners
    <3>1. Showing(sys') = Showing(sys)
      BY <2>2 DEF Showing
    <3> QED BY <1>0, <2>1, <2>2, <3>1 DEF StaleBanners, Stale
  <2>3. CASE \E b \in FreeBanners(sys) :
               sys'.banners = [sys.banners EXCEPT ![b] = [owner |-> sys.runtime, left |-> BannerLife]]
    <3>1. PICK b \in FreeBanners(sys) :
               sys'.banners = [sys.banners EXCEPT ![b] = [owner |-> sys.runtime, left |-> BannerLife]]
      BY <2>3
    <3>2. b \in BannerId /\ b \notin Showing(sys)
      BY DEF FreeBanners
    <3>3. \A c \in BannerId : c # b => sys'.banners[c] = sys.banners[c]
      BY <1>0, <3>1 DEF SceneSystem
    <3>4. sys'.banners[b].owner = sys.runtime /\ sys.runtime # NoOwner
      BY <1>0, <3>1, <3>2 DEF SceneSystem, SceneId, NoOwner
    <3>5. Showing(sys') = Showing(sys) \cup {b}
      BY <3>2, <3>3, <3>4 DEF Showing, NoBanner
    <3>6. sys.runtime \in Existing(sys)
      BY <1>0
    <3>7. /\ \A c \in BannerId : <<"banner", c>> \in todo' => c \in Showing(sys')
          /\ \A c \in Showing(sys') : sys'.banners[c].owner \in Existing(sys') \/ sys'.banners[c].left = 0
      BY <2>1, <3>2, <3>3, <3>4, <3>5, <3>6 DEF StaleBanners, Showing
    <3>8. \A c \in BannerId : Stale(c)' => Stale(c)
      BY <1>0, <2>1, <3>3, <3>4, <3>5 DEF Stale
    <3> QED BY <1>0, <2>1, <3>7, <3>8 DEF StaleBanners
  <2> QED BY <1>2, <2>2, <2>3, GameOverIs
<1>3. ASSUME NEW dt \in FrameTimes, BeginPass(dt) PROVE StaleBanners'
  <2>1. /\ sys' = sys /\ age' = age
        /\ \A b \in BannerId : <<"banner", b>> \in todo' <=> b \in Showing(sys)
    BY <1>3 DEF BeginPass
  <2> QED BY <1>0, <2>1 DEF StaleBanners, Stale, Showing
<1>4. ASSUME NEW s \in SceneId, VisitScene(s) PROVE StaleBanners'
  <2>1. /\ step' = step /\ age' = age
        /\ \A b \in BannerId : <<"banner", b>> \in todo => <<"banner", b>> \in todo'
        /\ \A b \in BannerId : <<"banner", b>> \in todo' =>
             <<"banner", b>> \in todo \/ (s \in sys.doomed /\ b \in Owned(sys, s))
    BY <1>4, VisitSceneIs DEF VisitScene
  <2>2. CASE s \in sys.doomed
    <3> DEFINE bs == sys'.banners
    <3>1. /\ sys'.scenes = [sys.scenes EXCEPT ![s] = "none"] /\ sys'.doomed = sys.doomed \ {s}
          /\ sys'.runtime = sys.runtime
          /\ \A b \in BannerId : bs[b] = IF b \in Owned(sys, s) THEN [sys.banners[b] EXCEPT !.left = 0]
                                                                ELSE sys.banners[b]
      BY <1>4, <2>2, VisitSceneIs DEF Deleted
    <3>2. s # NoOwner /\ s # sys.runtime
      BY <2>2, LiveIs DEF SceneId, NoOwner
    <3>3. \A b \in BannerId : b \in Owned(sys, s) => bs[b].owner = s /\ bs[b].left = 0
      <4>1. \A b \in BannerId : sys.banners[b] \in [owner : SceneId \cup {NoOwner}, left : 0 .. BannerLife]
        BY <1>0 DEF SceneSystem
      <4>2. \A b \in BannerId : b \in Owned(sys, s) => sys.banners[b].owner = s
        BY DEF Owned
      <4> QED BY <3>1, <4>1, <4>2
    <3>4. \A b \in BannerId : bs[b].owner = sys.banners[b].owner
      BY <3>1, <3>3 DEF Owned
    <3>5. Showing(sys') = Showing(sys)
      <4>1. \A b \in BannerId : b \in Owned(sys, s) => b \in Showing(sys) /\ bs[b] # NoBanner
        BY <3>2, <3>3 DEF Owned, NoBanner
      <4> QED BY <3>1, <4>1 DEF Showing
    <3>6. Existing(sys') = Existing(sys) \ {s} /\ Live(sys') = Live(sys)
      BY <1>0, <3>1, <3>2 DEF Existing, Live, SceneSystem
    <3>7. \A b \in BannerId : Stale(b)' <=> Stale(b)
      BY <1>0, <3>1, <3>4, <3>5 DEF Stale
    <3>8. \A b \in Showing(sys') : bs[b].owner \in Existing(sys') \/ bs[b].left = 0
      <4> TAKE b \in Showing(sys')
      <4>1. b \in Showing(sys) /\ b \in BannerId
        BY <3>5 DEF Showing
      <4>2. CASE b \in Owned(sys, s)
        BY <3>3, <4>1, <4>2
      <4>3. CASE b \notin Owned(sys, s)
        BY <3>1, <3>6, <4>1, <4>3 DEF StaleBanners, Owned
      <4> QED BY <4>2, <4>3
    <3>9. \A b \in BannerId : <<"banner", b>> \in todo' => b \in Showing(sys')
      BY <2>1, <3>5 DEF StaleBanners, Owned
    <3>10. Live(sys') = "game" /\ age >= 1 => sys'.doomed = {}
      BY <3>1, <3>6 DEF StaleBanners
    <3> QED BY <1>0, <2>1, <3>6, <3>7, <3>8, <3>9, <3>10 DEF StaleBanners
  <2>3. CASE s \notin sys.doomed
    <3>1. sys' = sys
      BY <1>4, <2>3 DEF VisitScene
    <3> QED BY <2>1, <2>3, <3>1 DEF StaleBanners, Stale
  <2> QED BY <2>2, <2>3
<1>5. ASSUME NEW b \in BannerId, VisitBanner(b) PROVE StaleBanners'
  <2>1. /\ step' = step /\ step # 0 /\ step \in Int /\ step > 0
        /\ <<"banner", b>> \in todo /\ <<"banner", b>> \notin todo'
        /\ \A c \in BannerId : <<"banner", c>> \in todo' <=> <<"banner", c>> \in todo /\ c # b
    BY <1>5, FlowAssumption DEF VisitBanner, FewDoomed, Inv, TypeOK
  <2>2. CASE /\ sys.banners[b].left > step
             /\ sys'.scenes = sys.scenes /\ sys'.doomed = sys.doomed
             /\ sys'.runtime = sys.runtime /\ age' = age
             /\ sys'.banners = [sys.banners EXCEPT ![b].left = @ - step]
    <3>1. \A c \in BannerId : c # b => sys'.banners[c] = sys.banners[c]
      BY <1>0, <2>2 DEF SceneSystem
    <3>2. /\ sys'.banners[b].owner = sys.banners[b].owner
          /\ sys'.banners[b].left = sys.banners[b].left - step
      BY <1>0, <2>2 DEF SceneSystem
    <3>3. sys'.banners[b].left # 0 /\ sys.banners[b].left # 0
      BY <1>0, <2>1, <2>2, <3>2
    <3>4. Showing(sys') = Showing(sys)
      BY <3>1, <3>3 DEF Showing, NoBanner
    <3>5. Existing(sys') = Existing(sys) /\ Live(sys') = Live(sys)
      BY <2>2 DEF Existing, Live
    <3>6. \A c \in BannerId : Stale(c)' <=> Stale(c)
      BY <1>0, <2>2, <3>1, <3>2, <3>4 DEF Stale
    <3>7. b \in Showing(sys)
      BY <2>1 DEF StaleBanners
    <3>8. sys.banners[b].owner \in Existing(sys)
      BY <3>3, <3>7 DEF StaleBanners
    <3>9. Live(sys) = "game" /\ age = 1 => ~Stale(b)
      BY <1>0, <3>8 DEF StaleBanners, Stale
    <3>10. \A c \in Showing(sys') : sys'.banners[c].owner \in Existing(sys') \/ sys'.banners[c].left = 0
      BY <3>1, <3>2, <3>4, <3>5, <3>8 DEF StaleBanners, Showing
    <3> QED BY <1>0, <2>1, <2>2, <3>4, <3>5, <3>6, <3>9, <3>10 DEF StaleBanners
  <2>3. CASE sys.banners[b].left <= step /\ sys'.banners = [sys.banners EXCEPT ![b] = NoBanner]
    <3>1. /\ \A c \in BannerId : c # b => sys'.banners[c] = sys.banners[c]
          /\ sys'.banners[b] = NoBanner
      BY <1>0, <2>3 DEF SceneSystem
    <3>2. CASE /\ Live(sys) = "title"
               /\ sys'.scenes = sys.scenes /\ sys'.doomed = sys.doomed
               /\ sys'.runtime = sys.runtime /\ age' = age
      <4>1. Existing(sys') = Existing(sys) /\ Live(sys') = "title"
        BY <3>2 DEF Existing, Live
      <4>2. Showing(sys') = Showing(sys) \ {b}
        BY <3>1 DEF Showing
      <4> QED BY <1>0, <2>1, <3>1, <4>1, <4>2 DEF StaleBanners, Showing
    <3>3. CASE /\ sys'.runtime \in SceneId \ Existing(sys)
               /\ sys'.scenes = [sys.scenes EXCEPT ![sys'.runtime] = "title"]
               /\ age' = 0
      BY <1>0, <2>1, <3>1, <3>3, StaleBannersNew
    <3>4. ~(sys.banners[b].left > step)
      BY <1>0, <2>1, <2>3
    <3> QED BY <1>5, <3>2, <3>3, <3>4, VisitBannerIs
  <2> QED BY <1>5, <2>2, <2>3, VisitBannerIs
<1>6. CASE EndPass
  <2>1. /\ step # 0 /\ step' = 0 /\ todo = {} /\ todo' = {} /\ sys' = sys /\ Pending = {}
        /\ age' = IF age < 2 THEN age + 1 ELSE age
    BY <1>6 DEF EndPass, Pending
  <2>2. Live(sys) = "game" => sys.doomed = {}
    BY <2>1 DEF FewDoomed
  <2>3. Live(sys) = "game" /\ age' = 2 => \A b \in BannerId : ~Stale(b)
    <3>1. CASE age = 1
      BY <2>1, <3>1 DEF StaleBanners
    <3>2. CASE age = 2
      BY <3>2 DEF StaleBanners
    <3>3. CASE age = 0
      BY <2>1, <3>3
    <3> QED BY <1>0, <3>1, <3>2, <3>3
  <2>4. \A b \in BannerId : Stale(b)' <=> Stale(b)
    BY <2>1 DEF Stale
  <2> QED BY <1>0, <2>1, <2>2, <2>3, <2>4 DEF StaleBanners
<1>7. CASE UNCHANGED vars
  BY <1>7 DEF vars, StaleBanners, Stale
<1> QED BY <1>1, <1>2, <1>3, <1>4, <1>5, <1>6, <1>7 DEF Next, Pass

FlowInv == Inv /\ FewDoomed /\ StaleBanners

LEMMA FlowInvInductive ==
  /\ Init => FlowInv
  /\ FlowInv /\ [Next]_vars => FlowInv'
<1>1. ASSUME Init PROVE FlowInv
  <2>1. Inv
    BY <1>1, InvInductive
  <2>2. /\ todo = {} /\ step = 0 /\ age = 0 /\ sys.doomed = {} /\ 1 \in SceneId
        /\ \A b \in BannerId : sys.banners[b] = NoBanner
    BY <1>1, ScenesAssumption DEF Init, SceneId
  <2>3. FewDoomed
    BY <2>2 DEF FewDoomed
  <2>4. StaleBanners
    BY <2>2 DEF StaleBanners, Showing
  <2> QED BY <2>1, <2>3, <2>4 DEF FlowInv
<1>2. ASSUME FlowInv, [Next]_vars PROVE FlowInv'
  BY <1>2, InvInductive, FewDoomedNext, StaleBannersNext DEF FlowInv
<1> QED BY <1>1, <1>2

\* One more element makes a set at most one larger.
LEMMA OneMore ==
  ASSUME NEW S, IsFiniteSet(S), NEW n \in Nat, Cardinality(S) <= n, NEW x
  PROVE  IsFiniteSet(S \cup {x}) /\ Cardinality(S \cup {x}) <= n + 1
<1>1. Cardinality(S) \in Nat
  BY FS_CardinalityType
<1>2. /\ IsFiniteSet(S \cup {x})
      /\ Cardinality(S \cup {x}) = IF x \in S THEN Cardinality(S) ELSE Cardinality(S) + 1
  BY FS_AddElement
<1> QED BY <1>1, <1>2

\* A subset of four things has no more than four.
LEMMA FourAtMost ==
  ASSUME NEW a, NEW b, NEW c, NEW d, NEW S \in SUBSET {a, b, c, d}
  PROVE  Cardinality(S) <= 4
<1>1. IsFiniteSet({a}) /\ Cardinality({a}) <= 1
  BY FS_Singleton
<1>2. IsFiniteSet({a} \cup {b}) /\ Cardinality({a} \cup {b}) <= 1 + 1
  BY <1>1, OneMore
<1>3. IsFiniteSet({a} \cup {b} \cup {c}) /\ Cardinality({a} \cup {b} \cup {c}) <= 2 + 1
  <2> DEFINE T == {a} \cup {b}
  <2>1. IsFiniteSet(T) /\ Cardinality(T) <= 2
    BY <1>2
  <2> HIDE DEF T
  <2>2. IsFiniteSet(T \cup {c}) /\ Cardinality(T \cup {c}) <= 2 + 1
    BY <2>1, OneMore
  <2> QED BY <2>2 DEF T
<1>4. IsFiniteSet({a} \cup {b} \cup {c} \cup {d}) /\ Cardinality({a} \cup {b} \cup {c} \cup {d}) <= 3 + 1
  <2> DEFINE T == {a} \cup {b} \cup {c}
  <2>1. IsFiniteSet(T) /\ Cardinality(T) <= 3
    BY <1>3
  <2> HIDE DEF T
  <2>2. IsFiniteSet(T \cup {d}) /\ Cardinality(T \cup {d}) <= 3 + 1
    BY <2>1, OneMore
  <2> QED BY <2>2 DEF T
<1> DEFINE Four == {a} \cup {b} \cup {c} \cup {d}
<1>5. S \in SUBSET Four
  OBVIOUS
<1>6. IsFiniteSet(Four) /\ Cardinality(Four) <= 4
  BY <1>4
<1> HIDE DEF Four
<1>7. Cardinality(Four) \in Nat
  BY <1>6, FS_CardinalityType
<1>8. IsFiniteSet(S) /\ Cardinality(S) <= Cardinality(Four)
  BY <1>5, <1>6, FS_Subset
<1>9. Cardinality(S) \in Nat
  BY <1>8, FS_CardinalityType
<1> QED BY <1>6, <1>7, <1>8, <1>9

\* The live scene and at most three doomed ones exist.
LEMMA FourScenes == FlowInv => FewScenes
<1> SUFFICES ASSUME FlowInv PROVE FewScenes
  OBVIOUS
<1>1. \E x, y, z \in SceneId : sys.doomed \subseteq {x, y, z}
  <2>1. CASE step = 0
    <3>1. PICK x, y \in SceneId : sys.doomed \subseteq {x, y}
      BY <2>1 DEF FlowInv, FewDoomed
    <3>2. sys.doomed \subseteq {x, y, y}
      BY <3>1
    <3> QED BY <3>2
  <2>2. CASE step # 0
    BY <2>2 DEF FlowInv, FewDoomed
  <2> QED BY <2>1, <2>2
<1>2. PICK x, y, z \in SceneId : sys.doomed \subseteq {x, y, z}
  BY <1>1
<1>3. Existing(sys) \in SUBSET {sys.runtime, x, y, z}
  BY <1>2, LiveIs DEF FlowInv
<1> QED BY <1>3, FourAtMost DEF FewScenes

\* Scenes do not pile up: however often they follow each other and however many banners
\* and identities there are, at most four scenes exist at a time.
THEOREM AtMostFourScenes == Spec => []FewScenes
BY FourScenes, FlowInvInductive, PTL DEF Spec

\* A game is ended by a banner of its own, or in its first two frames by one of another
\* game, for any number of scenes and banners and any lengths of frames.
THEOREM OnlyYoungGamesAreCancelled == Spec => StaleBannerWindow
<1> DEFINE A == sys.scenes[sys.runtime] = "game" /\ sys'.runtime # sys.runtime
                  => \/ \E b \in BannerId : /\ sys.banners[b].owner = sys.runtime
                                            /\ sys'.banners[b].owner # sys.runtime
                     \/ age <= 1
<1>1. ASSUME FlowInv, [Next]_vars, Live(sys) = "game", sys'.runtime # sys.runtime
      PROVE  \/ \E b \in BannerId : /\ sys.banners[b].owner = sys.runtime
                                    /\ sys'.banners[b].owner # sys.runtime
             \/ age <= 1
  <2>0. Inv /\ StaleBanners /\ sys \in SceneSystem /\ age \in 0 .. 2 /\ sys.runtime \in SceneId
    BY <1>1, LiveIs DEF FlowInv, Inv, TypeOK
  <2>1. PICK b \in BannerId : VisitBanner(b)
    <3>1. ASSUME NEW s \in SceneId, VisitScene(s) PROVE FALSE
      BY <1>1, <2>0, <3>1, VisitSceneIs DEF VisitScene, Deleted
    <3>2. ~Activate
      BY <1>1, <2>0, ActivateIs
    <3>3. ~GameOver
      BY <1>1, <2>0, GameOverIs
    <3> QED BY <1>1, <3>1, <3>2, <3>3 DEF Next, Pass, BeginPass, EndPass, vars
  <2>2. sys'.banners = [sys.banners EXCEPT ![b] = NoBanner] /\ b \in Showing(sys)
    BY <1>1, <2>0, <2>1, VisitBannerIs DEF StaleBanners, VisitBanner
  <2>3. CASE sys.banners[b].owner = sys.runtime
    <3>1. sys'.banners[b].owner = NoOwner /\ NoOwner # sys.runtime
      BY <2>0, <2>2 DEF SceneSystem, NoBanner, NoOwner, SceneId
    <3> QED BY <2>3, <3>1
  <2>4. CASE sys.banners[b].owner # sys.runtime
    <3>1. age # 2
      BY <1>1, <2>0, <2>2, <2>4 DEF StaleBanners, Stale
    <3> QED BY <2>0, <3>1
  <2> QED BY <2>3, <2>4
<1>2. FlowInv /\ [Next]_vars => [A]_vars
  BY <1>1 DEF Live
<1> QED BY <1>2, FlowInvInductive, PTL DEF Spec, StaleBannerWindow

-----------------------------------------------------------------------------
(* The refinement of the flow that the player sees.                        *)

Mode == IF ~Playing THEN "title" ELSE IF Over THEN "over" ELSE "game"

\* A step that keeps the owners and the live scene is a stutter, or an End where a banner
\* of the live game appears.
LEMMA ModeSame ==
  ASSUME sys'.runtime = sys.runtime,
         sys'.scenes[sys.runtime] = sys.scenes[sys.runtime],
         \A b \in BannerId : sys'.banners[b].owner = sys.runtime <=> sys.banners[b].owner = sys.runtime
  PROVE  Mode' = Mode
<1>1. Playing' = Playing
  BY DEF Playing
<1>2. (\E b \in BannerId : sys.banners[b].owner = sys.runtime)'
        <=> \E b \in BannerId : sys.banners[b].owner = sys.runtime
  OBVIOUS
<1>3. Over' <=> Over
  BY <1>1, <1>2 DEF Over
<1> QED BY <1>1, <1>3 DEF Mode

\* Every step of the scenes is a step of the flow, or one that the player does not see.
LEMMA StepFollowsTheFlow == FlowInv /\ [Next]_vars => [Flow!Next]_(Flow!vars)
<1> SUFFICES ASSUME FlowInv, [Next]_vars PROVE [Flow!Next]_(Flow!vars)
  OBVIOUS
<1> DEFINE young == age <= 1
<1>0. /\ Inv /\ FewDoomed /\ StaleBanners /\ sys \in SceneSystem /\ sys.runtime \in SceneId
      /\ Live(sys) \in {"title", "game"} /\ age \in 0 .. 2
  BY LiveIs DEF FlowInv, Inv, TypeOK
<1>a. Playing <=> Live(sys) = "game"
  BY DEF Playing, Live
<1>1. SUFFICES \/ Mode = "title" /\ Mode' = "game" /\ young' = TRUE
               \/ Mode = "game" /\ Mode' = "over" /\ young' = young
               \/ Mode = "over" /\ Mode' = "title" /\ young' = TRUE
               \/ Mode = "game" /\ young /\ Mode' = "title" /\ young' = TRUE
               \/ young /\ young' = FALSE /\ Mode' = Mode
               \/ Mode' = Mode /\ young' = young
  BY DEF Mode, Flow!Next, Flow!vars, Flow!Start, Flow!End, Flow!Return, Flow!Cancel, Flow!Settle
<1>2. CASE Activate
  <2>1. Live(sys) = "title" /\ Replaced(sys, sys', sys'.runtime, "game") /\ age' = 0
    BY <1>0, <1>2, ActivateIs
  <2>2. /\ sys'.runtime \in SceneId
        /\ \A b \in BannerId : sys'.banners[b].owner # sys'.runtime
        /\ sys'.scenes[sys'.runtime] = "game"
    BY <1>0, <2>1 DEF Replaced, FreeScenes, SceneSystem
  <2>3. Mode = "title"
    BY <1>a, <2>1 DEF Mode
  <2>4. Mode' = "game"
    BY <2>2 DEF Mode, Playing, Over
  <2> QED BY <2>1, <2>3, <2>4
<1>3. CASE GameOver
  <2>1. /\ sys'.scenes = sys.scenes /\ sys'.runtime = sys.runtime /\ age' = age
        /\ \/ sys'.banners = sys.banners
           \/ /\ Live(sys) = "game"
              /\ \E b \in FreeBanners(sys) :
                   sys'.banners = [sys.banners EXCEPT ![b] = [owner |-> sys.runtime, left |-> BannerLife]]
    BY <1>0, <1>3, GameOverIs
  <2>2. CASE sys'.banners = sys.banners
    BY <2>1, <2>2, ModeSame
  <2>3. CASE /\ Live(sys) = "game"
             /\ \E b \in FreeBanners(sys) :
                  sys'.banners = [sys.banners EXCEPT ![b] = [owner |-> sys.runtime, left |-> BannerLife]]
    <3>1. PICK b \in FreeBanners(sys) :
                 sys'.banners = [sys.banners EXCEPT ![b] = [owner |-> sys.runtime, left |-> BannerLife]]
      BY <2>3
    <3>2. b \in BannerId /\ sys'.banners[b].owner = sys.runtime
      BY <1>0, <3>1 DEF FreeBanners, SceneSystem
    <3>3. sys'.banners[b].owner = sys'.runtime /\ sys'.scenes[sys'.runtime] = "game"
      BY <2>1, <2>3, <3>2 DEF Live
    <3>4. Mode' = "over"
      BY <3>2, <3>3 DEF Mode, Playing, Over
    <3>5. Mode = "game" \/ Mode = "over"
      BY <1>a, <2>3 DEF Mode
    <3> QED BY <2>1, <3>4, <3>5
  <2> QED BY <2>1, <2>2, <2>3
<1>4. ASSUME NEW dt \in FrameTimes, BeginPass(dt) PROVE Mode' = Mode /\ young' = young
  BY <1>4, ModeSame DEF BeginPass
<1>5. ASSUME NEW s \in SceneId, VisitScene(s) PROVE Mode' = Mode /\ young' = young
  <2>1. CASE s \in sys.doomed
    <3>1. Deleted(sys, sys', s) /\ age' = age
      BY <1>0, <1>5, <2>1, VisitSceneIs
    <3>2. s # sys.runtime
      BY <1>0, <2>1, LiveIs
    <3>3. sys'.runtime = sys.runtime /\ sys'.scenes[sys.runtime] = sys.scenes[sys.runtime]
      BY <1>0, <3>1, <3>2 DEF Deleted, SceneSystem
    <3>4. \A b \in BannerId : sys.banners[b] \in [owner : SceneId \cup {NoOwner}, left : 0 .. BannerLife]
      BY <1>0 DEF SceneSystem
    <3>5. \A b \in BannerId : sys'.banners[b].owner = sys.banners[b].owner
      BY <3>1, <3>4 DEF Deleted
    <3> QED BY <3>1, <3>3, <3>5, ModeSame
  <2>2. CASE s \notin sys.doomed
    BY <1>5, <2>2, ModeSame DEF VisitScene
  <2> QED BY <2>1, <2>2
<1>6. ASSUME NEW b \in BannerId, VisitBanner(b)
      PROVE  \/ Mode = "over" /\ Mode' = "title" /\ young' = TRUE
             \/ Mode = "game" /\ young /\ Mode' = "title" /\ young' = TRUE
             \/ Mode' = Mode /\ young' = young
  <2>0. \A c \in BannerId : sys.banners[c] \in [owner : SceneId \cup {NoOwner}, left : 0 .. BannerLife]
    BY <1>0 DEF SceneSystem
  <2>1. CASE /\ sys'.scenes = sys.scenes /\ sys'.runtime = sys.runtime /\ age' = age
             /\ sys'.banners = [sys.banners EXCEPT ![b].left = @ - step]
    <3>1. \A c \in BannerId : sys'.banners[c].owner = sys.banners[c].owner
      BY <1>0, <2>0, <2>1 DEF SceneSystem
    <3> QED BY <2>1, <3>1, ModeSame
  <2>2. CASE /\ Live(sys) = "title"
             /\ sys'.scenes = sys.scenes /\ sys'.runtime = sys.runtime /\ age' = age
    <3>1. Playing' = Playing /\ ~Playing
      BY <1>a, <2>2 DEF Playing
    <3>2. Mode' = Mode
      BY <3>1 DEF Mode
    <3> QED BY <2>2, <3>2
  <2>3. CASE /\ Live(sys) = "game" /\ age' = 0
             /\ sys'.runtime \in SceneId \ Existing(sys)
             /\ sys'.scenes = [sys.scenes EXCEPT ![sys'.runtime] = "title"]
    <3>1. Mode' = "title"
      BY <1>0, <2>3 DEF Mode, Playing, SceneSystem
    <3>2. CASE age <= 1
      BY <1>a, <2>3, <3>1, <3>2 DEF Mode
    <3>3. CASE age = 2
      <4>1. b \in Showing(sys) /\ ~Stale(b)
        BY <1>0, <1>6, <2>3, <3>3 DEF StaleBanners, VisitBanner
      <4>2. sys.banners[b].owner = sys.runtime
        BY <4>1 DEF Stale
      <4>3. Mode = "over"
        BY <1>a, <2>3, <4>2 DEF Mode, Over
      <4> QED BY <2>3, <3>1, <4>3
    <3>4. age <= 1 \/ age = 2
      BY <1>0
    <3> QED BY <3>2, <3>3, <3>4
  <2> QED BY <1>0, <1>6, <2>1, <2>2, <2>3, VisitBannerIs
<1>7. CASE EndPass
  <2>1. Mode' = Mode
    BY <1>7, ModeSame DEF EndPass
  <2>2. age' = IF age < 2 THEN age + 1 ELSE age
    BY <1>7 DEF EndPass
  <2>3. young' = young \/ (young /\ young' = FALSE)
    BY <1>0, <2>2
  <2> QED BY <2>1, <2>3
<1>8. CASE UNCHANGED vars
  BY <1>8, ModeSame DEF vars
<1> QED BY <1>2, <1>3, <1>4, <1>5, <1>6, <1>7, <1>8 DEF Next, Pass

\* The flow starts with the title.
LEMMA FlowStarts == Init => Flow!Init
<1> SUFFICES ASSUME Init PROVE Flow!Init
  OBVIOUS
<1>1. sys.scenes[sys.runtime] = "title" /\ age = 0
  BY ScenesAssumption DEF Init, SceneId
<1> QED BY <1>1 DEF Flow!Init, Playing

\* The scenes follow each other as the player is promised: title, game, Game Over and the
\* title again, and only a new game goes back to the title without its banner.  This is
\* the safety part of ImplementsGameFlow.
THEOREM FollowsTheFlow == Spec => Flow!Init /\ [][Flow!Next]_(Flow!vars)
BY FlowStarts, StepFollowsTheFlow, FlowInvInductive, PTL DEF Spec
=============================================================================
