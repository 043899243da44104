------------------------------ MODULE SceneFlow ------------------------------
(***************************************************************************)
(* How the scenes follow each other, frame by frame.  In a frame the       *)
(* objects are updated first: the player may start a game, and planets or  *)
(* the player may fire GameOver, any number of times.  Then the engine     *)
(* goes over all objects, in any order, and deletes those whose life time  *)
(* is over; a deletion can fire triggers in the middle of that pass.       *)
(***************************************************************************)
EXTENDS Scenes

CONSTANT FrameTimes    \* the lengths a frame may have

ASSUME FlowAssumption == FrameTimes \subseteq Nat \ {0}

VARIABLES
  sys,     \* SceneSystem
  todo,    \* the objects the deletion pass has still to visit
  step,    \* the length of the frame while the pass runs, 0 while objects update
  age      \* history: the frames since Runtime.Scene last changed, counted up to 2

vars == <<sys, todo, step, age>>

Object == {"scene"} \X SceneId \cup {"banner"} \X BannerId

TypeOK ==
  /\ sys \in SceneSystem
  /\ todo \subseteq Object
  /\ step \in FrameTimes \cup {0}
  /\ age \in 0 .. 2

\* Init creates Startup, whose OnCreate creates the title scene.
Init ==
  /\ sys = [ scenes  |-> [s \in SceneId |-> IF s = 1 THEN "title" ELSE "none"],
             doomed  |-> {},
             runtime |-> 1,
             banners |-> [b \in BannerId |-> NoBanner] ]
  /\ todo = {}
  /\ step = 0
  /\ age = 0

Becomes(new) ==
  /\ sys' = new
  /\ age' = IF new.runtime # sys.runtime THEN 0 ELSE age

-----------------------------------------------------------------------------
\* The player activates Start: an update of a title scene that is not pending
\* deletion sends the input to the menu, whose command fires GameScene.
Activate ==
  /\ step = 0
  /\ FreeScenes(sys) # {}
  /\ \E s \in Existing(sys) \ sys.doomed : sys.scenes[s] = "title"
  /\ Becomes(FireGameScene(sys))
  /\ UNCHANGED <<todo, step>>

\* A planet's timer or the player's GameOver input fires GameOver.
GameOver ==
  /\ step = 0
  /\ FreeBanners(sys) # {}
  /\ Becomes(FireGameOver(sys))
  /\ UNCHANGED <<todo, step>>

\* The updates of a frame are done and the deletion pass begins.
BeginPass(dt) ==
  /\ step = 0
  /\ step' = dt
  /\ todo' = {"scene"} \X Existing(sys) \cup {"banner"} \X Showing(sys)
  /\ UNCHANGED <<sys, age>>

\* The pass visits a scene.  The banners a deleted scene owns may be deleted by this
\* pass or, where it has been at them before, by the next one.
VisitScene(s) ==
  /\ <<"scene", s>> \in todo
  /\ IF s \in sys.doomed
       THEN /\ Becomes(DeleteScene(sys, s))
            /\ \/ todo' = todo \ {<<"scene", s>>}
               \/ todo' = (todo \ {<<"scene", s>>}) \cup {"banner"} \X Owned(sys, s)
       ELSE /\ todo' = todo \ {<<"scene", s>>}
            /\ UNCHANGED <<sys, age>>
  /\ UNCHANGED step

\* Mutants: a banner's time does not run; it must end exactly.
VisitBannerIdle(b) ==
  /\ <<"banner", b>> \in todo
  /\ todo' = todo \ {<<"banner", b>>}
  /\ UNCHANGED <<sys, step, age>>
VisitBannerExact(b) ==
  /\ <<"banner", b>> \in todo
  /\ FreeScenes(sys) # {}
  /\ IF sys.banners[b].left = step
       THEN Becomes(DeleteBanner(sys, b))
       ELSE Becomes([sys EXCEPT !.banners[b].left = @ - step])
  /\ todo' = todo \ {<<"banner", b>>}
  /\ UNCHANGED step

\* The pass visits a banner.
VisitBanner(b) ==
  /\ <<"banner", b>> \in todo
  /\ FreeScenes(sys) # {}
  /\ IF sys.banners[b].left <= step
       THEN Becomes(DeleteBanner(sys, b))
       ELSE Becomes([sys EXCEPT !.banners[b].left = @ - step])
  /\ todo' = todo \ {<<"banner", b>>}
  /\ UNCHANGED step

EndPass ==
  /\ step # 0
  /\ todo = {}
  /\ step' = 0
  /\ age' = IF age < 2 THEN age + 1 ELSE age
  /\ UNCHANGED <<sys, todo>>

Pass == \/ \E s \in SceneId : VisitScene(s)
        \/ \E b \in BannerId : VisitBanner(b)
        \/ EndPass

Next ==
  \/ Activate
  \/ GameOver
  \/ \E dt \in FrameTimes : BeginPass(dt)
  \/ Pass

Spec == Init /\ [][Next]_vars

\* Frames keep coming, and a pass goes over all of its objects.
FairSpec == Spec /\ WF_vars(\E dt \in FrameTimes : BeginPass(dt)) /\ WF_vars(Pass)

-----------------------------------------------------------------------------
\* Exactly one scene is not on its way out, and Runtime.Scene names it: triggers
\* fired at Runtime.Scene find a scene (the assertion in Planet::Update), and no
\* two scenes run side by side, although each creation and deletion is a trigger
\* that several banners, planets and inputs may fire in one frame.
OneScene == Existing(sys) \ sys.doomed = {sys.runtime}

\* Scenes do not pile up: at any moment there are at most four, the live one and
\* those of the last frames.
FewScenes == Cardinality(Existing(sys)) <= 4

\* A banner that outlives its scene can end a game it does not belong to, but only
\* one that is at most a frame old.
StaleBannerWindow ==
  [][ sys.scenes[sys.runtime] = "game" /\ sys'.runtime # sys.runtime
        => \/ \E b \in BannerId : /\ sys.banners[b].owner = sys.runtime
                                  /\ sys'.banners[b].owner # sys.runtime
           \/ age <= 1 ]_vars

\* The scenes are the flow of title and game that the player sees, and a game that is
\* over leads back to the title (the fairness of Return).
Playing == sys.scenes[sys.runtime] = "game"
Over    == Playing /\ \E b \in BannerId : sys.banners[b].owner = sys.runtime

Flow == INSTANCE GameFlow WITH
          mode  <- IF ~Playing THEN "title" ELSE IF Over THEN "over" ELSE "game",
          young <- age <= 1
ImplementsGameFlow == Flow!Spec
=============================================================================
