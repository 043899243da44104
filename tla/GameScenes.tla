----------------------------- MODULE GameScenes -----------------------------
(***************************************************************************)
(* The scenes of the whole game follow each other as SceneFlow has them:   *)
(* SceneFlow leaves planets and droppers out and lets their triggers come  *)
(* at any time.  A frame's physics and updates are SceneFlow's time        *)
(* between two passes, and Game gets SceneFlow's history variable.         *)
(***************************************************************************)
EXTENDS Game

VARIABLE age    \* history: the frames since Runtime.Scene last changed, counted up to 2

agedVars == <<vars, age>>

PassEnds == phase = "pass" /\ phase' # "pass"

Grow == age' = IF sys'.runtime # sys.runtime THEN 0
               ELSE IF PassEnds /\ age < 2 THEN age + 1 ELSE age

AgedInit == Init /\ age = 0
AgedNext == Next /\ Grow
AgedSpec == AgedInit /\ [][AgedNext]_agedVars

AgedFairSpec == AgedSpec /\ WF_vars(Advance)

-----------------------------------------------------------------------------
\* What of a frame SceneFlow sees: the pass, what it has to visit and its length.
PassTodo == IF phase = "pass" THEN todo ELSE {}
PassStep == IF phase = "pass" THEN step ELSE 0

Scene == INSTANCE SceneFlow WITH todo <- PassTodo, step <- PassStep

\* Until a dangling pointer is used, whatever planets, droppers and inputs do, and
\* however updates and the pass interleave with the triggers they fire, is at the scenes
\* and banners a step of SceneFlow or none: what holds there of every order of triggers
\* holds in the game.
FollowsSceneFlow == Scene!Init /\ [][strayed' \/ Scene!Next]_Scene!vars

\* So the player is shown title, game, Game Over and the title again.
FollowsGameFlow == Scene!Flow!Init /\ [][strayed' \/ Scene!Flow!Next]_Scene!Flow!vars

\* And one scene is live, at most four exist, in the game as in SceneFlow.
ScenesInOrder == ~strayed => Scene!OneScene /\ Scene!FewScenes
=============================================================================
