# Planet Game: specifications and proofs

The repository is a small game written in C++ on the orx engine: planets fall
into an arena, two equal planets that touch merge into the next one of a chain,
and the game is over when a planet rests too long against the top of the arena.
The program is in `src/src`, its scenes, triggers and objects are in
`src/data/config/planet.ini`, and it is built on two headers of the engine's
ecosystem that are part of the repository: Scroll (`src/include/Scroll`, objects
bound to classes, the game loop) and orxBundle (`src/include/orxBundle.h`,
resource bundles). Behaviour is spread over C++ handlers and command strings in
the configuration, so both count as code here. The engine itself is not part of
the repository; what it does is modelled from how the code uses it, and marked
external in `PROJECT.json`.

## Inventory

| Part | Code | State | Operations | Correct when |
|---|---|---|---|---|
| Planet | `Object.cpp` 51-156, `planet.ini` 355-426 | config name (place in the chain), life time, `touchingArenaTop` | OnCollide, OnSeparate, Update, the GameOver trigger | no planet merges twice, the chain conserves what was dropped, the timer measures the present contact, only a real overflow ends the game |
| Dropper | `Object.cpp` 158-267, `planet.ini` 284-348 | position, `first`, `latest`, `dtSinceDrop` | Update (UpdatePosition, DropPlanet, CreatePlanet), the GameOver input and trigger | stays in its area, drops far enough apart, always gets a planet, never uses a deleted one |
| Score | `Object.cpp` 133-140, `planet.ini` 455-474 | `Runtime.Score` | reset with the scene, increased by merges | equals what the merges are worth |
| Scenes | `planet.ini` 38-82, 173-182, 212-218 | scene and banner objects, `Runtime.Scene` | triggers GameScene, TitleScene, GameOver; OnCreate, OnDelete | one scene at a time, a game ends by its own banner, nothing outlives its scene |
| Title menu | `planet.ini` 44-60, 106-168 | `Runtime.ActiveMenu`, the pointer object | Next, Previous, Activate, Active, Inactive | one entry is active and has the one pointer |
| Application class | `planet.cpp`, `orxExtensions.h` | none | Init, Update (Quit), Run, Exit, BindObjects, Bootstrap | Init after binding, Quit closes |
| Scroll registry | `ScrollBase.h` 565-717, 1523-1611, 2062-2137, 2402-2849 | binders, the two object lists, `mzCurrentCreateObject`, `mzCurrentDeleteObject` | CreateObject, DeleteObject, create and delete events, GetNextObject in its kinds | each bound object has exactly one ScrollObject, created and deleted once; a class's objects can be walked in both directions |
| Scroll loop and events | `Scroll.h`, `ScrollBase.h` 1337-1478, 1633-1892, 2141-2366 | `mbIsRunning`, `mbIsPaused`, `mbObjectListLocked`, the calls in progress | BaseInit, BaseUpdate, StartGame, StopGame, PauseGame, events, BaseExit | nothing is deleted under a call that stands at it, every object is started once, nothing stays paused, what is to be deleted is |
| Scroll maps, layers, camera | `ScrollBase.h` 799-1335, 1894-1961 | map objects, config sections, map files, `mu32NextObjectID`, layers | LoadMap, SaveMap, ResetMap, SetMapName, SetLayerNumber, GetLayer, GetLayerDepth | a saved map comes back as it was, also in a later run; new names are new; layers are apart |
| ScrollObject | `ScrollObject.h` | flags, names, orx object | wrappers around the engine, the callbacks | |
| Bundle writer | `orxBundle.h` 415-925 | rules, resource references, output | Process | what is written can be read back, by name, whatever failed |
| Bundle reader | `orxBundle.h` 1020-1550 | per-thread handles, tables of contents, cursors, decompressed buffers | Locate, Open, Read, Seek, Tell, GetSize, Close | a read returns the bytes of the resource that was opened |
| Bundle lifecycle | `orxBundle.h` 255-395, 925-1000, 1555-1700 | tables, `bInit`, `bProcess`, output | Init, Exit, the `--bundle` parameter, event handler | every handle is in one place and closed once, none is open after Exit |
| LZ4, build files, templates, assets | `include/lz4`, `build`, `data` | | | vendored, descriptions or data: not modelled |

How they interact: the physics engine's contacts come through Scroll's event
handler to `Planet::OnCollide` of both objects; Scroll's `BaseUpdate` walks the
enabled objects once a frame, fires their `OnInput` triggers and calls their
`Update`; `Planet::Update`, the player's input and deletions fire triggers at
whatever scene `Runtime.Scene` names at that moment; the engine's own pass then
counts life times down and deletes objects, which fires `OnDelete`. "Delete" in
the configuration, like `SetLifeTime(0)` in the code, only marks an object: it
keeps its body, its children and its triggers for the rest of the frame. The
hard behaviour comes from there, from contacts in any order, and from triggers
that several objects fire in one frame at a scene that has just been replaced.

Scroll runs in one thread, but its calls nest: a creation calls `OnCreate`, which
may create or delete other objects, the engine tells of each by an event that Scroll
handles in the middle of that call, and a walk over the objects calls them while they
create and delete. Two marks (`mzCurrentCreateObject`, `mzCurrentDeleteObject`) and
one lock (`mbObjectListLocked`) keep these nested calls apart. orxBundle is called by
the engine on several threads at once.

## Modules

| Module | Models |
|---|---|
| `GameConfig` | the chain of planets, what the dropper offers, frame lengths |
| `Planet` | the handlers of `game::Planet` as operators on the planets |
| `Arena` | a game's planets, score and timers with contacts, updates and deletions in any order |
| `ArenaProofs` | theorems about `Arena` |
| `Dropper` | the handlers of `game::Dropper` as operators on one dropper |
| `Dropping` | a dropper driven by any frames and inputs |
| `Scenes` | the triggers of scenes and banners as operators on one record |
| `SceneFlow` | scenes and banners frame by frame, with the deletion pass object by object |
| `GameFlow` | abstract: title, game, banner, title, as the player sees it |
| `SceneFlowProofs` | theorems about `SceneFlow` |
| `Game` | planets, droppers and scenes composed, each frame in its three phases |
| `GameScenes` | `Game` shown to implement `SceneFlow`: the mapping and SceneFlow's history variable |
| `GameProofs` | theorems about `Game`, `GameScenes` and `Dropping` |
| `ScrollRegistry` | binders and the linked lists of objects, as operators on one record |
| `ScrollLoop` | creations, deletions, walks, callbacks and the main loop, with the stack of calls in progress |
| `ScrollLoopProofs` | theorems about `ScrollLoop` |
| `ScrollMap` | map objects, their config sections, map files, layers and the camera over several runs of the program |
| `ScrollMapProofs` | theorems about `ScrollMap` |
| `ResourceReader` | abstract: what a resource type promises, handles that do not disturb each other |
| `BundleReader` | Locate, Open, Read, Seek and Close of a bundle's resources on several threads |
| `BundleReaderProofs` | theorems about `BundleReader` |
| `BundleWriter` | how `orxBundle_Process` chooses resources and lays out a bundle |
| `BundleWriterProofs` | theorems about `BundleWriter` |
| `BundleTables` | the bundle type from Init to Exit: tables of contents, tables of handles per thread, `--bundle`, the output |
| `BundleTablesProofs` | theorems about `BundleTables` |
| `MCArena`, `MCDropping`, `MCSceneFlow`, `MCGame`, `MCBundleReader`, `MCBundleWriter`, `MCScroll` | values for TLC |

How state and actions correspond to the code:

- *Planets.* `planets[p]` holds the config name (`kind`, position in the chain
  Planet1..Planet9), the life time and the timer of object `p`. Life times are
  `Forever` while never set (the engine returns a negative number for it), and 0
  means "pending deletion", the value the guard of `OnPlanetCollide` tests. A
  contact event reaches the sender and then the recipient in one event call
  (`ScrollBase.h` 2143-2190), so `OnContact` is one action that runs both handlers.
- *Score.* `Arena.score` is `Runtime.Score`; `MergeOwnScore` and the other
  operators commented "Mutant" are plausible mistakes that the properties are
  known to notice.
- *Dropper.* `since` is `dtSinceDrop`, `latest` is what `latest` points to: its
  kind in `Dropper`, and in `Game` also the identity of the object, `held`.
- *Scenes.* An identity stands for an object's GUID. `doomed` are the scenes with
  life time 0, `runtime` is `Runtime.Scene`, and a banner has an owner and the
  life time left. `FireGameScene` does nothing at a game scene and `FireTitleScene`
  nothing at a title scene, because they do not have the trigger.
- *Frames.* In `Game` a frame is `physics` (contacts), `update` (Scroll's
  `BaseUpdate` over a set of objects `todo`, in any order) and `pass` (life times).
  The engine's list order is not fixed by the code, so any order is allowed, as is
  the update of an object created during the walk in the same frame or the next.
- *Bundle reader.* `at[t]` is where the handle of the bundle file of thread `t`
  stands: at a header entry, which is where Open leaves it, or elsewhere. A buffer is
  named by the entry whose bytes it holds, or is `Failed` or `Garbage`. `got` is what
  the last call, if it was a Read, copied. Locate takes several steps, because
  `sbLocating` and the buffer of its result belong to all threads; the other calls
  touch only what belongs to one thread and are one step each. The text of a location
  is the entry it names, and `answer` what the caller copied from it.
- *Bundle writer.* The bank of references is `kept`, those bundled, followed by
  `queue`, those not bundled yet. A block is what was written for one resource, in
  a file its place, in code the number of its array; `entries` is the header or the table.
  Each turn of a loop of `orxBundle_Process` is an action.
- *Scroll's lists.* A linked list is the sequence of its objects. `reg.list` is
  `mstObjectList`, where a class's objects stand together from `first[b]` to `last[b]`
  (`mpoFirstObject` and `mpoLastObject` of binder `b`); `reg.chrono` is
  `mstObjectChronoList`. An object is its number in order of creation, and its
  scroll object is there as long as the object is in `reg.chrono`.
- *Scroll's calls.* `stack` holds the calls in progress, the innermost first. A frame
  says where a function stands (`at`), the object it is about and what it keeps in
  local variables: the mark to restore, the lock to restore, whether the game asked for
  it or an event came. While a callback is on top the game's code may call Scroll
  (`MayCall`), up to `MaxCalls` times in one step of the main loop, or have the engine create an
  object past Scroll, as this game's callbacks do (`CallEngineCreate`, `Object.cpp` 126, 130,
  215, 260); every push and pop is an action, so that callbacks nest in creations, deletions
  and walks in every way.
- *Maps.* An object or section is named by the number in its name (`SO:%08u`).
  `sections` is the config in memory, `files` the map files, `known` the models that
  the config has in this run; `saved` remembers what a map showed when it was saved.
  Depths are counted in units in which GetLayerDepth is whole.
- *Bundle tables.* `content[h]` is the file that the engine's handle `h` is open on,
  `tables[t][f]` the table of thread `t`, `hResource` the output that `--bundle` opened.
  `orxBundle_Open` takes three steps (the text, its hash, the lookup), because its
  buffer is static and all threads share it; the other calls are one step each.
- *Undefined behaviour.* `StrayDrop` is `DropPlanet` with a `latest` whose object
  was deleted: the name read and the object whose life time is set may be those of
  any object that took its place, or none.

## Runs

| Run | Checks | Shows |
|---|---|---|
| `arena` | TypeOK, MassConserved, ScoreBalance, MergedOnce, TimerIsTouch, NoEarlyGameOver | until GameOver, the board weighs what was dropped and the score is what the merges are worth, for every order of contacts, updates and deletions; timers equal the time in contact |
| `dropping` | DropTypeOK, DropSpacing, CarriesAgain | the wait is exact for every sequence of frame lengths, and the dropper gets another planet |
| `scene_flow` | TypeOK, OneScene, FewScenes, StaleBannerWindow, ImplementsGameFlow | one live scene, at most four in all, a banner of an earlier game can end a game only in its first moments, and the scenes implement `GameFlow`, where a game that is over leads back to the title |
| `game` | TypeOK, HeldIntact, NoOrphans, TopBringsBanner, FollowsSceneFlow | the composition, with merges, drops and several games in a row: the carried planet is left alone, no planet outlives its scene, an arena that stays full brings up the banner, and what happens to the scenes is what `SceneFlow` has |
| `game_stray` (violation) | PlanetPresent | the fading dropper drops a planet that was deleted |
| `bundle_reader` | TypeOK, OwnContent, LocateFinds, ImplementsResourceReader | one thread that reads first, resources of the file and of the program: names are found, reads return the right bytes, handles are independent of each other |
| `bundle_writer` | TypeOK, EntriesPointAtData, HeaderFits, BundlesTheRightOnes | for all rules over three keys, anything loaded before and any failures, in a file and in code |
| `bundle_late` (violation) | OwnContent | opening a second resource before the first is read mixes them up |
| `bundle_tables` | TypeOK, HandlesOwned | from registration to exit, with two threads, `--bundle` and files that cannot be opened: every open handle is in one place and under its own file, and none stays open |
| `scroll` | TypeOK, TypedWalk, WalkSafe, BoundOnce, StartedOnce, PausedTogether, DeletesComplete | whatever callbacks create, have the engine create, adopt, delete, start, stop and pause, nested in each other: one scroll object for each object (without `TakesMark`), one start, walks in both directions over a class, nothing deleted under a call, every deletion done in the end |
| `scroll_nested` (violation) | WalkSafe | a walk nested in another gives up its lock |
| `map` | TypeOK, FreshNames, LayersApart, RoundTrip | maps saved and loaded, in one run of the program or several, with models that go and come back |

### Bounds

- `Arena`: three kinds of which two are dropped, three drops and five planets:
  three planets of one kind, or two and the planet they merge into, can touch in
  one frame, a double merge needs three, and every merge of the bounded drops fits
  in the identities. The last kind has no successor.
- `Dropping`: frames of one, two and three units do not divide the wait of four,
  and the area is not symmetric about the start.
- `SceneFlow`: six scenes, where the invariant FewScenes says four are used, so
  the bound on identities cuts nothing off; three banners, for a game with several
  and one left from the game before.
- `Game`: four planets hold a carried planet, the dropped one that replaces its
  placeholder, the next carried one and one more. Positions are one point: no property of `Game` is
  about them, and `Dropping` checks them.
- `BundleReader`: two open resources are what it takes for one to move the handle
  under the other. Three entries of different sizes, one with the name of another and
  one in the program, tell the outcomes of Read apart; cursors and requests go up to
  `MaxRead`, beyond the size of the smallest resource. One thread is used, as LocateFinds
  does not hold with more (see the observations); that reads are right with more is proved.
- `BundleWriter`: one name is in two groups, one resource is empty and one
  already in a bundle; `RuleKeys` has a name, its storage and the other group, so that rules
  of each kind overlap. `U32` is small enough that some files, and only some, end beyond it.
- `ScrollLoop`: three objects of two models in one run of the program, one with a
  child, and two calls of callbacks in each step of the main loop (`MaxCalls`): enough for a creation nested in
  another, a deletion in a walk of an object before, at or behind it, and a class
  with first, inner and last objects. The engine sends at most one event a frame, as
  later events find a state that a later frame starts from. Walks are started from the game's own
  callbacks (`NestedWalks = FALSE`), as `scroll_nested` shows what comes of others. No callback
  has the engine create an object of the very name that a CreateObject in progress waits for
  (`TakesMark = FALSE`). Within three objects that is no loss: it takes an object with a child
  whose callback has another such object created, four in all. With four objects the invariants
  hold as well (5,782,370 states, too many for a run that is repeated often); with four
  and `TakesMark = TRUE` TLC refutes BoundOnce, see the observations.
- `ScrollMap`: objects up to `MaxID`, an even and an odd number of layers
  (`MaxLayers`), one map, two models of which any may be missing in a later run.
- `BundleTables`: a bundle, a file that is none and one that cannot be opened, two
  threads; five handles, one more than the two files on two threads, for the output.
  Threads take turns in Open (`TakeTurns`), see the observations.
- `Game`: the times are short (`ExplodeTime`, `BannerLife`, `FadeTime`): only their order matters,
  the planets explode before the banner goes and the dropper has faded.
- `FreeBanners` bounds how many banners exist; a GameOver beyond it shows none.

### Fairness

The engine calls the game every frame, its pass visits every object, and Scroll
updates every object that is enabled and not pending deletion, so weak fairness
holds for the frame's own steps:
`Update` in `Dropping`, the pass and the beginning of a pass in `SceneFlow`, and
`Advance` in `Game`. Nothing is assumed about contacts or the player: an arena may
stay empty and Start may never be activated. `GameFlow` assumes fairness of
`Return` only, which `SceneFlow` provides. Scroll's main loop is one thread that never waits,
and callbacks return, so `ScrollLoop` assumes weak fairness of its whole next-state
relation; that the calls of one step end follows from `MaxCalls`.

## Findings

1. `game_stray`. `DropPlanet` says "Planet must be present for it to be dropped"
   and asserts `latest`. The GameOver trigger reaches every planet the scene
   owns, and the carried placeholder is one (`planet.ini` 404), so it is deleted
   0.1 s later, while the Dropper fades for five seconds, is still updated, still
   has `latest` and still answers the Drop input. The assertion holds, as the
   pointer is not NULL, but the object is gone.
2. `bundle_late`. All resources that a thread opens in one bundle share one
   handle. Open leaves it at the resource's header entry (`orxBundle.h` 1299) and
   the first Read continues from wherever it stands (1480): if the thread opened another
   resource in between, that one's bytes are returned. The comments promise a handle
   for the resource (1198) and its data (1446). It stays unseen as long
   as callers read what they open at once, which is the assumption `ReadFirst`.
3. `scroll_nested`. Every walk over the objects sets `mbObjectListLocked` and clears
   it at its end (`ScrollBase.h` 1359, 1403, 1458, 1876), whatever it was before. An
   object's `Update` that pauses the game therefore gives up the lock of the walk that
   calls it, and a `DeleteObject` after that deletes at once, even the object the walk
   stands at. The binder's DeleteObject does keep the outer lock ("Restores object list
   blocking", 2719).

Observations that no run is spent on:

- `OnPlanetCollide` says "Both objects go away!" (`Object.cpp` 113) and gives both a life time of 0. A
  GameOver fired later in the same frame sets the life time of all planets to 0.1 s, so
  these two come back for that time, with their bodies. That is why the arena's
  conservation laws hold only until GameOver.
- A resource that does not decompress gets final size 0 (`orxBundle.h` 1525) after a
  Seek may have moved the cursor, and the size to copy (1533) becomes negative.
- Locate finds nothing while another thread's Locate is under way, as `sbLocating`
  (1049) is meant for the nested call only. `LocateFinds` is checked for one thread.
- Open's location buffer is `static` (1219): with `TakeTurns = FALSE` another thread
  can change it between the hash and the lookup, and HandlesOwned fails, a handle of
  one file is kept under another's key.
- SaveMap writes camera and layer number into whatever section is selected (1128-1138),
  not into the map's; the model has them in the map's, where LoadMap leaves the selection.
- CREATE events are told apart by a name alone (`ScrollBase.h` 2075-2102). While CreateObject
  waits for the event of an object with a child, a callback of the child may have the engine create an
  object of the same name. The event of that one takes the mark
  and leaves it without a scroll object; the event of the object asked for then binds it, and
  CreateObject binds it again. With `MaxObjects = 4` and `TakesMark = TRUE` TLC finds this in ten states. The
  game does not come there: it calls CreateObject for Startup and by LoadMap only (`planet.cpp` 41,
  `ScrollBase.h` 981), and its engine creations are in contacts and updates.
- A planet made by a merge belongs to the scene that `Runtime.Scene` names, not to the scene of the two it
  was made of (`planet.ini` 404). Between the end of a banner and the deletion of its game that is the
  title's: a merge in that frame leaves a planet on the title screen until Start. NoOrphans
  holds, as that planet goes with its title scene.
- GetLayerDepth corrects the layer to at most N, where the last is N - 1 (1312).

## Proofs

The theorems hold for all values of the constants under the named assumptions of
the modules (`ConfigAssumption`, `PlanetAssumption`, `ArenaAssumption`,
`DropperAssumption`, `GameAssumption`, `ScenesAssumption`, `FlowAssumption`, `MapAssumption`,
`TablesAssumption`, `RegistryAssumption`, `LoopAssumption` and those of the bundle): finite or infinite
sets of frame lengths, any chain, any number of planets, scenes and banners.

| Module | Theorem | States |
|---|---|---|
| `ArenaProofs` | `TypeCorrect` | TypeOK |
| | `NoDoubleMerge` | MergedOnce |
| | `TimersMeasureContact` | TimerIsTouch |
| | `GameOverIsEarned` | NoEarlyGameOver |
| | `NoPlanetIsLost` | MassConserved |
| | `ScoreIsEarned` | ScoreBalance |
| `GameProofs` | `GameTyped` | TypeOK of `Game` |
| | `CarriedPlanetIsSafe` | HeldIntact |
| | `PlanetsHaveScenes` | NoOrphans |
| | `ScenesFollowSceneFlow` | FollowsSceneFlow |
| | `ScenesStayInOrder` | ScenesInOrder: OneScene and FewScenes in the whole game |
| | `GameFollowsTheFlow` | FollowsGameFlow: the whole game shows the flow of `GameFlow` |
| | `DropperTyped` | DropTypeOK |
| | `WaitsNoLonger` | WaitBounded |
| | `DropsAreSpaced` | DropSpacing |
| `SceneFlowProofs` | `TypeCorrect` | TypeOK |
| | `OneSceneAlways` | OneScene |
| | `AtMostFourScenes` | FewScenes |
| | `OnlyYoungGamesAreCancelled` | StaleBannerWindow |
| | `FollowsTheFlow` | ImplementsGameFlow without its fairness |
| `BundleReaderProofs` | `ReadsOwnContent` | OwnContent, if callers read first |
| | `TypeCorrect` | TypeOK, if callers read first |
| | `KeepsThePromise` | ImplementsResourceReader, if callers read first and what is bundled can be decompressed |
| | `OneThreadLocates` | LocateFinds, with one thread |
| `BundleWriterProofs` | `TypeCorrect` | TypeOK |
| | `OffsetsAreRight` | EntriesPointAtData |
| | `HeaderHasRoom` | HeaderFits |
| | `TheRightOnes` | BundlesTheRightOnes |
| `BundleTablesProofs` | `TypeCorrect` | TypeOK |
| | `HandlesAreOwned` | HandlesOwned, if threads take turns in Open |
| `ScrollMapProofs` | `MapTypeCorrect` | TypeOK |
| | `NamesAreFresh` | FreshNames |
| | `LayersAreApart` | LayersApart |
| | `MapsRoundTrip` | RoundTrip |
| `ScrollLoopProofs` | `NothingDeletedUnderACall` | WalkSafe, if no walk starts inside another |
| | `RegistryWhole` | the registry's lists hold the same living objects, a binder's in one segment; same condition |
| | `WalksTheClass` | TypedWalk; same condition |
| | `ScrollTypes` | TypeOK; same condition |
| | `PausedWithTheGame` | PausedTogether; same condition |
| | `EachStartedOnce` | StartedOnce; same condition |
| | `MarkedForTheCall` | BoundOnce; same condition, and if no callback has the engine create the very name that a CreateObject waits for |

- *Arena.* MergedOnce alone is not inductive: that a planet is not consumed again
  needs that every consumed planet has life time 0 or is gone while no GameOver
  was fired, and that a planet not born yet is nobody's parent. The invariant adds
  both, and one lemma on `OnPlanetCollide` shows that a merge preserves it; a contact
  is that lemma used twice. TimerIsTouch needs that a planet that is not live has
  neither timer nor touch.
  MassConserved and ScoreBalance compare the board with what was dropped: the invariant
  (`BalanceInv`) says so of the excess of the one over the other, and that until GameOver
  the planets with a life time left are whole and the unborn have none (`BoardInv`). To the board a step does one of three
  things: nothing, a drop, or a merge, which takes two planets of one kind and puts one of the next in their
  place (the section "What a step does to the board"); the weight doubles from kind to kind, and
  the worth of a kind is twice that of the one before and the points of the merge. The sums are
  folds over the set of planets, defined by a recursive function. That the function exists, and that a sum
  does not depend on the order, would be induction over finite sets, which the provers cannot
  instantiate; the proofs take a smallest counterexample among the subsets instead, which there
  is because the proper subsets of a finite set are well founded.
- *Dropping.* WaitBounded is inductive with the type; DropSpacing follows from an
  invariant that relates `since` to the time elapsed since the last drop.
- *Game.* Neither HeldIntact nor NoOrphans is inductive: a new planet goes to the scene
  that `Runtime.Scene` names, whoever makes it, and the GameOver trigger and the deletion of a scene
  reach the planets by their scene. The invariant `GameInv` adds that a carried planet belongs to
  its dropper's scene (`AllSound`), which holds because a dropper is in a game
  scene (`InGames`) and all scenes but that of `Runtime.Scene` are doomed (`OneLive`). So the
  trigger that gives a carried planet a life time makes its dropper fade in the same
  step, and a deleted scene is never that of a dropper in use. All but the types and `InGames` is claimed
  until a dangling `latest` was used (`strayed`), after which anything may be deleted.
  `ScenesFollowSceneFlow` maps the steps: a contact, a drop and an update that fires nothing to none, Start and
  GameOver to SceneFlow's between two passes, a visit of the pass to the same visit, and the end of
  the frame to the end of the pass. It needs that a frame has a length from its updates on, and that what
  waits for an input in the updates stays a title scene while others fire triggers (`FrameInv`). SceneFlow's own
  invariant then holds in the game as long as nothing strayed (`FlowUnstrayed`), and with it what was
  proved of SceneFlow: `ScenesStayInOrder` and `GameFollowsTheFlow` cite the lemmas of
  `SceneFlowProofs` through an instance. The history `age` is the only variable
  that `GameScenes` adds to `Game`, and no step depends on it.
- *SceneFlow.* The invariant `WellFormed` says of one record what OneScene says of
  the state, and that only existing scenes are doomed; a lemma for each trigger
  and deletion shows that it is preserved, and the actions only choose among them.
  FewScenes counts the doomed ones (`FewDoomed`): a frame dooms at most a title scene
  by Start, the pass at most one more by a banner that runs out, since the new title scene has no
  trigger for the next one, and what was doomed before a pass is in its `todo`; three doomed ones and
  the live one make four. StaleBannerWindow needs that a banner's scene exists or the
  banner has no time left, and that the pass that finds a game at age 1 meets every
  banner of another scene (`StaleBanners`). `FollowsTheFlow` maps the steps: Start to Start,
  as a new scene has an identity that no banner names; a GameOver to End when it is the
  game's first and to nothing later; a banner that runs out to Return, to Cancel if it is another game's, or
  to nothing in a title scene; and the end of a pass to Settle or nothing.
- *BundleReader.* OwnContent follows from what the buffers hold, and that from
  where the handles stand: a thread has at most one unread resource of the file, its handle
  stands at that resource's entry, and a thread in the middle of Locate has none
  (`HandleStands`). `ReadFirst` is a hypothesis of the theorems, and `bundle_late`
  shows that it is needed. That a kept name has a first entry is proved from the
  library's theorem that the natural numbers are well founded.
  The refinement of `ResourceReader` adds that an open resource has its final size, a cursor
  within it and its own bytes or none yet (`Whole`); a Read then copies what the promise
  copies. It needs that everything decompresses: one that failed gets the size 0
  behind a cursor that may have moved (see the observations). For one thread, LocateFinds follows
  the flag and the buffer through the steps of the call (`OneLocate`).
- *BundleWriter.* The sums behind the offsets are never written out: the invariant says
  that blocks follow each other (`Placed`) and that the sum kept while the header
  is written reaches the next block (`Progress`), so that an entry's offset is its block's.
  BundlesTheRightOnes follows resources through the phases (`Gathered`): what config names is
  cached, what was cached is left to look at, and what the rules include waits,
  is bundled or failed, and only once. `RulesDecide` shows that the nested tests for a name, its
  group and its storage decide as the lists are documented to.
- *BundleTables.* HandlesOwned alone says nothing of a thread in the middle of Open.
  The invariant adds that only one is (`Turns`), that the key it has taken is that of the
  text it will look up, and what each phase of the program has closed (`Phases`).
- *ScrollMap.* RoundTrip follows from an invariant that compares every file with
  what was saved in it (`AllKept`): its sections are those saved, and its number of objects is
  that of its sections. In memory objects and sections go by the same names (`Matched`), so
  that a LoadMap, which deletes its objects first, finds the file's sections only, and
  its search for them, counted up to the file's number, finds them all (`AllScanned`).
  FreshNames is part of the invariant, as new names must not take over a section.
  LayersApart is arithmetic: the depth of layer l is (2l + 1) half-layers, and
  the division rounds it back to l.
- *ScrollLoop.* WalkSafe is not inductive: whether a deletion may happen depends on the
  lock and on the mark, and these on the calls further out. The invariant says of each
  call what it stands at (`One`), of two calls what the inner one means to the
  outer (`Apart`): a walk has only walks and calls of the game outside it, none of them begun
  with an object to go at once, and no two calls stand at one object when either
  creates or deletes it. A walk that has begun has the lock, and the mark is what the deletions
  in progress have set (`Marks`). So the engine, which runs outside every call, never finds
  a mark, and a registered object goes only through its OnDelete. Of the registry the
  invariant says that both lists hold the same objects and that each binder's
  form one segment (`Segment`), which Link needs as it inserts behind the binder's last,
  in the order they were made (`SameOrder`), which makes TypedWalk a fact about segments.
  PausedTogether and StartedOnce follow the game's own walks along the list: only one
  is in progress, but for a stop that waits for its unpausing (`Nesting`). An object that such a
  walk has passed is unpaused, or started or stopped once, the others as before (`PauseInv`,
  `StartInv`), and creations and deletions inside the walk keep who stands before whom (`Before`).
  BoundOnce follows the mark: that of a creation asked for whose event has not come is
  the current one, or was put aside by the next creation asked for. Creations that the engine
  makes of itself in between, of a child or for a callback, do not take it: one that waits for
  its event has another name than the call further out waits for (`Marked`). For a child that uses
  that children have no children (the model's bound on families), for a callback it
  is the hypothesis `~TakesMark`, which the observations show to be needed.
  `~NestedWalks` is a hypothesis, and `scroll_nested` shows that it is needed.

Only model-checked: liveness, which is out of the prover's reach: CarriesAgain, the fairness in
ImplementsGameFlow, TopBringsBanner and DeletesComplete. The
theorems about `ScrollLoop` are for `~NestedWalks`, that about BoundOnce for `~TakesMark` too, those about reads for `ReadFirst` and those about
handles for `TakeTurns`, as the runs are; the findings and observations show what happens without.

## Not modelled

Left out within the parts above: positions of planets and what the
physics engine makes of them, graphics, sounds, effects and text. The explosion and
pop-sound objects are counted nowhere. Of the bundle reader: allocations that fail, and the
names' hashes, which are taken to differ. Of the writer: an output that cannot be opened,
writes to it that fail or fall short (`orxBundle.h` 771 is taken to succeed)
and sizes beyond what LZ4 takes; that a rule for a storage comes before one for a group is proved
(`RulesDecide`), and none of the run's keys tells the two apart. Of the bundle's life: a registration
that fails, and calls that use a handle after it was closed. Of Scroll: editor mode, input sets and `OnInput`
triggers, per-object clocks, objects created with neither `FlagSave` nor `FlagRunTime`, a failing Init, picking,
positions, scale, rotation, tiling and differential scrolling of map objects, and the
text of config files.

Parts without a model of their own:

- The title menu's moves between Start and Exit: what `Inactive` finds depends on the
  engine's order of an object's children, which nothing in the repository shows.
- LZ4: a vendored library, which the bundle uses as a pair of functions.
- The other methods of ScrollObject hand a call to the engine and keep no state.
- Build files, configuration templates and assets have no run-time behaviour.

What the models of Scroll assume of the game and the engine: callers do not delete
an object that a creation, a deletion or a contact stands at while the list is
unlocked (`Busy`), games are started, stopped and paused from the game's own callbacks, `OnPauseGame`
of a pausable object agrees, children have no children of their own, no callback has the
engine create an object of the very name that a CreateObject in progress waits for (an object bound twice is
not followed further), the engine keeps
objects in order of creation and creates children before it sends the event. Those of
the bundle: nothing reads from bundles while `--bundle` or Exit runs.
