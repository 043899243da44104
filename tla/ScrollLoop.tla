----------------------------- MODULE ScrollLoop -----------------------------
(***************************************************************************)
(* The game loop of Scroll: creations, deletions, walks over the objects   *)
(* and the callbacks they make (src/include/Scroll/ScrollBase.h).          *)
(*                                                                         *)
(* Scroll runs in one thread, but its calls nest: a creation calls         *)
(* OnCreate, which may create or delete other objects, and so on. The      *)
(* state keeps that call stack, the innermost call first. A frame of the   *)
(* stack is where a function of Scroll stands: in a callback (the game's   *)
(* code, which may call Scroll before it returns), in the engine creating  *)
(* an object, or at an object of a walk.                                   *)
(***************************************************************************)
EXTENDS ScrollRegistry, FiniteSets

CONSTANTS
  NoModel,
  Child,       \* Models -> the model of the child of its ChildList, or NoModel
  Pausable,    \* the models with FlagPausable (whose OnPauseGame returns true)
  MaxCalls,    \* bound: calls that callbacks make in one step of the main loop
  NestedWalks, \* whether a callback inside a walk may start, stop or pause the game
  TakesMark    \* whether it may have the engine create the very name CreateObject waits for

ASSUME LoopAssumption ==
  /\ NoModel \notin Models
  /\ Child \in [Models -> Models \cup {NoModel}]
  /\ \A m \in Models : Child[m] # NoModel => Child[Child[m]] = NoModel
  /\ Pausable \subseteq Models
  /\ MaxCalls \in Nat /\ NestedWalks \in BOOLEAN /\ TakesMark \in BOOLEAN

VARIABLES
  phase,       \* where the main loop is
  stack,       \* the frames of the calls in progress
  calls,       \* calls left to the callbacks in this step of the main loop
  model,       \* the config section of each orx object
  life,        \* its life: not created, "forever", "zero" (to be deleted by the engine), deleted
  owner,       \* the object it is a child of
  frozen,      \* the objects paused in the engine
  reg,         \* the registry; its objects are those with user data
  createMark,  \* mzCurrentCreateObject
  deleteMark,  \* mzCurrentDeleteObject
  locked,      \* mbObjectListLocked
  running,     \* mbIsRunning
  paused,      \* mbIsPaused
  starts,      \* history: calls of OnStartGame less calls of OnStopGame
  late         \* history: created inside a walk of StartGame or StopGame, until a stop ends

engineVars == <<model, life, owner, frozen>>
markVars   == <<createMark, deleteMark>>
stateVars  == <<locked, running, paused>>
startVars  == <<starts, late>>
vars       == <<phase, stack, calls, engineVars, reg, markVars, stateVars, startVars>>

-----------------------------------------------------------------------------
Phase     == {"init", "update", "engine", "pass", "exit", "clear", "done"}
Life      == {"none", "forever", "zero", "deleted"}
Walks     == {"StartGame", "StopGame", "PauseGame", "BaseUpdate"}
GameCalls == {"Init", "Run", "Update", "CameraUpdate", "OnGame", "Exit"}
Creating  == {"children", "event", "OnCreate", "OnStartGame"}
Deleting  == {"OnObjectDelete", "OnDelete"}
Handling  == {"OnObjectCreate", "OnEvent"}
Callbacks == GameCalls \cup {"OnCreate", "OnStartGame"} \cup Deleting \cup Handling

Frame ==
  [ at    : Walks \cup GameCalls \cup Creating \cup Deleting \cup Handling \cup {"engine"},
    obj   : Object \cup {NoObject},        \* the object it is about, or a walk's place
    asked : BOOLEAN,                       \* a call of the game, not an event; PauseGame's argument
    mark  : Models \cup {NoModel},         \* the mark to restore
    lock  : BOOLEAN ]                      \* the lock to restore; a walk that has begun

Calling(at, o) == [at |-> at, obj |-> o, asked |-> FALSE, mark |-> NoModel, lock |-> FALSE]
Walk(at, on)   == [Calling(at, NoObject) EXCEPT !.asked = on]

Top      == Head(stack)
Below    == Tail(stack)
Push(f)  == <<f>> \o stack
Swap(f)  == <<f>> \o Below
Frames   == ToSet(stack)
At(at)   == stack # <<>> /\ Top.at = at

Created   == {o \in Object : life[o] # "none"}
Live      == {o \in Object : life[o] \in {"forever", "zero"}}
NewObject == Cardinality(Created) + 1

\* The scroll object of an engine object is its user data.
Bound(o) == o \in Registered(reg)

\* GetNextObject<O> and GetPreviousObject<O>, b the binder of class O.
NextOfClass(b, o)     == BinderNext(reg, b, o)
PreviousOfClass(b, o) == BinderPrevious(reg, b, o)

\* Begun: the walk has taken the lock.
Walking(kinds) == \E f \in Frames : f.at \in kinds /\ f.lock

TypeOK ==
  /\ phase \in Phase
  /\ stack \in Seq(Frame)
  /\ calls \in 0..MaxCalls
  /\ model \in [Object -> Models \cup {NoModel}]
  /\ life \in [Object -> Life]
  /\ owner \in [Object -> Object \cup {NoObject}]
  /\ frozen \subseteq Live
  /\ reg \in [ list : Seq(Object), chrono : Seq(Object),
               first : [Binders -> Object \cup {NoObject}], last : [Binders -> Object \cup {NoObject}] ]
  /\ createMark \in Models \cup {NoModel}
  /\ deleteMark \in Models \cup {NoModel}
  /\ locked \in BOOLEAN /\ running \in BOOLEAN /\ paused \in BOOLEAN
  /\ starts \in [Object -> 0..1]
  /\ late \subseteq Created

\* BaseInit up to its call of Init.
Init ==
  /\ phase = "init" /\ stack = <<Calling("Init", NoObject)>> /\ calls = MaxCalls
  /\ model = [o \in Object |-> NoModel] /\ life = [o \in Object |-> "none"]
  /\ owner = [o \in Object |-> NoObject] /\ frozen = {}
  /\ reg = EmptyRegistry
  /\ createMark = NoModel /\ deleteMark = NoModel
  /\ locked = FALSE /\ running = FALSE /\ paused = FALSE
  /\ starts = [o \in Object |-> 0] /\ late = {}

-----------------------------------------------------------------------------
(* Creation *)

PendingChildren == Cardinality({i \in DOMAIN stack : stack[i].at = "children"})
Family(m)       == IF Child[m] = NoModel THEN 1 ELSE 2
Room(m)         == Cardinality(Created) + PendingChildren + Family(m) <= MaxObjects

Creation(m, asked, mark) ==
  [ at |-> IF Child[m] = NoModel THEN "event" ELSE "children",
    obj |-> NewObject, asked |-> asked, mark |-> mark, lock |-> FALSE ]

\* An object that a creation, a deletion or a contact stands at. The callers keep
\* from deleting one of these; with the list locked there is no harm in it.
Busy == {f.obj : f \in {g \in Frames : g.at \in Creating \cup Deleting \cup Handling}}

\* orxObject_CreateFromConfig, up to the creation of the children.
EngineObject(m, parent) ==
  /\ NewObject \in Object   \* Room keeps it so
  /\ model' = [model EXCEPT ![NewObject] = m]
  /\ life'  = [life EXCEPT ![NewObject] = "forever"]
  /\ owner' = [owner EXCEPT ![NewObject] = parent]
  /\ late'  = IF Walking({"StartGame", "StopGame"}) THEN late \cup {NewObject} ELSE late
  /\ UNCHANGED frozen

\* A callback is running: of the game, of an object, or of the object a walk is at.
MayCall ==
  /\ calls > 0 /\ stack # <<>>
  /\ Top.at \in Callbacks \/ (Top.at \in Walks /\ Top.obj # NoObject)
Spend   == calls' = calls - 1

\* A callback calls CreateObject(name).
CallCreate(m) ==
  /\ MayCall /\ Spend /\ Room(m)
  /\ EngineObject(m, NoObject)
  /\ stack' = Push(Creation(m, TRUE, createMark))
  /\ createMark' = m
  /\ UNCHANGED <<phase, reg, deleteMark, stateVars, starts>>

\* A callback calls orxObject_CreateFromConfig, past Scroll.
CallEngineCreate(m) ==
  /\ MayCall /\ Spend /\ Room(m) /\ (TakesMark \/ m # createMark)
  /\ EngineObject(m, NoObject)
  /\ stack' = Push(Creation(m, FALSE, NoModel))
  /\ UNCHANGED <<phase, reg, markVars, stateVars, starts>>

\* A callback calls CreateObject with an engine object that has no scroll object, and
\* that the engine is done creating.
CallAdopt(o) ==
  /\ MayCall /\ Spend /\ o \in Live /\ ~Bound(o) /\ o \notin Busy
  /\ reg' = Link(reg, GetBinder(model[o], TRUE), o)
  /\ stack' = Push([Calling("OnCreate", o) EXCEPT !.asked = TRUE, !.mark = createMark])
  /\ late' = IF Walking({"StartGame", "StopGame"}) THEN late \cup {o} ELSE late
  /\ UNCHANGED <<phase, engineVars, markVars, stateVars, starts>>

CreateChild ==
  /\ At("children")
  /\ LET m == Child[model[Top.obj]]
     IN  /\ EngineObject(m, Top.obj)
         /\ stack' = <<Creation(m, FALSE, NoModel), [Top EXCEPT !.at = "event"]>> \o Below
  /\ UNCHANGED <<phase, calls, reg, markVars, stateVars, starts>>

\* The creation event is no longer listened to once the game has exited.
Heard == phase # "clear"

\* The binder that makes the scroll object: of the call, or of the creation event,
\* which leaves a creation the game asked for, by name, to the call.
MakerOf(o) ==
  LET m == model[o]
  IN  CASE Top.asked                     -> GetBinder(m, TRUE)
        [] ~Top.asked /\ createMark = m  -> NoBinder
        [] OTHER -> IF Heard THEN GetBinder(m, createMark # NoModel) ELSE NoBinder

MarkAfterEvent(o) == IF Heard /\ createMark = model[o] THEN NoModel ELSE createMark

\* The CREATE event, and the scroll object with it, or in the call after it.
SendCreate ==
  /\ At("event")
  /\ LET b == MakerOf(Top.obj)
     IN  IF b = NoBinder
         THEN stack' = Below /\ UNCHANGED reg
         ELSE /\ reg' = Link(reg, b, Top.obj)
              /\ stack' = Swap([Top EXCEPT !.at = "OnCreate"])
  /\ createMark' = MarkAfterEvent(Top.obj)
  /\ UNCHANGED <<phase, calls, engineVars, deleteMark, stateVars, startVars>>

\* Calls of OnStartGame and OnStopGame, for all but the late objects.
Counted(o, by) == IF o \in late THEN starts ELSE [starts EXCEPT ![o] = @ + by]

\* Mutant.
CreatedAnyhow ==
  /\ At("OnCreate")
  /\ stack' = Swap([Top EXCEPT !.at = "OnStartGame"])
  /\ starts' = Counted(Top.obj, 1)
  /\ UNCHANGED <<phase, calls, engineVars, reg, markVars, stateVars, late>>

CreatedRunning ==
  /\ At("OnCreate") /\ running
  /\ stack' = Swap([Top EXCEPT !.at = "OnStartGame"])
  /\ starts' = Counted(Top.obj, 1)
  /\ UNCHANGED <<phase, calls, engineVars, reg, markVars, stateVars, late>>

\* Mutant.
MarkToRestoreNone == NoModel

MarkToRestore == Top.mark

\* The scroll object is there: the call restores the mark and calls OnObjectCreate.
EndCreate ==
  /\ At("OnStartGame") \/ (At("OnCreate") /\ ~running)
  /\ IF Top.asked
     THEN /\ createMark' = MarkToRestore
          /\ stack' = Swap(Calling("OnObjectCreate", Top.obj))
     ELSE /\ stack' = Below
          /\ UNCHANGED createMark
  /\ UNCHANGED <<phase, calls, engineVars, reg, deleteMark, stateVars, startVars>>

-----------------------------------------------------------------------------
(* Deletion *)

\* The engine deletes an object: what it owns is left without life.
Kill(o) ==
  /\ life'   = [p \in Object |-> IF p = o THEN "deleted"
                                 ELSE IF owner[p] = o /\ life[p] = "forever" THEN "zero" ELSE life[p]]
  /\ owner'  = [p \in Object |-> IF p = o \/ owner[p] = o THEN NoObject ELSE owner[p]]
  /\ model'  = [model EXCEPT ![o] = NoModel]
  /\ frozen' = frozen \ {o}
  /\ starts' = [starts EXCEPT ![o] = 0]
  /\ late'   = late \ {o}

Deletion(o, asked, mark) ==
  [Calling("OnObjectDelete", o) EXCEPT !.asked = asked, !.mark = mark]

\* Mutant.
MustWaitNever == FALSE

MustWait == locked

\* ScrollBase::DeleteObject: under the lock the deletion is left to the engine.
DeleteObject(o) ==
  /\ IF MustWait
     THEN /\ life' = [life EXCEPT ![o] = "zero"]
          /\ UNCHANGED <<stack, deleteMark>>
     ELSE /\ stack' = Push(Deletion(o, TRUE, deleteMark))
          /\ deleteMark' = model[o]
          /\ UNCHANGED life
  /\ UNCHANGED <<model, owner, frozen, reg, createMark, stateVars, startVars>>

\* A callback calls DeleteObject.
CallDelete(o) ==
  /\ MayCall /\ Spend /\ Bound(o) /\ (locked \/ o \notin Busy)
  /\ DeleteObject(o)
  /\ UNCHANGED phase

\* A callback calls SetLifeTime(0): the engine will delete the object.
CallSetLifeTime(o) ==
  /\ MayCall /\ Spend /\ Bound(o) /\ life[o] = "forever"
  /\ life' = [life EXCEPT ![o] = "zero"]
  /\ UNCHANGED <<phase, stack, model, owner, frozen, reg, markVars, stateVars, startVars>>

EndOnObjectDelete ==
  /\ At("OnObjectDelete")
  /\ stack' = Swap([Top EXCEPT !.at = "OnDelete", !.lock = locked])
  /\ locked' = TRUE
  /\ UNCHANGED <<phase, calls, engineVars, reg, markVars, running, paused, startVars>>

\* Mutant.
LockToRestoreNone == TRUE

LockToRestore == Top.lock

\* After OnDelete the registry forgets the object, then the engine deletes it.
EndDelete ==
  /\ At("OnDelete")
  /\ locked' = LockToRestore
  /\ reg' = Unlink(reg, GetBinder(model[Top.obj], TRUE), Top.obj)
  /\ Kill(Top.obj)
  /\ deleteMark' = IF Top.asked THEN Top.mark ELSE deleteMark
  /\ stack' = Below
  /\ UNCHANGED <<phase, calls, createMark, running, paused>>

-----------------------------------------------------------------------------
(* Walks over the objects *)

Lowest(S) == IF S = {} THEN NoObject ELSE Min(S)

\* orxObject_GetNextEnabled, and what BaseUpdate passes over.
NextToUpdate(o) ==
  Lowest({p \in Live \ frozen : p > o /\ Bound(p) /\ life[p] # "zero"})

NextToPause(o) ==
  LET from  == IF o = NoObject THEN 0 ELSE Place(reg.list, o)
      later == {i \in DOMAIN reg.list : i > from /\ model[reg.list[i]] \in Pausable}
  IN  IF later = {} THEN NoObject ELSE reg.list[Min(later)]

NextOf(f) ==
  CASE f.at = "BaseUpdate" -> NextToUpdate(f.obj)
    [] f.at = "PauseGame"  -> NextToPause(f.obj)
    [] OTHER               -> GetNextObject(reg.list, f.obj)

\* PauseGame pauses an object in the engine when its OnPauseGame returns.
FrozenAfter(f) ==
  IF f.at = "PauseGame" /\ f.obj # NoObject
  THEN IF f.asked THEN frozen \cup {f.obj} ELSE frozen \ {f.obj}
  ELSE frozen

WalkBegin ==
  /\ stack # <<>> /\ Top.at \in Walks /\ ~Top.lock
  /\ locked' = TRUE
  /\ stack' = Swap([Top EXCEPT !.lock = TRUE])
  /\ UNCHANGED <<phase, calls, engineVars, reg, markVars, running, paused, startVars>>

\* The walk reaches its next object and calls it: OnStartGame, OnStopGame, Update, or
\* OnPauseGame of a pausable one.
WalkNext ==
  /\ stack # <<>> /\ Top.at \in Walks /\ Top.lock
  /\ LET o == NextOf(Top)
     IN  /\ o # NoObject
         /\ stack' = Swap([Top EXCEPT !.obj = o])
         /\ starts' = CASE Top.at = "StartGame" -> Counted(o, 1)
                        [] Top.at = "StopGame"  -> Counted(o, -1)
                        [] OTHER -> starts
  /\ frozen' = FrozenAfter(Top)
  /\ UNCHANGED <<phase, calls, model, life, owner, reg, markVars, stateVars, late>>

\* The end of a walk, and the game's own callback after it.
WalkEnd ==
  /\ stack # <<>> /\ Top.at \in Walks /\ Top.lock
  /\ NextOf(Top) = NoObject
  /\ locked' = FALSE
  /\ running' = CASE Top.at = "StartGame" -> TRUE [] Top.at = "StopGame" -> FALSE [] OTHER -> running
  /\ paused' = IF Top.at = "PauseGame" THEN Top.asked ELSE paused
  /\ frozen' = FrozenAfter(Top)
  /\ late' = IF Top.at = "StopGame" THEN {} ELSE late
  /\ stack' = Swap(Calling(IF Top.at = "BaseUpdate" THEN "Update" ELSE "OnGame", NoObject))
  /\ UNCHANGED <<phase, calls, model, life, owner, reg, markVars, starts>>

\* Where the game starts, stops and pauses: in its own callbacks of a frame.
MayWalk == MayCall /\ Spend /\ (NestedWalks \/ Top.at \in {"Run", "Update", "CameraUpdate"})

\* Mutant.
CallStartGameAgain ==
  /\ MayWalk
  /\ stack' = Push(Walk("StartGame", FALSE))
  /\ UNCHANGED <<phase, engineVars, reg, markVars, stateVars, startVars>>

CallStartGame ==
  /\ MayWalk /\ ~running
  /\ stack' = Push(Walk("StartGame", FALSE))
  /\ UNCHANGED <<phase, engineVars, reg, markVars, stateVars, startVars>>

\* Mutant.
StopWalksPaused == <<Walk("StopGame", FALSE)>>

\* StopGame unpauses the game first.
StopWalks ==
  IF paused THEN <<Walk("PauseGame", FALSE), Walk("StopGame", FALSE)>> ELSE <<Walk("StopGame", FALSE)>>

CallStopGame ==
  /\ MayWalk /\ running
  /\ stack' = StopWalks \o stack
  /\ UNCHANGED <<phase, engineVars, reg, markVars, stateVars, startVars>>

CallPauseGame ==
  /\ MayWalk
  /\ stack' = Push(Walk("PauseGame", ~paused))
  /\ UNCHANGED <<phase, engineVars, reg, markVars, stateVars, startVars>>

-----------------------------------------------------------------------------
(* The main loop *)

\* A callback of the game or of OnObjectCreate, OnCollide and the like returns.
Return ==
  /\ stack # <<>> /\ Top.at \in GameCalls \cup Handling
  /\ stack' = Below
  /\ UNCHANGED <<phase, calls, engineVars, reg, markVars, stateVars, startVars>>

\* A step of the main loop: nothing of the one before is still in progress.
Step(from, to) ==
  /\ phase = from /\ stack = <<>>
  /\ phase' = to
  /\ calls' = MaxCalls

\* The rest of BaseInit.
Started ==
  /\ Step("init", "update")
  /\ running' = FALSE
  /\ stack' = <<Walk("StartGame", FALSE)>>
  /\ UNCHANGED <<engineVars, reg, markVars, locked, paused, startVars>>

\* StaticUpdate, then StaticCameraUpdate: the core clock ticks.
Tick ==
  /\ Step("update", "engine")
  /\ stack' = (IF ~running THEN <<>>
               ELSE IF paused THEN <<Calling("Update", NoObject)>>
               ELSE <<Walk("BaseUpdate", FALSE)>>)
              \o <<Calling("CameraUpdate", NoObject)>>
  /\ UNCHANGED <<engineVars, reg, markVars, stateVars, startVars>>

\* The engine's own time in the frame: one event at most (a bound), then a pass over
\* its objects.
EngineStep(events) ==
  /\ Step("engine", "pass")
  /\ stack' = events \o <<Calling("engine", NoObject)>>

Told(o) == IF Bound(o) THEN <<Calling("OnEvent", o)>> ELSE <<>>

\* A contact of two bodies: OnCollide or OnSeparate of the one, then of the other.
Contact(s, r) ==
  /\ EngineStep(Told(s) \o Told(r)) /\ s # r
  /\ UNCHANGED <<engineVars, reg, markVars, stateVars, startVars>>

\* An animation, FX, render or shader event of an object, or none.
Notice(o) ==
  /\ EngineStep(Told(o))
  /\ UNCHANGED <<engineVars, reg, markVars, stateVars, startVars>>

\* A spawner creates an object.
Spawn(m) ==
  /\ EngineStep(<<Creation(m, FALSE, NoModel)>>) /\ Room(m)
  /\ EngineObject(m, NoObject)
  /\ UNCHANGED <<reg, markVars, stateVars, starts>>

\* The engine deletes the objects without life, each with the DELETE event.
NextToDelete(o) == Lowest({p \in Live : p > o /\ life[p] = "zero"})

EngineDeletes ==
  /\ At("engine") /\ NextToDelete(Top.obj) # NoObject
  /\ LET o == NextToDelete(Top.obj)
     IN  IF Bound(o) /\ deleteMark # model[o]
         THEN /\ stack' = <<Deletion(o, FALSE, NoModel), [Top EXCEPT !.obj = o]>> \o Below
              /\ UNCHANGED <<engineVars, startVars, deleteMark>>
         ELSE /\ Kill(o)
              /\ deleteMark' = IF deleteMark = model[o] THEN NoModel ELSE deleteMark
              /\ stack' = Swap([Top EXCEPT !.obj = o])
  /\ UNCHANGED <<phase, calls, reg, createMark, stateVars>>

EnginePassed ==
  /\ At("engine") /\ NextToDelete(Top.obj) = NoObject
  /\ stack' = Below
  /\ UNCHANGED <<phase, calls, engineVars, reg, markVars, stateVars, startVars>>

\* Every frame starts with the game's Run.
NextFrame ==
  /\ Step("pass", "update")
  /\ stack' = <<Calling("Run", NoObject)>>
  /\ UNCHANGED <<engineVars, reg, markVars, stateVars, startVars>>

\* BaseExit: the game's Exit, then its map and the CREATE events are given up...
Close ==
  /\ Step("pass", "exit")
  /\ stack' = <<Calling("Exit", NoObject)>>
  /\ UNCHANGED <<engineVars, reg, markVars, stateVars, startVars>>

Clear ==
  /\ Step("exit", "clear")
  /\ UNCHANGED <<stack, engineVars, reg, markVars, stateVars, startVars>>

\* ...and the objects are deleted in order of creation, new ones too.
ClearObject ==
  /\ Step("clear", "clear")
  /\ LET o == GetNextObject(reg.chrono, NoObject)
     IN  o # NoObject /\ DeleteObject(o)

Done ==
  /\ Step("clear", "done") /\ reg.chrono = <<>>
  /\ UNCHANGED <<stack, engineVars, reg, markVars, stateVars, startVars>>

-----------------------------------------------------------------------------
Call ==
  \/ \E m \in Models : CallCreate(m) \/ CallEngineCreate(m)
  \/ \E o \in Object : CallAdopt(o) \/ CallDelete(o) \/ CallSetLifeTime(o)
  \/ CallStartGame
  \/ CallStopGame
  \/ CallPauseGame

Create == CreateChild \/ SendCreate \/ CreatedRunning \/ EndCreate
Delete == EndOnObjectDelete \/ EndDelete
Visit  == WalkBegin \/ WalkNext \/ WalkEnd

MainLoop ==
  \/ Started
  \/ Tick
  \/ \E s, r \in Live : Contact(s, r)
  \/ \E o \in Live \cup {NoObject} : Notice(o)
  \/ \E m \in Models : Spawn(m)
  \/ EngineDeletes
  \/ EnginePassed
  \/ NextFrame
  \/ Close
  \/ Clear
  \/ ClearObject
  \/ Done

\* The program ends.
Ended == phase = "done" /\ UNCHANGED vars

Next == Call \/ Create \/ Delete \/ Visit \/ Return \/ MainLoop \/ Ended

Spec     == Init /\ [][Next]_vars
FairSpec == Spec /\ WF_vars(Next)

-----------------------------------------------------------------------------
\* The place j comes after i among these places: the first after it, or 0 after the last.
Follows(places, i, j) ==
  (j = 0 \/ i < j) /\ \A k \in places : i < k => j # 0 /\ j <= k

\* GetNextObject<O> goes through the objects of O that there are, each once, in the
\* order they were made, however creations and deletions of other classes fell
\* between them, and GetPreviousObject<O> back; the list of all objects has no others.
TypedWalk ==
  /\ Len(reg.list) = Len(reg.chrono)
  /\ \A b \in Binders :
       LET made  == {i \in DOMAIN reg.chrono : GetBinder(model[reg.chrono[i]], TRUE) = b}
           at(i) == IF i = 0 THEN NoObject ELSE reg.chrono[i]
       IN  \A i, j \in made \cup {0} :
             Follows(made, i, j) => /\ NextOfClass(b, at(i)) = at(j)
                                    /\ PreviousOfClass(b, at(j)) = at(i)

\* No call stands at an object that was deleted under it: not a walk, whatever its
\* callbacks delete, nor a creation, a deletion or a contact.
WalkSafe ==
  \A f \in Frames : f.obj # NoObject /\ f.at # "engine" => life[f.obj] # "deleted"

\* When the CREATE event of an object that the game asked for comes, it is left to the
\* call, and not taken for one of the engine's own: otherwise the object would get two
\* scroll objects. The events of its children, of the creations nested in their
\* callbacks and of what these have the engine create come before it and leave the
\* mark alone, all but one: the engine creating, in such a callback, an object of the
\* very name that the call waits for (TakesMark).
BoundOnce ==
  At("event") /\ Top.asked /\ Heard => createMark = model[Top.obj]

\* Outside the walks of StartGame and StopGame every object of a running game has
\* had one OnStartGame since the game started, and every object of a game that is not
\* running none to stop: except, until the next stop, those created inside such a
\* walk, which it may have passed by.
StartedOnce ==
  ~Walking({"StartGame", "StopGame"}) =>
    \A o \in Registered(reg) \ late :
      ~(\E f \in Frames : f.obj = o /\ f.at = "OnCreate")
        => starts[o] = IF running THEN 1 ELSE 0

\* A game that is not paused has no object paused in the engine, outside of the walk
\* that pauses or unpauses them; and one that stops is not paused.
PausedTogether ==
  /\ ~paused /\ ~Walking({"PauseGame"}) => frozen = {}
  /\ Walking({"StopGame"}) => ~paused

\* The objects left without life are all deleted, unless the program ends first: but
\* then every scroll object has been. (None is left without life twice, and there are
\* finitely many: that a time comes when none waits says that each of them goes.)
Waiting == {o \in Object : life[o] = "zero"}

DeletesComplete ==
  Waiting # {} ~> Waiting = {} \/ (phase = "done" /\ Waiting \cap Registered(reg) = {})

=============================================================================
