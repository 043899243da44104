----------------------------- MODULE ScrollMap ------------------------------
(***************************************************************************)
(* The maps of Scroll (src/include/Scroll/ScrollBase.h): the objects with  *)
(* FlagSave, the config section each has under its name, and the map files *)
(* they are saved to and loaded from, across runs of the program.          *)
(*                                                                         *)
(* An object's name is SO:<id>; it stands here for its id. A section, in   *)
(* memory or in a file, holds what SaveMap writes of an object: its model, *)
(* its colour and its smoothing. Its position, scale and rotation are      *)
(* copied there and back and left out; its tiling is dealt with as its     *)
(* smoothing is.                                                           *)
(***************************************************************************)
EXTENDS Integers, FiniteSets, FiniteSetsExt, Functions

CONSTANTS
  MapNames,    \* the map files' names
  Models,      \* the config sections that objects are created from
  SmoothModels,\* the models whose graphic is smoothed
  Places,      \* where the camera may be
  Home,        \* where it is at first
  Colours,
  NoModel, NoColour, NoFile, NoMap,
  FrustumDepth,\* of the main camera
  MaxLayers,   \* bound: layers asked for
  MaxID        \* bound: names given out

ASSUME MapAssumption ==
  /\ SmoothModels \subseteq Models /\ Home \in Places
  /\ NoModel \notin Models /\ NoColour \notin Colours /\ NoMap \notin MapNames
  /\ FrustumDepth \in Nat \ {0} /\ MaxLayers \in Nat \ {0} /\ MaxID \in Nat

VARIABLES
  objects,  \* the objects with FlagSave, by id
  sections, \* their sections of the config in memory, by id
  files,    \* MapNames -> what is in the file, or NoFile
  mapName,  \* mzMapName
  nextID,   \* mu32NextObjectID
  layers,   \* mu32LayerNumber
  camera,   \* where the main camera is, in its plane
  known,    \* the models that this run's config has
  saved     \* history: the looks of the objects at the last SaveMap of each map

configVars == <<objects, sections, nextID>>
viewVars   == <<layers, camera>>
vars       == <<configVars, viewVars, files, mapName, known, saved>>

ID == 0..MaxID - 1

\* flag: FlagSmoothed; smooth: the engine's smoothing; colour: the one shown.
ObjectState  == [model : Models, colour : Colours \cup {NoColour}, flag : BOOLEAN, smooth : BOOLEAN]
SectionState == [model : Models \cup {NoModel}, colour : Colours \cup {NoColour}, smooth : BOOLEAN]

IsById(f, S) == DOMAIN f \subseteq ID /\ \A i \in DOMAIN f : f[i] \in S

TypeOK ==
  /\ IsById(objects, ObjectState)
  /\ IsById(sections, SectionState)
  /\ \A n \in MapNames : files[n] # NoFile =>
       IsById(files[n].sections, SectionState) /\ files[n].number \in 0..MaxID
  /\ mapName \in MapNames \cup {NoMap}
  /\ nextID \in 0..MaxID
  /\ layers \in 1..MaxLayers + 1 /\ layers % 2 = 1
  /\ camera \in Places
  /\ known \subseteq Models

Empty == [i \in {} |-> 0]

\* The sections of f on top of those of g.
Over(f, g) == [i \in DOMAIN f \cup DOMAIN g |-> IF i \in DOMAIN f THEN f[i] ELSE g[i]]

Init ==
  /\ objects = Empty /\ sections = Empty
  /\ files = [n \in MapNames |-> NoFile]
  /\ mapName = NoMap /\ nextID = 0
  /\ layers = 1 /\ camera = Home
  /\ known = Models
  /\ saved = [n \in MapNames |-> Empty]

-----------------------------------------------------------------------------
(* Objects *)

\* What a section holds before it is written to.
Blank == [model |-> NoModel, colour |-> NoColour, smooth |-> FALSE]

\* Binder::CreateObject: the flags follow the graphic, the section is created.
NewState(m) ==
  [model |-> m, colour |-> NoColour, flag |-> m \in SmoothModels, smooth |-> m \in SmoothModels]

\* CreateObject(name, FlagSave) with the name of GetNewObjectName.
CreateObject(m) ==
  /\ nextID < MaxID /\ m \in known
  /\ objects' = Over([i \in {nextID} |-> NewState(m)], objects)
  /\ sections' = Over([i \in {nextID} |-> Blank], sections)
  /\ nextID' = nextID + 1
  /\ UNCHANGED <<viewVars, files, mapName, known, saved>>

\* Binder::DeleteObject clears the section with the object.
DeleteObject(i) ==
  /\ i \in DOMAIN objects
  /\ objects' = Restrict(objects, DOMAIN objects \ {i})
  /\ sections' = Restrict(sections, DOMAIN sections \ {i})
  /\ UNCHANGED <<nextID, viewVars, files, mapName, known, saved>>

\* The flag with the engine's smoothing.
SetSmoothing(i, on) ==
  /\ i \in DOMAIN objects
  /\ objects' = [objects EXCEPT ![i].flag = on, ![i].smooth = on]
  /\ UNCHANGED <<sections, nextID, viewVars, files, mapName, known, saved>>

\* The colour of an object is kept in its section and shown.
SetObjectConfigColor(i, c) ==
  /\ i \in DOMAIN objects
  /\ sections' = [sections EXCEPT ![i].colour = c]
  /\ objects' = [objects EXCEPT ![i].colour = c]
  /\ UNCHANGED <<nextID, viewVars, files, mapName, known, saved>>

-----------------------------------------------------------------------------
(* Layers *)

\* Mutant.
OddLayersAny(n) == n

\* An even number gets an extra layer.
OddLayers(n) == IF n % 2 = 0 THEN n + 1 ELSE n

\* SetLayerNumber also moves the camera to -FrustumDepth/2, where it stays.
SetLayerNumber(n) ==
  /\ layers' = OddLayers(n)
  /\ UNCHANGED <<configVars, camera, files, mapName, known, saved>>

\* Mutant.
GetLayerDepthEnd(layer) ==
  LET l == IF layer < layers THEN layer ELSE layers
  IN  IF (layers - 1) \div 2 = l THEN 0
      ELSE (2 * l + 2) * FrustumDepth - layers * FrustumDepth

\* GetLayerDepth and GetLayer. Depths are in units of 1/(2 * layers), in which they
\* are whole; a point's layer is rounded down.
GetLayerDepth(layer) ==
  LET l == IF layer < layers THEN layer ELSE layers
  IN  IF (layers - 1) \div 2 = l THEN 0
      ELSE (2 * l + 1) * FrustumDepth - layers * FrustumDepth

GetLayer(depth) == (depth + layers * FrustumDepth) \div (2 * FrustumDepth)

-----------------------------------------------------------------------------
(* Maps *)

SetMapName(n) ==
  /\ mapName' = n
  /\ UNCHANGED <<configVars, viewVars, files, known, saved>>

\* The colour an object's own section has, if any: the colour shown does not matter.
GetObjectConfigColor(i) == sections[i].colour

\* SaveMap writes every object into its section.
SavedSections ==
  Over([ i \in DOMAIN objects |->
           [ model |-> objects[i].model, colour |-> GetObjectConfigColor(i),
             smooth |-> objects[i].flag ] ], sections)

Looks(o, smooth) == [model |-> o.model, colour |-> o.colour, smooth |-> smooth]

\* What BaseMapSaveFilter lets through of the config in memory: the sections that are
\* named as objects, of one or not, and the map's own. None has NoSave.
Written ==
  [ sections |-> SavedSections, number |-> Cardinality(DOMAIN objects),
    layers |-> layers, camera |-> camera ]

SaveMap ==
  /\ mapName # NoMap
  /\ sections' = SavedSections
  /\ files' = [files EXCEPT ![mapName] = Written]
  /\ saved' = [saved EXCEPT ![mapName] =
                 [i \in DOMAIN objects |-> Looks(objects[i], objects[i].flag)]]
  /\ UNCHANGED <<objects, nextID, viewVars, mapName, known>>

\* Mutant.
ScannedToGap(memory, number) ==
  {i \in DOMAIN memory : \A j \in 0..i : j \in DOMAIN memory}

\* The names LoadMap tries, counted up from 0, that have a section, until it has the
\* map's number of them.
Scanned(memory, number) ==
  {i \in DOMAIN memory : Cardinality({j \in DOMAIN memory : j < i}) < number}

ScanEnd(scan) == IF scan = {} THEN 0 ELSE Max(scan) + 1

\* An object created from its section, for its section: smoothing that the section
\* does not ask for is taken off in the engine, not in the flags.
LoadedState(section) ==
  [ NewState(section.model) EXCEPT
      !.colour = section.colour, !.smooth = section.smooth, !.flag = @ \/ section.smooth ]

\* Mutant.
IDAfterScan(scan) == nextID

IDAfter(scan) == IF nextID < ScanEnd(scan) THEN ScanEnd(scan) ELSE nextID

\* The sections left when the map's objects are deleted.
LeftSections == Restrict(sections, DOMAIN sections \ DOMAIN objects)

\* LoadMap of a file: its sections come on top of those in memory. A model that the
\* config does not have is counted, and its section is cleared.
LoadFile(file) ==
  LET memory == Over(file.sections, LeftSections)
      scan   == Scanned(memory, file.number)
      valid  == {i \in scan : memory[i].model \in known}
  IN  /\ objects'  = [i \in valid |-> LoadedState(memory[i])]
      /\ sections' = Restrict(memory, DOMAIN memory \ (scan \ valid))
      /\ nextID'   = IDAfter(scan)
      /\ layers'   = OddLayers(file.layers)

\* Without a file the objects are deleted all the same.
Reload ==
  /\ mapName # NoMap
  /\ IF files[mapName] # NoFile
     THEN LoadFile(files[mapName])
     ELSE objects' = Empty /\ sections' = LeftSections /\ UNCHANGED <<nextID, layers>>
  /\ UNCHANGED <<files, mapName, known, saved>>

LoadMap ==
  /\ Reload
  /\ camera' = IF files[mapName] # NoFile THEN files[mapName].camera ELSE camera

\* ResetMap loads the map again and keeps the camera where it is.
ResetMap == Reload /\ UNCHANGED camera

MoveCamera(p) ==
  /\ camera' = p
  /\ UNCHANGED <<configVars, layers, files, mapName, known, saved>>

\* Another run of the program, whose config may have lost or gained models.
Restart ==
  /\ objects' = Empty /\ sections' = Empty /\ nextID' = 0
  /\ mapName' = NoMap /\ layers' = 1 /\ camera' = Home
  /\ known' \in SUBSET Models
  /\ UNCHANGED <<files, saved>>

Next ==
  \/ \E m \in Models : CreateObject(m)
  \/ \E i \in ID : DeleteObject(i)
  \/ \E i \in ID, on \in BOOLEAN : SetSmoothing(i, on)
  \/ \E i \in ID, c \in Colours : SetObjectConfigColor(i, c)
  \/ \E n \in 1..MaxLayers : SetLayerNumber(n)
  \/ \E n \in MapNames \cup {NoMap} : SetMapName(n)
  \/ SaveMap
  \/ LoadMap
  \/ ResetMap
  \/ \E p \in Places : MoveCamera(p)
  \/ Restart

Spec == Init /\ [][Next]_vars

-----------------------------------------------------------------------------
\* A map loaded in this run or a later one shows the objects there were when it was
\* saved, all but those whose model is gone, with the looks they had: their smoothing
\* is that of their flag, which after a LoadMap may differ from what was seen.
RoundTrip ==
  [][ (LoadMap \/ ResetMap) /\ files[mapName] # NoFile =>
        LET was == saved[mapName]
        IN  /\ DOMAIN objects' = {i \in DOMAIN was : was[i].model \in known}
            /\ \A i \in DOMAIN objects' : Looks(objects'[i], objects'[i].smooth) = was[i] ]_vars

\* No name that is still to be given out has an object or a section: a new object
\* would take over what is saved under it.
FreshNames ==
  \A i \in DOMAIN objects \cup DOMAIN sections : i < nextID

\* A layer's depth is in that layer.
LayersApart ==
  \A l \in 0..layers - 1 : GetLayer(GetLayerDepth(l)) = l

=============================================================================
