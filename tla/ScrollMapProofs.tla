-------------------------- MODULE ScrollMapProofs ---------------------------
(***************************************************************************)
(* Theorems about ScrollMap, for any map files, models, colours, camera    *)
(* places, numbers of layers and of names.                                 *)
(***************************************************************************)
EXTENDS ScrollMap, FiniteSetTheorems, WellFoundedInduction, TLAPS

\* A set of names has a last one.
LEMMA MaxOfNames ==
  ASSUME NEW S \in SUBSET ID, S # {}
  PROVE  Max(S) \in S /\ \A i \in S : i <= Max(S)
<1> DEFINE R == {ss \in Nat \X Nat : ss[1] < ss[2]}
           T == {MaxID - i : i \in S}
<1>1. IsWellFoundedOn(R, Nat)
  BY NatLessThanWellFounded DEF OpToRel
<1>2. T \subseteq Nat /\ T # {}
  <2>1. \A i \in S : MaxID - i \in Nat
    BY MapAssumption DEF ID
  <2> QED BY <2>1
<1>3. PICK t \in T : \A u \in T : <<u, t>> \notin R
  <2> HIDE DEF R, T
  <2> QED BY <1>1, <1>2, WFMin
<1>4. PICK i \in S : t = MaxID - i
  BY <1>3
<1>5. \A j \in S : j <= i
  <2> TAKE j \in S
  <2>1. MaxID - j \in T /\ i \in Int /\ j \in Int /\ MaxID \in Nat
    BY MapAssumption DEF ID
  <2>2. MaxID - j \in Nat /\ t \in Nat
    BY <1>2, <2>1
  <2>3. ~(MaxID - j < t)
    BY <1>3, <2>1, <2>2
  <2> QED BY <1>4, <2>1, <2>3
<1>6. \A j \in S : i >= j
  BY <1>5 DEF ID
<1>7. Max(S) \in S /\ \A j \in S : Max(S) >= j
  BY <1>4, <1>6 DEF Max
<1> QED BY <1>7 DEF ID

LEMMA NamesFinite ==
  ASSUME NEW S \in SUBSET ID
  PROVE  IsFiniteSet(S) /\ Cardinality(S) \in 0..MaxID
<1>1. MaxID \in Nat
  BY MapAssumption
<1>2. IsFiniteSet(ID) /\ Cardinality(ID) = MaxID
  BY <1>1, FS_Interval DEF ID
<1>3. IsFiniteSet(S) /\ Cardinality(S) <= MaxID
  BY <1>2, FS_Subset
<1>4. Cardinality(S) \in Nat
  BY <1>3, FS_CardinalityType
<1> QED BY <1>1, <1>3, <1>4

\* LoadMap tries all the names of sections that there are, when they are as many as
\* the map's objects.
LEMMA AllScanned ==
  ASSUME NEW memory, DOMAIN memory \in SUBSET ID
  PROVE  Scanned(memory, Cardinality(DOMAIN memory)) = DOMAIN memory
<1> DEFINE D == DOMAIN memory
<1>1. SUFFICES ASSUME NEW i \in D
               PROVE  Cardinality({j \in D : j < i}) < Cardinality(D)
  BY DEF Scanned
<1> DEFINE E == {j \in D : j < i}
<1>2. IsFiniteSet(D) /\ IsFiniteSet(E) /\ Cardinality(D) \in Int /\ Cardinality(E) \in Int
  BY NamesFinite
<1>3. Cardinality(E) <= Cardinality(D) /\ (Cardinality(D) = Cardinality(E) => D = E)
  <2>1. E \in SUBSET D
    OBVIOUS
  <2> HIDE DEF D, E
  <2> QED BY <1>2, <2>1, FS_Subset
<1>4. D # E
  <2>1. i \in D /\ ~(i < i)
    BY DEF ID
  <2> QED BY <2>1
<1>5. Cardinality(E) < Cardinality(D)
  <2> HIDE DEF D, E
  <2> QED BY <1>2, <1>3, <1>4
<1> QED BY <1>5

-----------------------------------------------------------------------------
(* Layers *)

LEMMA OddLayersOdd ==
  ASSUME NEW n \in 1..MaxLayers + 1, n <= MaxLayers \/ n % 2 = 1
  PROVE  OddLayers(n) \in 1..MaxLayers + 1 /\ OddLayers(n) % 2 = 1
<1>1. MaxLayers \in Nat
  BY MapAssumption
<1> QED BY <1>1 DEF OddLayers

\* Division by a whole number of steps and less than another one.
LEMMA Quotient ==
  ASSUME NEW b \in Nat, NEW q \in Nat, NEW r \in Nat, r < b
  PROVE  (b * q + r) \div b = q
<1> DEFINE a == b * q + r
           d == a \div b
           m == a % b
<1>1. a \in Nat /\ b > 0
  OBVIOUS
<1>2. d \in Int /\ m \in 0..b - 1 /\ a = b * d + m
  BY <1>1, Z3
<1>3. b * (d - q) = r - m
  BY <1>2, Z3
<1> QED BY <1>2, <1>3, Z3

LEMMA DepthInLayer ==
  ASSUME layers \in Nat, layers % 2 = 1, NEW l \in 0..layers - 1
  PROVE  GetLayer(GetLayerDepth(l)) = l
<1> DEFINE F == FrustumDepth
           depth == GetLayerDepth(l)
<1>1. F \in Nat /\ F > 0
  BY MapAssumption
<1>2. l \in Nat /\ l < layers
  OBVIOUS
<1>3. depth + layers * F = (2 * F) * l + F
  <2>1. CASE (layers - 1) \div 2 = l
    <3>1. layers = 2 * l + 1
      BY <2>1, Z3
    <3>2. depth = 0
      BY <1>2, <2>1 DEF GetLayerDepth
    <3> HIDE DEF F, depth
    <3> QED BY <1>1, <1>2, <3>1, <3>2, Z3
  <2>2. CASE (layers - 1) \div 2 # l
    <3>1. depth = (2 * l + 1) * F - layers * F
      BY <1>2, <2>2 DEF GetLayerDepth
    <3> HIDE DEF F, depth
    <3> QED BY <1>1, <1>2, <3>1, Z3
  <2> QED BY <2>1, <2>2
<1>4. ((2 * F) * l + F) \div (2 * F) = l
  <2>1. 2 * F \in Nat /\ F < 2 * F
    BY <1>1
  <2> HIDE DEF F
  <2> QED BY <1>1, <1>2, <2>1, Quotient
<1>5. GetLayer(depth) = (depth + layers * F) \div (2 * F)
  BY DEF GetLayer
<1> HIDE DEF F
<1> QED BY <1>3, <1>4, <1>5

-----------------------------------------------------------------------------
(***************************************************************************)
(* The invariant: an object has a section, of its colour, no name still to *)
(* be given out has one, and what a map file holds is what its objects     *)
(* looked like when it was saved.                                          *)
(***************************************************************************)
Matched ==
  /\ DOMAIN sections = DOMAIN objects
  /\ \A i \in DOMAIN objects : objects[i].colour = sections[i].colour

Kept(n) ==
  /\ IsById(files[n].sections, SectionState)
  /\ files[n].number = Cardinality(DOMAIN files[n].sections)
  /\ files[n].layers \in 1..MaxLayers + 1 /\ files[n].layers % 2 = 1
  /\ files[n].camera \in Places
  /\ DOMAIN saved[n] = DOMAIN files[n].sections
  /\ \A i \in DOMAIN saved[n] : saved[n][i] = files[n].sections[i]

AllKept ==
  /\ DOMAIN files = MapNames /\ DOMAIN saved = MapNames
  /\ \A n \in MapNames : files[n] # NoFile => Kept(n)

\* What concerns the objects, their sections and their names.
ObjectsOK ==
  /\ IsById(objects, ObjectState) /\ IsById(sections, SectionState)
  /\ nextID \in 0..MaxID
  /\ Matched /\ FreshNames

ViewOK ==
  /\ mapName \in MapNames \cup {NoMap}
  /\ layers \in 1..MaxLayers + 1 /\ layers % 2 = 1
  /\ camera \in Places
  /\ known \subseteq Models

MapInv == ObjectsOK /\ ViewOK /\ AllKept

LEMMA MapInvImplies == MapInv => TypeOK /\ FreshNames /\ LayersApart
<1> SUFFICES ASSUME MapInv PROVE TypeOK /\ FreshNames /\ LayersApart
  OBVIOUS
<1>1. \A n \in MapNames : files[n] # NoFile => files[n].number \in 0..MaxID
  BY NamesFinite DEF MapInv, AllKept, Kept, IsById
<1>2. TypeOK
  BY <1>1 DEF MapInv, ObjectsOK, ViewOK, AllKept, Kept, TypeOK
<1>3. MaxLayers \in Nat
  BY MapAssumption
<1>4. layers \in Nat /\ layers % 2 = 1
  BY <1>3 DEF MapInv, ViewOK
<1>5. LayersApart
  BY <1>4, DepthInLayer DEF LayersApart
<1> QED BY <1>2, <1>5 DEF MapInv, ObjectsOK

LEMMA EmptyOK ==
  ASSUME objects = Empty, sections = Empty, nextID \in 0..MaxID
  PROVE  ObjectsOK
BY DEF Empty, ObjectsOK, IsById, Matched, FreshNames

LEMMA MapInit == Init => MapInv
<1> SUFFICES ASSUME Init PROVE MapInv
  OBVIOUS
<1>1. MaxID \in Nat /\ MaxLayers \in Nat /\ Home \in Places
  BY MapAssumption
<1>2. ObjectsOK
  BY <1>1, EmptyOK DEF Init
<1>3. ViewOK
  BY <1>1 DEF Init, ViewOK
<1>4. AllKept
  BY DEF Init, AllKept
<1> QED BY <1>2, <1>3, <1>4 DEF MapInv

LEMMA NewStates ==
  ASSUME NEW m \in Models
  PROVE  NewState(m) \in ObjectState /\ Blank \in SectionState /\ NewState(m).colour = Blank.colour
<1>1. (m \in SmoothModels) \in BOOLEAN
  OBVIOUS
<1> QED BY <1>1 DEF NewState, Blank, ObjectState, SectionState

-----------------------------------------------------------------------------
(* Objects *)

LEMMA CreateStep ==
  ASSUME ObjectsOK, NEW m \in Models, CreateObject(m)
  PROVE  ObjectsOK'
<1>1. /\ nextID \in ID /\ nextID' = nextID + 1 /\ nextID' \in 0..MaxID
      /\ DOMAIN objects \subseteq ID /\ DOMAIN sections \subseteq ID
  BY MapAssumption DEF CreateObject, ObjectsOK, ID, IsById
<1>2. nextID \notin DOMAIN objects /\ nextID \notin DOMAIN sections
  BY <1>1 DEF ObjectsOK, FreshNames, ID
<1>3. /\ DOMAIN objects' = DOMAIN objects \cup {nextID}
      /\ DOMAIN sections' = DOMAIN sections \cup {nextID}
      /\ objects'[nextID] = NewState(m) /\ sections'[nextID] = Blank
      /\ \A i \in DOMAIN objects : objects'[i] = objects[i]
      /\ \A i \in DOMAIN sections : sections'[i] = sections[i]
  BY <1>2 DEF CreateObject, Over
<1>4. IsById(objects', ObjectState) /\ IsById(sections', SectionState)
  BY <1>1, <1>3, NewStates DEF ObjectsOK, IsById
<1>5. Matched'
  BY <1>3, NewStates DEF ObjectsOK, Matched
<1>6. FreshNames'
  BY <1>1, <1>3 DEF ObjectsOK, FreshNames, ID
<1> QED BY <1>1, <1>4, <1>5, <1>6 DEF ObjectsOK, IsById

LEMMA DeleteStep ==
  ASSUME ObjectsOK, NEW j \in ID, DeleteObject(j)
  PROVE  ObjectsOK'
<1>1. /\ DOMAIN objects' = DOMAIN objects \ {j} /\ DOMAIN sections' = DOMAIN sections \ {j}
      /\ \A i \in DOMAIN objects' : objects'[i] = objects[i]
      /\ \A i \in DOMAIN sections' : sections'[i] = sections[i]
      /\ nextID' = nextID
  BY DEF DeleteObject, Restrict
<1> QED BY <1>1 DEF ObjectsOK, IsById, Matched, FreshNames

LEMMA SmoothStep ==
  ASSUME ObjectsOK, NEW j \in ID, NEW on \in BOOLEAN, SetSmoothing(j, on)
  PROVE  ObjectsOK'
<1>1. /\ DOMAIN objects' = DOMAIN objects
      /\ \A i \in DOMAIN objects :
           objects'[i] = IF i = j THEN [objects[j] EXCEPT !.flag = on, !.smooth = on] ELSE objects[i]
      /\ UNCHANGED <<sections, nextID>>
  BY DEF SetSmoothing
<1>2. \A i \in DOMAIN objects : objects'[i] \in ObjectState /\ objects'[i].colour = objects[i].colour
  BY <1>1 DEF ObjectsOK, IsById, ObjectState
<1> QED BY <1>1, <1>2 DEF ObjectsOK, IsById, Matched, FreshNames

LEMMA ColourStep ==
  ASSUME ObjectsOK, NEW j \in ID, NEW c \in Colours, SetObjectConfigColor(j, c)
  PROVE  ObjectsOK'
<1>1. /\ DOMAIN objects' = DOMAIN objects /\ DOMAIN sections' = DOMAIN sections
      /\ \A i \in DOMAIN objects :
           objects'[i] = IF i = j THEN [objects[j] EXCEPT !.colour = c] ELSE objects[i]
      /\ \A i \in DOMAIN sections :
           sections'[i] = IF i = j THEN [sections[j] EXCEPT !.colour = c] ELSE sections[i]
      /\ nextID' = nextID
  BY DEF SetObjectConfigColor
<1>2. \A i \in DOMAIN objects : objects'[i] \in ObjectState
  BY <1>1 DEF ObjectsOK, IsById, ObjectState
<1>3. \A i \in DOMAIN sections : sections'[i] \in SectionState
  BY <1>1 DEF ObjectsOK, IsById, SectionState
<1>4. \A i \in DOMAIN objects : objects'[i].colour = sections'[i].colour
  BY <1>1 DEF ObjectsOK, IsById, Matched, ObjectState, SectionState
<1> QED BY <1>1, <1>2, <1>3, <1>4 DEF ObjectsOK, IsById, Matched, FreshNames

-----------------------------------------------------------------------------
(* Maps *)

LEMMA SavedSectionsAre ==
  ASSUME ObjectsOK
  PROVE  /\ IsById(SavedSections, SectionState)
         /\ DOMAIN SavedSections = DOMAIN objects
         /\ \A i \in DOMAIN objects : SavedSections[i] = Looks(objects[i], objects[i].flag)
<1>1. DOMAIN SavedSections = DOMAIN objects
  BY DEF SavedSections, Over, ObjectsOK, Matched
<1>2. \A i \in DOMAIN objects : SavedSections[i] = Looks(objects[i], objects[i].flag)
  BY DEF SavedSections, Over, GetObjectConfigColor, Looks, ObjectsOK, Matched
<1>3. \A i \in DOMAIN objects : Looks(objects[i], objects[i].flag) \in SectionState
  BY DEF Looks, ObjectsOK, IsById, ObjectState, SectionState
<1> QED BY <1>1, <1>2, <1>3 DEF ObjectsOK, IsById

LEMMA SaveStep ==
  ASSUME MapInv, SaveMap
  PROVE  MapInv'
<1>1. mapName \in MapNames /\ ObjectsOK /\ ViewOK /\ AllKept
  BY DEF MapInv, ViewOK, SaveMap
<1>2. /\ sections' = SavedSections
      /\ UNCHANGED <<objects, nextID, mapName, known, layers, camera>>
  BY DEF SaveMap, viewVars
<1>3. ObjectsOK'
  <2>1. DOMAIN sections' = DOMAIN objects' /\ IsById(sections', SectionState)
    BY <1>1, <1>2, SavedSectionsAre
  <2>2. \A i \in DOMAIN objects' : sections'[i].colour = objects'[i].colour
    BY <1>1, <1>2, SavedSectionsAre DEF Looks
  <2> QED BY <1>1, <1>2, <2>1, <2>2 DEF ObjectsOK, IsById, Matched, FreshNames
<1>4. ViewOK'
  BY <1>1, <1>2 DEF ViewOK
<1>5. AllKept'
  <2>1. /\ DOMAIN files' = MapNames /\ DOMAIN saved' = MapNames
        /\ \A n \in MapNames : n # mapName => files'[n] = files[n] /\ saved'[n] = saved[n]
    BY <1>1 DEF SaveMap, AllKept
  <2>2. \A n \in MapNames : n # mapName /\ files'[n] # NoFile => Kept(n)'
    BY <1>1, <2>1 DEF AllKept, Kept
  <2>3. files'[mapName] = Written
    BY <1>1 DEF SaveMap, AllKept
  <2>4. saved'[mapName] = [i \in DOMAIN objects |-> Looks(objects[i], objects[i].flag)]
    BY <1>1 DEF SaveMap, AllKept
  <2>5. /\ files'[mapName].sections = SavedSections
        /\ files'[mapName].number = Cardinality(DOMAIN objects)
        /\ files'[mapName].layers = layers /\ files'[mapName].camera = camera
    BY <2>3 DEF Written
  <2>6. /\ DOMAIN saved'[mapName] = DOMAIN objects
        /\ \A i \in DOMAIN objects : saved'[mapName][i] = SavedSections[i]
    BY <1>1, <2>4, SavedSectionsAre
  <2>7. Kept(mapName)'
    <3>1. mapName' = mapName
      BY <1>2
    <3> QED BY <1>1, <2>5, <2>6, <3>1, SavedSectionsAre DEF Kept, ViewOK, IsById
  <2>8. ASSUME NEW n \in MapNames, files'[n] # NoFile PROVE Kept(n)'
    <3>1. CASE n = mapName
      BY <2>7, <1>2, <3>1 DEF Kept
    <3>2. CASE n # mapName
      BY <2>2, <2>8, <3>2
    <3> QED BY <3>1, <3>2
  <2> QED BY <2>1, <2>8 DEF AllKept
<1> QED BY <1>3, <1>4, <1>5 DEF MapInv

\* LoadMap of a file finds all of its sections and no others, and makes the objects
\* whose model there is.
LEMMA LoadFinds ==
  ASSUME MapInv, NEW n \in MapNames, files[n] # NoFile, LoadFile(files[n])
  PROVE  LET all   == DOMAIN saved[n]
             valid == {i \in all : saved[n][i].model \in known}
         IN  /\ all \subseteq ID
             /\ objects' = [i \in valid |-> LoadedState(saved[n][i])]
             /\ DOMAIN sections' = valid /\ \A i \in valid : sections'[i] = saved[n][i]
             /\ \A i \in all : saved[n][i] \in SectionState
             /\ nextID' = IDAfter(all)
             /\ layers' = OddLayers(files[n].layers)
<1> DEFINE file   == files[n]
           all    == DOMAIN saved[n]
           memory == Over(file.sections, LeftSections)
           scan   == Scanned(memory, file.number)
<1>1. Kept(n) /\ Matched
  BY DEF MapInv, AllKept, ObjectsOK
<1>2. DOMAIN LeftSections = {}
  BY <1>1 DEF LeftSections, Restrict, Matched
<1>3. DOMAIN memory = all /\ \A i \in all : memory[i] = saved[n][i]
  BY <1>1, <1>2 DEF Over, Kept
<1>4. all \subseteq ID /\ \A i \in all : saved[n][i] \in SectionState
  BY <1>1 DEF Kept, IsById
<1>5. scan = all
  <2>1. file.number = Cardinality(DOMAIN memory) /\ DOMAIN memory \in SUBSET ID
    BY <1>1, <1>3, <1>4 DEF Kept
  <2> HIDE DEF memory, file
  <2>2. Scanned(memory, Cardinality(DOMAIN memory)) = DOMAIN memory
    BY <2>1, AllScanned
  <2> QED BY <1>3, <2>1, <2>2
<1> DEFINE found == {i \in scan : memory[i].model \in known}
<1>6. /\ objects' = [i \in found |-> LoadedState(memory[i])]
      /\ sections' = Restrict(memory, DOMAIN memory \ (scan \ found))
      /\ nextID' = IDAfter(scan)
      /\ layers' = OddLayers(file.layers)
  BY DEF LoadFile
<1> HIDE DEF memory, scan
<1>7. found = {i \in all : saved[n][i].model \in known}
  BY <1>3, <1>5
<1>8. found \subseteq all /\ DOMAIN memory \ (scan \ found) = found
  BY <1>3, <1>5
<1> HIDE DEF found
<1>9. [i \in found |-> LoadedState(memory[i])] = [i \in found |-> LoadedState(saved[n][i])]
  BY <1>3, <1>8
<1>10. DOMAIN sections' = found /\ \A i \in found : sections'[i] = saved[n][i]
  BY <1>3, <1>6, <1>8 DEF Restrict
<1> QED BY <1>4, <1>5, <1>6, <1>7, <1>9, <1>10

\* The names given out after a LoadMap come after those it tried.
LEMMA NamesAfter ==
  ASSUME nextID \in 0..MaxID, NEW S \in SUBSET ID
  PROVE  IDAfter(S) \in 0..MaxID /\ \A i \in S : i < IDAfter(S)
<1>1. MaxID \in Nat
  BY MapAssumption
<1>2. CASE S = {}
  BY <1>1, <1>2 DEF IDAfter, ScanEnd
<1>3. CASE S # {}
  <2>1. Max(S) \in ID /\ \A i \in S : i <= Max(S)
    BY <1>3, MaxOfNames
  <2>2. ScanEnd(S) = Max(S) + 1
    BY <1>3 DEF ScanEnd
  <2> QED BY <1>1, <2>1, <2>2 DEF IDAfter, ID
<1> QED BY <1>2, <1>3

LEMMA LoadedStates ==
  ASSUME NEW s \in SectionState, s.model \in Models
  PROVE  /\ LoadedState(s) \in ObjectState /\ LoadedState(s).colour = s.colour
         /\ Looks(LoadedState(s), LoadedState(s).smooth) = s
<1>1. NewState(s.model) \in ObjectState /\ NewState(s.model).model = s.model
  BY NewStates DEF NewState
<1>2. s = [model |-> s.model, colour |-> s.colour, smooth |-> s.smooth]
  BY DEF SectionState
<1>3. s.smooth \in BOOLEAN /\ s.colour \in Colours \cup {NoColour}
  BY DEF SectionState
<1>4. (NewState(s.model).flag \/ s.smooth) \in BOOLEAN
  OBVIOUS
<1> HIDE DEF NewState
<1>5. /\ LoadedState(s).model = s.model /\ LoadedState(s).colour = s.colour
      /\ LoadedState(s).smooth = s.smooth
  BY <1>1 DEF LoadedState, ObjectState
<1>6. LoadedState(s) \in ObjectState
  BY <1>1, <1>3, <1>4 DEF LoadedState, ObjectState
<1> QED BY <1>2, <1>5, <1>6 DEF Looks

LEMMA ReloadStep ==
  ASSUME MapInv, Reload, camera' \in Places
  PROVE  MapInv'
<1>1. mapName \in MapNames /\ ObjectsOK /\ ViewOK /\ AllKept
  BY DEF MapInv, ViewOK, Reload
<1>2. UNCHANGED <<files, mapName, known, saved>>
  BY DEF Reload
<1>3. AllKept'
  BY <1>1, <1>2 DEF AllKept, Kept
<1>4. CASE files[mapName] # NoFile
  <2> DEFINE all   == DOMAIN saved[mapName]
             valid == {i \in all : saved[mapName][i].model \in known}
  <2>1. LoadFile(files[mapName])
    BY <1>4 DEF Reload
  <2>2. /\ all \subseteq ID
        /\ objects' = [i \in valid |-> LoadedState(saved[mapName][i])]
        /\ DOMAIN sections' = valid /\ \A i \in valid : sections'[i] = saved[mapName][i]
        /\ \A i \in all : saved[mapName][i] \in SectionState
        /\ nextID' = IDAfter(all)
        /\ layers' = OddLayers(files[mapName].layers)
    BY <1>1, <1>4, <2>1, LoadFinds
  <2>3. \A i \in valid : saved[mapName][i] \in SectionState /\ saved[mapName][i].model \in Models
    BY <1>1, <2>2 DEF ViewOK
  <2>4. nextID' \in 0..MaxID /\ \A i \in all : i < nextID'
    BY <1>1, <2>2, NamesAfter DEF ObjectsOK
  <2>5. valid \subseteq all
    OBVIOUS
  <2> HIDE DEF valid, all
  <2>6. \A i \in valid : /\ objects'[i] \in ObjectState
                         /\ objects'[i].colour = sections'[i].colour
    BY <2>2, <2>3, LoadedStates
  <2>7. DOMAIN objects' = valid
    BY <2>2
  <2>8. ObjectsOK'
    BY <2>2, <2>3, <2>4, <2>5, <2>6, <2>7 DEF ObjectsOK, IsById, Matched, FreshNames
  <2>9. Kept(mapName)
    BY <1>1, <1>4 DEF AllKept
  <2>10. layers' \in 1..MaxLayers + 1 /\ layers' % 2 = 1
    BY <2>2, <2>9, OddLayersOdd DEF Kept
  <2>11. ViewOK'
    BY <1>1, <1>2, <2>10 DEF ViewOK
  <2> QED BY <1>3, <2>8, <2>11 DEF MapInv
<1>5. CASE files[mapName] = NoFile
  <2>1. objects' = Empty /\ sections' = LeftSections /\ UNCHANGED <<nextID, layers>>
    BY <1>5 DEF Reload
  <2>2. sections' = Empty
    BY <1>1, <2>1 DEF LeftSections, Restrict, Empty, ObjectsOK, Matched
  <2>3. ObjectsOK'
    BY <1>1, <2>1, <2>2 DEF Empty, ObjectsOK, IsById, Matched, FreshNames
  <2>4. ViewOK'
    BY <1>1, <1>2, <2>1 DEF ViewOK
  <2> QED BY <1>3, <2>3, <2>4 DEF MapInv
<1> QED BY <1>4, <1>5

-----------------------------------------------------------------------------
LEMMA MapStep ==
  ASSUME MapInv, [Next]_vars
  PROVE  MapInv'
<1>0. ObjectsOK /\ ViewOK /\ AllKept
  BY DEF MapInv
<1>1. ASSUME NEW m \in Models, CreateObject(m) PROVE MapInv'
  <2>1. UNCHANGED <<viewVars, files, mapName, known, saved>>
    BY <1>1 DEF CreateObject
  <2> QED BY <1>0, <1>1, <2>1, CreateStep DEF MapInv, ViewOK, AllKept, Kept, viewVars
<1>2. ASSUME NEW j \in ID, DeleteObject(j) PROVE MapInv'
  <2>1. UNCHANGED <<viewVars, files, mapName, known, saved>>
    BY <1>2 DEF DeleteObject
  <2> QED BY <1>0, <1>2, <2>1, DeleteStep DEF MapInv, ViewOK, AllKept, Kept, viewVars
<1>3. ASSUME NEW j \in ID, NEW on \in BOOLEAN, SetSmoothing(j, on) PROVE MapInv'
  <2>1. UNCHANGED <<viewVars, files, mapName, known, saved>>
    BY <1>3 DEF SetSmoothing
  <2> QED BY <1>0, <1>3, <2>1, SmoothStep DEF MapInv, ViewOK, AllKept, Kept, viewVars
<1>4. ASSUME NEW j \in ID, NEW c \in Colours, SetObjectConfigColor(j, c) PROVE MapInv'
  <2>1. UNCHANGED <<viewVars, files, mapName, known, saved>>
    BY <1>4 DEF SetObjectConfigColor
  <2> QED BY <1>0, <1>4, <2>1, ColourStep DEF MapInv, ViewOK, AllKept, Kept, viewVars
<1>5. ASSUME NEW n \in 1..MaxLayers, SetLayerNumber(n) PROVE MapInv'
  <2>1. UNCHANGED <<configVars, camera, files, mapName, known, saved>> /\ layers' = OddLayers(n)
    BY <1>5 DEF SetLayerNumber
  <2>2. layers' \in 1..MaxLayers + 1 /\ layers' % 2 = 1
    BY <2>1, MapAssumption, OddLayersOdd
  <2>3. ObjectsOK' /\ AllKept'
    BY <1>0, <2>1 DEF configVars, ObjectsOK, IsById, Matched, FreshNames, AllKept, Kept
  <2>4. ViewOK'
    BY <1>0, <2>1, <2>2 DEF ViewOK
  <2> QED BY <2>3, <2>4 DEF MapInv
<1>6. ASSUME NEW n \in MapNames \cup {NoMap}, SetMapName(n) PROVE MapInv'
  <2>1. UNCHANGED <<configVars, viewVars, files, known, saved>> /\ mapName' = n
    BY <1>6 DEF SetMapName
  <2>2. ObjectsOK' /\ AllKept'
    BY <1>0, <2>1 DEF configVars, ObjectsOK, IsById, Matched, FreshNames, AllKept, Kept
  <2>3. ViewOK'
    BY <1>0, <2>1 DEF ViewOK, viewVars
  <2> QED BY <2>2, <2>3 DEF MapInv
<1>7. CASE SaveMap
  BY <1>7, SaveStep
<1>8. CASE LoadMap
  <2>1. Reload /\ camera' \in Places
    BY <1>8, <1>0 DEF LoadMap, Reload, ViewOK, AllKept, Kept
  <2> QED BY <2>1, ReloadStep
<1>9. CASE ResetMap
  <2>1. Reload /\ camera' \in Places
    BY <1>9, <1>0 DEF ResetMap, ViewOK
  <2> QED BY <2>1, ReloadStep
<1>10. ASSUME NEW p \in Places, MoveCamera(p) PROVE MapInv'
  <2>1. UNCHANGED <<configVars, layers, files, mapName, known, saved>> /\ camera' = p
    BY <1>10 DEF MoveCamera
  <2>2. ObjectsOK' /\ AllKept'
    BY <1>0, <2>1 DEF configVars, ObjectsOK, IsById, Matched, FreshNames, AllKept, Kept
  <2>3. ViewOK'
    BY <1>0, <2>1 DEF ViewOK
  <2> QED BY <2>2, <2>3 DEF MapInv
<1>11. CASE Restart
  <2>1. /\ objects' = Empty /\ sections' = Empty /\ nextID' = 0
        /\ mapName' = NoMap /\ layers' = 1 /\ camera' = Home /\ known' \subseteq Models
        /\ UNCHANGED <<files, saved>>
    BY <1>11 DEF Restart
  <2>2. MaxID \in Nat /\ MaxLayers \in Nat /\ Home \in Places
    BY MapAssumption
  <2>3. ObjectsOK'
    BY <2>1, <2>2 DEF Empty, ObjectsOK, IsById, Matched, FreshNames
  <2>4. ViewOK' /\ AllKept'
    BY <1>0, <2>1, <2>2 DEF ViewOK, AllKept, Kept
  <2> QED BY <2>3, <2>4 DEF MapInv
<1>12. CASE UNCHANGED vars
  <2>1. UNCHANGED <<configVars, viewVars, files, mapName, known, saved>>
    BY <1>12 DEF vars
  <2>2. ObjectsOK' /\ AllKept'
    BY <1>0, <2>1 DEF configVars, ObjectsOK, IsById, Matched, FreshNames, AllKept, Kept
  <2>3. ViewOK'
    BY <1>0, <2>1 DEF ViewOK, viewVars
  <2> QED BY <2>2, <2>3 DEF MapInv
<1> QED
  BY <1>1, <1>2, <1>3, <1>4, <1>5, <1>6, <1>7, <1>8, <1>9, <1>10, <1>11, <1>12 DEF Next

LEMMA MapInvAlways == Spec => []MapInv
BY MapInit, MapStep, PTL DEF Spec

\* The objects, sections and map files keep their types, the layers an odd number.
THEOREM MapTypeCorrect == Spec => []TypeOK
BY MapInvAlways, MapInvImplies, PTL

\* Whatever maps are saved, loaded and reset, in any number of runs, GetNewObjectName
\* gives out no name that an object or a section has.
THEOREM NamesAreFresh == Spec => []FreshNames
BY MapInvAlways, MapInvImplies, PTL

\* For every number of layers asked for and every depth of the frustum, the depth of a
\* layer is in that layer.
THEOREM LayersAreApart == Spec => []LayersApart
BY MapInvAlways, MapInvImplies, PTL

\* A map that is loaded or reset shows what was saved of it last, all but the objects
\* whose model is gone.
THEOREM MapsRoundTrip == Spec => RoundTrip
<1> DEFINE Shown ==
      LoadMap \/ ResetMap =>
        (files[mapName] # NoFile =>
           LET was == saved[mapName]
           IN  /\ DOMAIN objects' = {i \in DOMAIN was : was[i].model \in known}
               /\ \A i \in DOMAIN objects' : Looks(objects'[i], objects'[i].smooth) = was[i])
<1>1. ASSUME MapInv PROVE Shown
  <2> SUFFICES ASSUME LoadMap \/ ResetMap, files[mapName] # NoFile
               PROVE  LET was == saved[mapName]
                      IN  /\ DOMAIN objects' = {i \in DOMAIN was : was[i].model \in known}
                          /\ \A i \in DOMAIN objects' :
                               Looks(objects'[i], objects'[i].smooth) = was[i]
    OBVIOUS
  <2> DEFINE was   == saved[mapName]
             valid == {i \in DOMAIN was : was[i].model \in known}
  <2>1. mapName \in MapNames /\ LoadFile(files[mapName]) /\ known \subseteq Models
    BY <1>1 DEF MapInv, ViewOK, LoadMap, ResetMap, Reload
  <2>2. /\ objects' = [i \in valid |-> LoadedState(was[i])]
        /\ \A i \in DOMAIN was : was[i] \in SectionState
    BY <1>1, <2>1, LoadFinds
  <2>3. \A i \in valid : was[i] \in SectionState /\ was[i].model \in Models
    BY <2>1, <2>2
  <2>4. DOMAIN objects' = valid /\ \A i \in valid : objects'[i] = LoadedState(was[i])
    <3> HIDE DEF valid
    <3> QED BY <2>2
  <2>5. \A i \in valid : Looks(objects'[i], objects'[i].smooth) = was[i]
    <3> HIDE DEF valid
    <3> QED BY <2>3, <2>4, LoadedStates
  <2> QED BY <2>4, <2>5
<1>2. MapInv => [Shown]_vars
  BY <1>1
<1>3. ((LoadMap \/ ResetMap) /\ files[mapName] # NoFile =>
         LET was == saved[mapName]
         IN  /\ DOMAIN objects' = {i \in DOMAIN was : was[i].model \in known}
             /\ \A i \in DOMAIN objects' : Looks(objects'[i], objects'[i].smooth) = was[i])
      <=> Shown
  OBVIOUS
<1> QED BY MapInvAlways, <1>2, <1>3, PTL DEF RoundTrip

=============================================================================
