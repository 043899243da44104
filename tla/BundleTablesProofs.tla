------------------------- MODULE BundleTablesProofs -------------------------
(***************************************************************************)
(* Theorems about BundleTables, for any threads, files and handles.        *)
(***************************************************************************)
EXTENDS BundleTables, TLAPS

\* What a call of Open in progress has at hand.
Typed ==
  \A t \in Thread :
    /\ pc[t] # "idle" => text \in File
    /\ pc[t] = "keyed" => key[t] \in File

TypeInv == TypeOK /\ Typed

\* A thread's handle has the type of a handle, whatever the key it is found under.
LEMMA HandleTyped ==
  ASSUME TypeOK, NEW t \in Thread, NEW k \in File, NEW f \in File, UseHandle(t, k, f)
  PROVE  /\ tables' \in [Thread -> [File -> Handle \cup {None}]]
         /\ content' \in [Handle -> File \cup {Output, None}]
<1>1. CASE tables[t][k] # None \/ f \notin Openable
  BY <1>1 DEF UseHandle, TypeOK
<1>2. CASE ~(tables[t][k] # None \/ f \notin Openable)
  <2>1. PICK h \in Handle : /\ content' = [content EXCEPT ![h] = f]
                            /\ tables' = [tables EXCEPT ![t][k] = h]
    BY <1>2 DEF UseHandle
  <2> QED BY <2>1 DEF TypeOK
<1> QED BY <1>1, <1>2

LEMMA ClosingTyped ==
  ASSUME TypeOK, NEW S
  PROVE  Closing(S) \in [Handle -> File \cup {Output, None}]
BY DEF Closing, TypeOK

LEMMA NoTablesTyped == NoTables \in [Thread -> [File -> Handle \cup {None}]]
BY DEF NoTables

LEMMA TypeInit == Init => TypeInv
BY NoTablesTyped DEF Init, TypeInv, TypeOK, Typed

LEMMA TypeStep ==
  ASSUME TypeInv, [Next]_vars
  PROVE  TypeInv'
<1> USE DEF TypeInv
<1>1. ASSUME NEW t \in Thread, NEW f \in File, Locate(t, f) PROVE TypeInv'
  <2>1. CASE f \in tocs
    BY <1>1, <2>1 DEF Locate, TypeOK, Typed, statusVars, callVars
  <2>2. CASE f \notin tocs
    <3>1. UseHandle(t, f, f) /\ tocs' = IF IsBundle(f) THEN tocs \cup {f} ELSE tocs
      BY <1>1, <2>2 DEF Locate
    <3>2. tocs' \subseteq Tagged
      BY <3>1 DEF IsBundle, TypeOK
    <3> QED BY <1>1, <3>1, <3>2, HandleTyped DEF Locate, TypeOK, Typed, statusVars, callVars
  <2> QED BY <2>1, <2>2
<1>2. ASSUME NEW t \in Thread, NEW f \in File, OpenCopy(t, f) PROVE TypeInv'
  BY <1>2 DEF OpenCopy, TypeOK, Typed, statusVars
<1>3. ASSUME NEW t \in Thread, OpenHash(t) PROVE TypeInv'
  <2>1. text \in File
    BY <1>3 DEF OpenHash, Typed
  <2> QED BY <1>3, <2>1 DEF OpenHash, TypeOK, Typed, statusVars
<1>4. ASSUME NEW t \in Thread, OpenFind(t) PROVE TypeInv'
  <2>1. text \in File /\ key[t] \in File
    BY <1>4 DEF OpenFind, Typed
  <2> QED BY <1>4, <2>1, HandleTyped DEF OpenFind, TypeOK, Typed, statusVars
<1>5. CASE Setup
  BY <1>5, NoTablesTyped DEF Setup, TypeOK, Typed, callVars
<1>6. CASE NoParam
  BY <1>6 DEF NoParam, TypeOK, Typed, callVars
<1>7. ASSUME NEW named \in BOOLEAN, BundleParam(named) PROVE TypeInv'
  <2>1. Closing(InTables) \in [Handle -> File \cup {Output, None}]
    BY ClosingTyped
  <2>2. /\ hResource' \in Handle \cup {None}
        /\ content' \in [Handle -> File \cup {Output, None}]
    BY <1>7, <2>1 DEF BundleParam, TypeOK
  <2> QED BY <1>7, <2>2, NoTablesTyped DEF BundleParam, Cleared, TypeOK, Typed, callVars
<1>8. CASE BundleParamFails
  BY <1>8 DEF BundleParamFails, TypeOK, Typed, callVars
<1>9. CASE GameLoopStart
  <2>1. Closing({hResource}) \in [Handle -> File \cup {Output, None}]
    BY ClosingTyped
  <2> QED BY <1>9, <2>1 DEF GameLoopStart, Processed, TypeOK, Typed, callVars
<1>10. CASE Exit
  <2>1. Closing(ClosedAtExit) \in [Handle -> File \cup {Output, None}]
    BY ClosingTyped
  <2> QED BY <1>10, <2>1, NoTablesTyped DEF Exit, Cleared, TypeOK, Typed, callVars
<1>11. CASE Ended \/ UNCHANGED vars
  BY <1>11 DEF Ended, TypeOK, Typed, vars, statusVars, callVars
<1> QED
  BY <1>1, <1>2, <1>3, <1>4, <1>5, <1>6, <1>7, <1>8, <1>9, <1>10, <1>11 DEF Next

\* Every variable of bundle support keeps its type, also when threads open resources at
\* the same time.
THEOREM TypeCorrect == Spec => []TypeOK
<1>1. Spec => []TypeInv
  BY TypeInit, TypeStep, PTL DEF Spec
<1> QED BY <1>1, PTL DEF TypeInv

-----------------------------------------------------------------------------
(***************************************************************************)
(* HandlesOwned, when threads take turns. It is strengthened by what the   *)
(* one Open in progress has in hand, its own file under its own key, and   *)
(* by what holds of the phases: no output before the parameters were read, *)
(* no thread in Open without the bundle type registered.                   *)
(***************************************************************************)
Owned ==
  /\ \A t \in Thread, f \in File : tables[t][f] # None => content[tables[t][f]] = f
  /\ hResource # None => content[hResource] = Output
  /\ \A h \in Handle : content[h] # None => h \in InTables \cup {hResource}
  /\ \A t, u \in Thread, f \in File : tables[t][f] # None /\ t # u => tables[t][f] # tables[u][f]

Turns ==
  /\ \A t, u \in Thread : pc[t] # "idle" /\ pc[u] # "idle" => t = u
  /\ \A t \in Thread : pc[t] = "keyed" => key[t] = text

Phases ==
  /\ phase \in {"boot", "params"} => hResource = None
  /\ phase = "boot" => ~bInit /\ \A h \in Handle : content[h] = None
  /\ phase \in {"params", "ready", "loop"} => bInit
  /\ ~registered => Quiet
  /\ ~bInit => ~registered
  /\ phase = "over" /\ ~bInit => \A h \in Handle : content[h] = None

OwnInv == TypeInv /\ Owned /\ Turns /\ Phases

\* A handle that a thread finds or opens under a file's own key is owned by it.
LEMMA HandleOwned ==
  ASSUME OwnInv, NEW t \in Thread, NEW f \in File, UseHandle(t, f, f), hResource' = hResource
  PROVE  Owned'
<1>1. CASE tables[t][f] # None \/ f \notin Openable
  BY <1>1 DEF UseHandle, OwnInv, Owned, InTables
<1>2. CASE ~(tables[t][f] # None \/ f \notin Openable)
  <2>1. PICK h \in Handle : /\ content[h] = None
                            /\ content' = [content EXCEPT ![h] = f]
                            /\ tables' = [tables EXCEPT ![t][f] = h]
    BY <1>2 DEF UseHandle
  <2>2. /\ content \in [Handle -> File \cup {Output, None}]
        /\ tables \in [Thread -> [File -> Handle \cup {None}]]
        /\ hResource \in Handle \cup {None}
    BY DEF OwnInv, TypeInv, TypeOK
  <2>3. None \notin Handle /\ None # Output /\ None \notin File
    BY TablesAssumption
  <2>4. hResource # h
    BY <2>1, <2>3 DEF OwnInv, Owned
  <2>5. \A u \in Thread, g \in File : tables[u][g] # h
    BY <2>1, <2>2, <2>3 DEF OwnInv, Owned
  <2>6. \A u \in Thread, g \in File :
          tables'[u][g] = IF u = t /\ g = f THEN h ELSE tables[u][g]
    BY <2>1, <2>2
  <2>7. \A g \in Handle : content'[g] = IF g = h THEN f ELSE content[g]
    BY <2>1, <2>2
  <2>8. \A u \in Thread, g \in File : tables'[u][g] # None => content'[tables'[u][g]] = g
    BY <2>2, <2>5, <2>6, <2>7 DEF OwnInv, Owned
  <2>9. hResource' # None => content'[hResource'] = Output
    BY <2>2, <2>4, <2>7 DEF OwnInv, Owned
  <2>10. h \in InTables'
    BY <2>3, <2>6 DEF InTables
  <2>11. InTables \subseteq InTables'
    <3> SUFFICES ASSUME NEW u \in Thread, NEW g \in File, tables[u][g] # None
                 PROVE  tables[u][g] \in InTables'
      BY DEF InTables
    <3>1. ~(u = t /\ g = f)
      BY <1>2
    <3> QED BY <2>6, <3>1 DEF InTables
  <2>12. \A g \in Handle : content'[g] # None => g \in InTables' \cup {hResource'}
    BY <2>7, <2>10, <2>11 DEF OwnInv, Owned
  <2>13. \A u, v \in Thread, g \in File :
           tables'[u][g] # None /\ u # v => tables'[u][g] # tables'[v][g]
    BY <2>5, <2>6 DEF OwnInv, Owned
  <2> QED BY <2>8, <2>9, <2>12, <2>13 DEF Owned
<1> QED BY <1>1, <1>2

LEMMA OwnInit == Init => OwnInv
<1> SUFFICES ASSUME Init PROVE OwnInv
  OBVIOUS
<1>1. TypeInv
  BY TypeInit
<1>2. Owned
  BY DEF Init, Owned, NoTables, InTables
<1> QED BY <1>1, <1>2 DEF Init, OwnInv, Turns, Phases, Quiet

LEMMA OwnStep ==
  ASSUME TakeTurns, OwnInv, [Next]_vars
  PROVE  OwnInv'
<1>0. TypeInv'
  BY TypeStep DEF OwnInv
<1>a. TypeOK /\ Typed /\ Owned /\ Turns /\ Phases
  BY DEF OwnInv, TypeInv
<1>b. None \notin Handle /\ None # Output /\ None \notin File
  BY TablesAssumption
<1>1. ASSUME NEW t \in Thread, NEW f \in File, Locate(t, f) PROVE OwnInv'
  <2>1. Owned'
    <3>1. CASE f \in tocs
      BY <1>1, <1>a, <3>1 DEF Locate, Owned, InTables
    <3>2. CASE f \notin tocs
      BY <1>1, <3>2, HandleOwned DEF Locate
    <3> QED BY <3>1, <3>2
  <2>2. bInit /\ registered /\ phase # "boot"
    BY <1>1, <1>a DEF Locate, MayCall, Phases
  <2>3. Turns' /\ Phases'
    BY <1>1, <1>a, <2>2 DEF Locate, Turns, Phases, statusVars, callVars
  <2> QED BY <1>0, <2>1, <2>3 DEF OwnInv
<1>2. ASSUME NEW t \in Thread, NEW f \in File, OpenCopy(t, f) PROVE OwnInv'
  <2>1. \A u \in Thread : u # t => pc[u] = "idle" /\ pc'[u] = "idle"
    BY <1>2, <1>a DEF OpenCopy, MayCall, Quiet, TypeOK
  <2>2. pc'[t] = "copied" /\ registered
    BY <1>2, <1>a DEF OpenCopy, MayCall, TypeOK
  <2>3. Turns'
    BY <2>1, <2>2 DEF Turns
  <2>4. Phases' /\ Owned'
    BY <1>2, <1>a, <2>2 DEF OpenCopy, Phases, Owned, InTables, statusVars
  <2> QED BY <1>0, <2>3, <2>4 DEF OwnInv
<1>3. ASSUME NEW t \in Thread, OpenHash(t) PROVE OwnInv'
  <2>1. \A u \in Thread : u # t => pc[u] = "idle" /\ pc'[u] = "idle"
    BY <1>3, <1>a DEF OpenHash, Turns, TypeOK
  <2>2. key'[t] = text /\ text' = text /\ registered
    BY <1>3, <1>a DEF OpenHash, TypeOK, Phases, Quiet
  <2>3. Turns'
    BY <2>1, <2>2 DEF Turns
  <2>4. Phases' /\ Owned'
    BY <1>3, <1>a, <2>2 DEF OpenHash, Phases, Owned, InTables, statusVars
  <2> QED BY <1>0, <2>3, <2>4 DEF OwnInv
<1>4. ASSUME NEW t \in Thread, OpenFind(t) PROVE OwnInv'
  <2>1. \A u \in Thread : u # t => pc[u] = "idle" /\ pc'[u] = "idle"
    BY <1>4, <1>a DEF OpenFind, Turns, TypeOK
  <2>2. pc'[t] = "idle" /\ registered
    BY <1>4, <1>a DEF OpenFind, TypeOK, Phases, Quiet
  <2>3. Turns'
    BY <2>1, <2>2 DEF Turns
  <2>4. key[t] = text /\ text \in File
    BY <1>4, <1>a DEF OpenFind, Turns, Typed
  <2>5. Owned'
    BY <1>4, <2>4, HandleOwned DEF OpenFind, statusVars
  <2>6. bInit /\ phase # "boot"
    BY <1>a, <2>2 DEF Phases
  <2>7. Phases'
    BY <1>4, <1>a, <2>2, <2>6 DEF OpenFind, Phases, statusVars
  <2> QED BY <1>0, <2>3, <2>5, <2>7 DEF OwnInv
<1>5. CASE Setup
  <2>1. \A h \in Handle : content'[h] = None
    BY <1>5, <1>a DEF Setup, Phases
  <2>2. Owned'
    BY <1>5, <2>1 DEF Setup, Owned, NoTables, InTables
  <2>3. Turns' /\ Phases'
    BY <1>5, <1>a DEF Setup, Turns, Phases, callVars
  <2> QED BY <1>0, <2>2, <2>3 DEF OwnInv
<1>6. CASE NoParam
  BY <1>6, <1>0, <1>a DEF NoParam, OwnInv, Owned, InTables, Turns, Phases, Quiet, callVars
<1>7. ASSUME NEW named \in BOOLEAN, BundleParam(named) PROVE OwnInv'
  <2>1. hResource = None /\ bInit
    BY <1>7, <1>a DEF BundleParam, Phases
  <2>2. \A h \in Handle : Closing(InTables)[h] = None
    BY <1>a, <1>b, <2>1 DEF Closing, Owned
  <2>3. Closing(InTables) = [h \in Handle |-> None]
    BY <2>2 DEF Closing
  <2>4. \A t \in Thread, f \in File : tables'[t][f] = None
    BY <1>7 DEF BundleParam, Cleared, NoTables
  <2>5. Owned'
    <3>1. CASE named
      <4>1. PICK h \in Handle : /\ hResource' = h
                                /\ content' = [Closing(InTables) EXCEPT ![h] = Output]
        BY <1>7, <3>1 DEF BundleParam
      <4>2. \A g \in Handle : content'[g] = IF g = h THEN Output ELSE None
        BY <2>3, <4>1
      <4> QED BY <2>4, <4>1, <4>2 DEF Owned
    <3>2. CASE ~named
      <4>1. hResource' = None /\ \A g \in Handle : content'[g] = None
        BY <1>7, <2>1, <2>2, <3>2 DEF BundleParam
      <4> QED BY <2>4, <4>1 DEF Owned
    <3> QED BY <3>1, <3>2
  <2>6. Turns' /\ Phases'
    BY <1>7, <1>a, <2>1 DEF BundleParam, Turns, Phases, Quiet, callVars
  <2> QED BY <1>0, <2>5, <2>6 DEF OwnInv
<1>8. CASE BundleParamFails
  <2>1. bInit
    BY <1>8, <1>a DEF BundleParamFails, Phases
  <2> QED
    BY <1>8, <1>0, <1>a, <2>1
    DEF BundleParamFails, OwnInv, Owned, InTables, Turns, Phases, Quiet, callVars
<1>9. CASE GameLoopStart
  <2>1. bInit
    BY <1>9, <1>a DEF GameLoopStart, Phases
  <2>2. Turns' /\ Phases'
    BY <1>9, <1>a, <2>1 DEF GameLoopStart, Turns, Phases, Quiet, callVars
  <2>3. Owned'
    <3>1. CASE bProcess
      <4>1. /\ content' = Closing({hResource}) /\ hResource' = None /\ tables' = tables
        BY <1>9, <3>1 DEF GameLoopStart, Processed
      <4>2. \A h \in Handle : content'[h] = IF h = hResource THEN None ELSE content[h]
        BY <4>1 DEF Closing
      <4>3. \A t \in Thread, f \in File :
              tables[t][f] # None => tables[t][f] \in Handle /\ tables[t][f] # hResource
        <5> SUFFICES ASSUME NEW t \in Thread, NEW f \in File, tables[t][f] # None
                     PROVE  tables[t][f] \in Handle /\ tables[t][f] # hResource
          OBVIOUS
        <5>1. content[tables[t][f]] = f /\ f # Output
          BY <1>a, TablesAssumption DEF Owned
        <5> QED BY <1>a, <5>1 DEF Owned, TypeOK
      <4>4. \A t \in Thread, f \in File : tables[t][f] # None => content'[tables[t][f]] = f
        BY <1>a, <4>2, <4>3 DEF Owned
      <4>5. \A h \in Handle : content'[h] # None => h \in InTables
        BY <1>a, <4>2 DEF Owned
      <4>6. InTables' = InTables
        BY <4>1 DEF InTables
      <4> QED BY <1>a, <4>1, <4>4, <4>5, <4>6 DEF Owned
    <3>2. CASE ~bProcess
      BY <1>9, <1>a, <3>2 DEF GameLoopStart, Owned, InTables
    <3> QED BY <3>1, <3>2
  <2> QED BY <1>0, <2>2, <2>3 DEF OwnInv
<1>10. CASE Exit
  <2>1. \A h \in Handle : content'[h] = None
    BY <1>10, <1>a DEF Exit, Closing, ClosedAtExit, Owned
  <2>2. hResource' = None /\ \A t \in Thread, f \in File : tables'[t][f] = None
    BY <1>10 DEF Exit, Cleared, NoTables
  <2>3. Owned'
    BY <2>1, <2>2 DEF Owned
  <2>4. Turns' /\ Phases'
    BY <1>10, <1>a, <2>1, <2>2 DEF Exit, Turns, Phases, Quiet, callVars
  <2> QED BY <1>0, <2>3, <2>4 DEF OwnInv
<1>11. CASE Ended \/ UNCHANGED vars
  BY <1>11, <1>0, <1>a
  DEF Ended, OwnInv, Owned, InTables, Turns, Phases, Quiet, vars, statusVars, callVars
<1> QED
  BY <1>1, <1>2, <1>3, <1>4, <1>5, <1>6, <1>7, <1>8, <1>9, <1>10, <1>11 DEF Next

\* With threads that take turns to open resources, every handle the engine has open is
\* in one table, under its own file, or the output, and none outlives the exit.
THEOREM HandlesAreOwned ==
  ASSUME TakeTurns
  PROVE  Spec => []HandlesOwned
<1>1. OwnInv => HandlesOwned
  BY DEF OwnInv, Owned, Phases, HandlesOwned
<1>2. OwnInv /\ [Next]_vars => OwnInv'
  BY OwnStep
<1>3. Spec => []OwnInv
  BY OwnInit, <1>2, PTL DEF Spec
<1> QED BY <1>1, <1>3, PTL

=============================================================================
