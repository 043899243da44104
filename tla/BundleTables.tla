---------------------------- MODULE BundleTables -----------------------------
(***************************************************************************)
(* The life of bundle support (src/include/orxBundle.h): its registration  *)
(* with the engine, the --bundle parameter, the start of the game loop and *)
(* the exit, and the engine's handles that it keeps.                       *)
(*                                                                         *)
(* A thread has a table of its handles of bundle files, by the location of *)
(* the file; all threads share the tables of contents and the buffer in    *)
(* which Open writes the location. What is read from a handle is left to   *)
(* BundleReader, what orxBundle_Process writes to BundleWriter.            *)
(***************************************************************************)
CONSTANTS
  Thread,
  File,       \* the locations of files in the bundle storages
  Openable,   \* those that can be opened
  Tagged,     \* those that are bundles
  Output,     \* what --bundle names
  Handle,     \* the engine's handles
  None,       \* no handle, no file
  TakeTurns   \* whether a thread opens a resource while no other does

ASSUME TablesAssumption ==
  /\ Tagged \subseteq Openable /\ Openable \subseteq File
  /\ Output \notin File /\ None \notin File \cup {Output} /\ None \notin Handle
  /\ TakeTurns \in BOOLEAN

VARIABLES
  phase,      \* of the program
  bInit,
  registered, \* the bundle type is one of the engine's resource types
  listening,  \* the event handler
  bProcess,
  hResource,  \* the output
  tables,     \* apstResourceTableList: thread -> file -> handle
  tocs,       \* pstToCTable: the files whose table of contents was read
  content,    \* what the engine has open under each handle
  text,       \* Open's buffer
  pc,         \* how far each thread's Open is
  key         \* stLocationID in it, as the file it stands for

statusVars == <<phase, bInit, registered, listening, bProcess>>
callVars   == <<text, pc, key>>
vars       == <<statusVars, hResource, tables, tocs, content, callVars>>

NoTables == [t \in Thread |-> [f \in File |-> None]]

TypeOK ==
  /\ phase \in {"boot", "params", "ready", "loop", "over"}
  /\ bInit \in BOOLEAN /\ registered \in BOOLEAN
  /\ listening \in BOOLEAN /\ bProcess \in BOOLEAN
  /\ hResource \in Handle \cup {None}
  /\ tables \in [Thread -> [File -> Handle \cup {None}]]
  /\ tocs \subseteq Tagged
  /\ content \in [Handle -> File \cup {Output, None}]
  /\ text \in File \cup {None}
  /\ pc \in [Thread -> {"idle", "copied", "keyed"}]
  /\ key \in [Thread -> File \cup {None}]

Init ==
  /\ phase = "boot"
  /\ bInit = FALSE /\ registered = FALSE /\ listening = FALSE /\ bProcess = FALSE
  /\ hResource = None /\ tables = NoTables /\ tocs = {}
  /\ content = [h \in Handle |-> None]
  /\ text = None
  /\ pc = [t \in Thread |-> "idle"]
  /\ key = [t \in Thread |-> None]

Quiet == \A t \in Thread : pc[t] = "idle"

-----------------------------------------------------------------------------
(* Resources *)

\* The thread's handle of a file, under the key it looks for: the one it has, or the
\* engine opens one, or fails.
UseHandle(t, k, f) ==
  IF tables[t][k] # None \/ f \notin Openable
  THEN UNCHANGED <<tables, content>>
  ELSE \E h \in Handle :
         /\ content[h] = None
         /\ content' = [content EXCEPT ![h] = f]
         /\ tables' = [tables EXCEPT ![t][k] = h]

MayCall(t) == registered /\ pc[t] = "idle" /\ (TakeTurns => Quiet)

\* Mutant.
IsBundleAny(f) == TRUE

\* The file begins with the tag of a bundle.
IsBundle(f) == f \in Tagged

\* Locate for a bundle file, whose table of contents is read once.
Locate(t, f) ==
  /\ MayCall(t)
  /\ IF f \in tocs
     THEN UNCHANGED <<tables, content, tocs>>
     ELSE /\ UseHandle(t, f, f)
          /\ tocs' = IF IsBundle(f) THEN tocs \cup {f} ELSE tocs
  /\ UNCHANGED <<statusVars, hResource, callVars>>

\* Open writes the file's location into the buffer of all threads...
OpenCopy(t, f) ==
  /\ MayCall(t)
  /\ text' = f
  /\ pc' = [pc EXCEPT ![t] = "copied"]
  /\ UNCHANGED <<statusVars, hResource, tables, tocs, content, key>>

\* ...takes its hash...
OpenHash(t) ==
  /\ pc[t] = "copied"
  /\ key' = [key EXCEPT ![t] = text]
  /\ pc' = [pc EXCEPT ![t] = "keyed"]
  /\ UNCHANGED <<statusVars, hResource, tables, tocs, content, text>>

\* ...and looks up or opens the handle.
OpenFind(t) ==
  /\ pc[t] = "keyed"
  /\ UseHandle(t, key[t], text)
  /\ pc' = [pc EXCEPT ![t] = "idle"]
  /\ key' = [key EXCEPT ![t] = None]
  /\ UNCHANGED <<statusVars, hResource, tocs, text>>

-----------------------------------------------------------------------------
(* The life of the program *)

\* orxBundle_Init, called in Bootstrap.
Setup ==
  /\ phase = "boot" /\ ~bInit
  /\ bInit' = TRUE /\ registered' = TRUE /\ listening' = TRUE /\ bProcess' = FALSE
  /\ hResource' = None /\ tables' = NoTables /\ tocs' = {}
  /\ phase' = "params"
  /\ UNCHANGED <<content, callVars>>

\* ClearResourceTables closes what is in the tables.
InTables == {tables[t][f] : t \in Thread, f \in File} \ {None}

Closing(handles) == [h \in Handle |-> IF h \in handles THEN None ELSE content[h]]

\* ClearResourceTables and ClearToCTable.
Cleared == tables' = NoTables /\ tocs' = {}

\* PARAM_READY: the parameter is registered, and not there.
NoParam ==
  /\ phase = "params"
  /\ phase' = "ready"
  /\ UNCHANGED <<bInit, registered, listening, bProcess, hResource, tables, tocs, content, callVars>>

\* The handler of --bundle, with a name for the output or without: bundles are not read
\* from while one is to be made.
BundleParam(named) ==
  /\ phase = "params" /\ Quiet
  /\ bProcess' = TRUE /\ registered' = FALSE
  /\ Cleared
  /\ phase' = "ready"
  /\ IF named
     THEN \E h \in Handle :
            /\ content[h] = None
            /\ hResource' = h
            /\ content' = [Closing(InTables) EXCEPT ![h] = Output]
     ELSE content' = Closing(InTables) /\ UNCHANGED hResource
  /\ UNCHANGED <<bInit, listening, callVars>>

\* A name that cannot be opened stops the program before the game is there to exit.
BundleParamFails ==
  /\ phase = "params"
  /\ phase' = "over"
  /\ UNCHANGED <<bInit, registered, listening, bProcess, hResource, tables, tocs, content, callVars>>

\* The end of orxBundle_Process: its output is closed.
Processed == content' = Closing({hResource}) /\ hResource' = None

\* GAME_LOOP_START: the bundle is made, if asked for.
GameLoopStart ==
  /\ phase = "ready" /\ listening
  /\ phase' = "loop"
  /\ listening' = FALSE
  /\ IF bProcess
     THEN Processed
     ELSE UNCHANGED <<content, hResource>>
  /\ UNCHANGED <<bInit, registered, bProcess, tables, tocs, callVars>>

\* Mutant.
ClosedAtExitTables == InTables

\* The pending output and what is in the tables.
ClosedAtExit == InTables \cup {hResource}

\* orxBundle_Exit, called when the game exits, also if its loop did not start.
Exit ==
  /\ phase \in {"ready", "loop"} /\ bInit /\ Quiet
  /\ content' = Closing(ClosedAtExit)
  /\ hResource' = None /\ Cleared
  /\ bInit' = FALSE /\ registered' = FALSE /\ listening' = FALSE
  /\ phase' = "over"
  /\ UNCHANGED <<bProcess, callVars>>

Ended == phase = "over" /\ Quiet /\ UNCHANGED vars

Next ==
  \/ \E t \in Thread, f \in File : Locate(t, f) \/ OpenCopy(t, f)
  \/ \E t \in Thread : OpenHash(t) \/ OpenFind(t)
  \/ Setup
  \/ NoParam
  \/ \E named \in BOOLEAN : BundleParam(named)
  \/ BundleParamFails
  \/ GameLoopStart
  \/ Exit
  \/ Ended

Spec == Init /\ [][Next]_vars

-----------------------------------------------------------------------------
\* Every handle the engine has open is in one place, the table of one thread under the
\* file it is a handle of, or the output's: so it is closed once, and a thread that asks
\* for a file never gets the handle of another one or one that was closed. After the
\* exit none is open.
HandlesOwned ==
  /\ \A t \in Thread, f \in File : tables[t][f] # None => content[tables[t][f]] = f
  /\ hResource # None => content[hResource] = Output
  /\ \A h \in Handle : content[h] # None => h \in InTables \cup {hResource}
  /\ \A t, u \in Thread, f \in File : tables[t][f] # None /\ t # u => tables[t][f] # tables[u][f]
  /\ phase = "over" /\ ~bInit => \A h \in Handle : content[h] = None

=============================================================================
