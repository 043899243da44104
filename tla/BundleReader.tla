---------------------------- MODULE BundleReader ----------------------------
(***************************************************************************)
(* Reading resources from a bundle: Locate, Open, Read, Seek and Close of  *)
(* src/include/orxBundle.h, for one bundle file and the built-in bundle.   *)
(*                                                                         *)
(* Every thread has one handle of the bundle file, which all resources it  *)
(* opens share.  A resource's compressed bytes are only fetched by its     *)
(* first Read, from wherever the shared handle stands by then.             *)
(* Read, Seek and Close of a resource, called by the thread that opened    *)
(* it, touch nothing another thread's calls touch, so a call is one step,  *)
(* and so is Open: the buffer that its calls share holds the location of   *)
(* the one file there is here (BundleTables has several). Locate uses      *)
(* variables that all threads share.                                       *)
(***************************************************************************)
EXTENDS Integers, FiniteSets

CONSTANTS
  Thread,
  Handle,      \* bound: the resources that may be open at a time
  Entries,     \* the number of bundled resources
  NameOf,      \* NameOf[e]: the name the e-th of them is kept under
  Size,        \* Size[e]: its compressed size
  Final,       \* Final[e]: its size
  BuiltIn,     \* those that are in the program and not in the bundle file
  Undecodable, \* those whose bytes do not decompress: bad data or a wrong key
  Absent,      \* a name nothing is kept under
  MaxRead,     \* bound: how much is asked for at once
  ReadFirst    \* whether callers read a resource before they open or locate more

Entry == 1 .. Entries
Name  == {NameOf[e] : e \in Entry} \cup {Absent}

ASSUME ReaderAssumption ==
  /\ Entries \in Nat
  /\ Size \in [Entry -> Nat \ {0}]
  /\ Final \in [Entry -> Nat \ {0}]
  /\ BuiltIn \subseteq Entry /\ Undecodable \subseteq Entry
  /\ MaxRead \in Nat
  /\ ReadFirst \in BOOLEAN

VARIABLES
  at,         \* for each thread where its handle of the bundle file stands
  toc,        \* whether the table of contents was built
  locating,   \* sbLocating
  location,   \* the buffer Locate returns, as the entry its text names
  pc,         \* how far each thread's Locate is
  want,       \* the name it looks for
  answer,     \* what its caller got: an entry, or Null
  res,        \* the open resources
  got         \* what Read copied, if the last call was one

locate == <<locating, location, pc, want, answer>>
vars   == <<at, toc, locate, res, got>>

\* A handle stands at an entry of the header, or somewhere else, or is not open yet.
Unopened  == -1
Elsewhere == 0

\* What a resource's buffer holds: nothing yet, what failed to decompress, bytes that
\* are no resource's, or the bytes of an entry.
NoBuffer == 0
Failed   == -1
Garbage  == -2

Null == 0
Closed   == [by |-> Null, entry |-> 0, final |-> 0, cursor |-> 0, buffer |-> NoBuffer]
Nothing  == [of |-> 0, content |-> 0, from |-> 0, count |-> 0]

TypeOK ==
  /\ at \in [Thread -> Entry \cup {Unopened, Elsewhere}]
  /\ toc \in BOOLEAN /\ locating \in BOOLEAN
  /\ location \in Entry \cup {Null}
  /\ pc \in [Thread -> {"idle", "entered", "indexed", "returned", "located"}]
  /\ want \in [Thread -> Name]
  /\ answer \in [Thread -> Entry \cup {Null}]
  /\ res \in [Handle -> {Closed} \cup
               [by : Thread, entry : Entry, final : Nat, cursor : Nat,
                buffer : Entry \cup {NoBuffer, Failed, Garbage}]]
  /\ got \in [of : Entry \cup {0}, content : Entry \cup {NoBuffer, Failed, Garbage},
              from : Nat, count : Int]

Init ==
  /\ at = [t \in Thread |-> Unopened]
  /\ toc = FALSE /\ locating = FALSE /\ location = Null
  /\ pc = [t \in Thread |-> "idle"]
  /\ want = [t \in Thread |-> Absent]
  /\ answer = [t \in Thread |-> Null]
  /\ res = [h \in Handle |-> Closed]
  /\ got = Nothing

-----------------------------------------------------------------------------
\* The resources of the bundle file that a thread opened and nobody read yet.
Unread(t) == {h \in Handle : /\ res[h].by = t /\ res[h].buffer = NoBuffer
                             /\ res[h] # Closed /\ res[h].entry \notin BuiltIn}

\* A thread makes one call at a time.
Free(t) == pc[t] \in {"idle", "located"}

\* What callers do, as far as ReadFirst says so.
MayMove(t) == Free(t) /\ (ReadFirst => Unread(t) = {})

\* The entry a table of contents gives for a name: the first one; the next Add of a
\* name fails.
Stored(n, in) == {e \in in : NameOf[e] = n}
Index(n, in)  == IF Stored(n, in) = {} THEN Null
                 ELSE CHOOSE e \in Stored(n, in) : \A f \in Stored(n, in) : e <= f

InFile == Entry \ BuiltIn

\* Locate for a bundle file's storage, step by step.  A Locate that finds another
\* one going on returns NULL: it takes itself for the nested call.
LocateBegin(t, n) ==
  /\ MayMove(t)
  /\ want' = [want EXCEPT ![t] = n]
  /\ answer' = [answer EXCEPT ![t] = Null]
  /\ pc' = [pc EXCEPT ![t] = IF locating THEN "located" ELSE "entered"]
  /\ got' = Nothing
  /\ UNCHANGED <<at, toc, locating, location, res>>

\* Building the table, if there is none, moves the handle over the header.
LocateToC(t) ==
  /\ pc[t] = "entered"
  /\ locating' = TRUE
  /\ toc' = TRUE
  /\ at' = IF toc THEN at ELSE [at EXCEPT ![t] = Elsewhere]
  /\ pc' = [pc EXCEPT ![t] = "indexed"]
  /\ got' = Nothing
  /\ UNCHANGED <<location, want, answer, res>>

\* Mutant: the entry after the one that was found.
LocateEndNext(t) ==
  LET e == Index(want[t], InFile)
  IN  /\ pc[t] = "indexed"
      /\ location' = IF e = Null THEN location ELSE IF e < Entries THEN e + 1 ELSE 1
      /\ locating' = FALSE
      /\ pc' = [pc EXCEPT ![t] = IF e = Null THEN "located" ELSE "returned"]
      /\ got' = Nothing
      /\ UNCHANGED <<at, toc, want, answer, res>>

LocateEnd(t) ==
  LET e == Index(want[t], InFile)
  IN  /\ pc[t] = "indexed"
      /\ location' = IF e = Null THEN location ELSE e
      /\ locating' = FALSE
      /\ pc' = [pc EXCEPT ![t] = IF e = Null THEN "located" ELSE "returned"]
      /\ got' = Nothing
      /\ UNCHANGED <<at, toc, want, answer, res>>

\* Locate for the storage that is the program itself.
LocateBuiltIn(t, n) ==
  LET e == Index(n, BuiltIn)
  IN  /\ MayMove(t)
      /\ e # Null
      /\ want' = [want EXCEPT ![t] = n]
      /\ location' = e
      /\ pc' = [pc EXCEPT ![t] = "returned"]
      /\ got' = Nothing
      /\ UNCHANGED <<at, toc, locating, answer, res>>

\* The caller copies the text it was given.
LocateCopy(t) ==
  /\ pc[t] = "returned"
  /\ answer' = [answer EXCEPT ![t] = location]
  /\ pc' = [pc EXCEPT ![t] = "located"]
  /\ got' = Nothing
  /\ UNCHANGED <<at, toc, locating, location, want, res>>

-----------------------------------------------------------------------------
\* Mutant: the handle stays behind the two sizes Open read.
LeaveAtSizes(t, e) == [at EXCEPT ![t] = Elsewhere]

\* Open rewinds the thread's handle, or opens it, reads the resource's sizes from the
\* header, and leaves the handle at the resource's entry for the first Read.
LeaveAt(t, e) == [at EXCEPT ![t] = e]

Open(t, h, e) ==
  /\ MayMove(t)
  /\ res[h] = Closed
  /\ res' = [res EXCEPT ![h] = [by |-> t, entry |-> e, final |-> Final[e], cursor |-> 0,
                                buffer |-> NoBuffer]]
  /\ at' = IF e \in BuiltIn THEN at ELSE LeaveAt(t, e)
  /\ got' = Nothing
  /\ UNCHANGED <<toc, locate>>

\* A call on an open resource, by the thread that opened it.
Called(h) == res[h] # Closed /\ Free(res[h].by)

\* What the first Read makes of the bytes it finds: Size[r.entry] bytes from where the
\* entry at the handle says, decompressed and compared with the final size.
Decoded(r) ==
  LET e == IF r.entry \in BuiltIn THEN r.entry ELSE at[r.by]
      alike == e \in Entry /\ Size[e] = Size[r.entry] /\ Final[e] = Final[r.entry]
  IN  IF e \in Undecodable THEN {Failed} ELSE IF alike THEN {e} ELSE {Failed, Garbage}

Load(r, d) == [r EXCEPT !.buffer = d, !.final = IF d = Failed THEN 0 ELSE @]

\* Mutant: the cursor is not taken into account.
CopySizeWhole(r, n) == IF n <= r.final THEN n ELSE r.final

CopySize(r, n) == IF n <= r.final - r.cursor THEN n ELSE r.final - r.cursor

Copy(h, r, n) ==
  /\ res' = [res EXCEPT ![h] = [r EXCEPT !.cursor = @ + CopySize(r, n)]]
  /\ got' = [of |-> r.entry, content |-> r.buffer, from |-> r.cursor, count |-> CopySize(r, n)]

FirstRead(h, n) ==
  /\ Called(h) /\ res[h].buffer = NoBuffer
  /\ \E d \in Decoded(res[h]) : Copy(h, Load(res[h], d), n)
  /\ at' = IF res[h].entry \in BuiltIn THEN at ELSE [at EXCEPT ![res[h].by] = Elsewhere]
  /\ UNCHANGED <<toc, locate>>

LaterRead(h, n) ==
  /\ Called(h) /\ res[h].buffer # NoBuffer
  /\ Copy(h, res[h], n)
  /\ UNCHANGED <<at, toc, locate>>

SeekTarget(r, offset, whence) ==
  CASE whence = "start"   -> offset
    [] whence = "current" -> r.cursor + offset
    [] whence = "end"     -> r.final - offset

\* Mutant: only the end is checked.
SeekableBelow(r, to) == to <= r.final

Seekable(r, to) == to >= 0 /\ to <= r.final

Seek(h, offset, whence) ==
  LET to == SeekTarget(res[h], offset, whence)
  IN  /\ Called(h)
      /\ Seekable(res[h], to)
      /\ res' = [res EXCEPT ![h].cursor = to]
      /\ got' = Nothing
      /\ UNCHANGED <<at, toc, locate>>

Close(h) ==
  /\ Called(h)
  /\ res' = [res EXCEPT ![h] = Closed]
  /\ got' = Nothing
  /\ UNCHANGED <<at, toc, locate>>

Whence == {"start", "current", "end"}

Next ==
  \/ \E t \in Thread, n \in Name : LocateBegin(t, n) \/ LocateBuiltIn(t, n)
  \/ \E t \in Thread : LocateToC(t) \/ LocateEnd(t) \/ LocateCopy(t)
  \/ \E t \in Thread, h \in Handle, e \in Entry : Open(t, h, e)
  \/ \E h \in Handle, n \in 0 .. MaxRead : FirstRead(h, n) \/ LaterRead(h, n)
  \/ \E h \in Handle, offset \in -MaxRead .. MaxRead, whence \in Whence : Seek(h, offset, whence)
  \/ \E h \in Handle : Close(h)

Spec == Init /\ [][Next]_vars

-----------------------------------------------------------------------------
\* What a Read copies are bytes of the resource that was opened, although all of a
\* thread's resources share one handle and fetch their bytes late (Open, Read).
OwnContent == got.count > 0 => got.content = got.of

\* Locate returns NULL only for a name that is not in its storage, and otherwise the
\* entry kept under the name ("returns NULL if it can't handle the storage or if the
\* resource can't be found in this storage").
LocateFinds ==
  \A t \in Thread :
    pc[t] = "located" =>
      IF answer[t] = Null THEN Stored(want[t], InFile) = {}
                          ELSE NameOf[answer[t]] = want[t]

\* The bundle keeps what a resource type promises: handles are independent of each other.
Promised == INSTANCE ResourceReader WITH
  res <- [h \in Handle |-> [entry |-> res[h].entry, cursor |-> res[h].cursor]]
ImplementsResourceReader == Promised!Spec
=============================================================================
