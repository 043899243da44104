--------------------------- MODULE ResourceReader ---------------------------
(***************************************************************************)
(* What a resource type promises its callers: a handle stands for one      *)
(* resource, a read returns that resource's bytes from the handle's own    *)
(* cursor, and the handles do not disturb each other.                      *)
(***************************************************************************)
EXTENDS Integers

CONSTANTS
  Handle,    \* the handles a caller may hold
  Entry,     \* the resources
  Final      \* Final[e]: the size of resource e

VARIABLES
  res,       \* for each handle its resource and its cursor
  got        \* what a read returned, if the last call was one

vars == <<res, got>>

Closed  == [entry |-> 0, cursor |-> 0]
Nothing == [of |-> 0, content |-> 0, from |-> 0, count |-> 0]

Init == res = [h \in Handle |-> Closed] /\ got = Nothing

Open(h, e) ==
  /\ res[h] = Closed
  /\ res' = [res EXCEPT ![h] = [entry |-> e, cursor |-> 0]]
  /\ got' = Nothing

Seek(h, to) ==
  /\ res[h] # Closed
  /\ to \in 0 .. Final[res[h].entry]
  /\ res' = [res EXCEPT ![h].cursor = to]
  /\ got' = Nothing

\* A read of some bytes, all of them there.
Read(h, count) ==
  /\ res[h] # Closed
  /\ res[h].cursor + count <= Final[res[h].entry]
  /\ res' = [res EXCEPT ![h].cursor = @ + count]
  /\ got' = [of |-> res[h].entry, content |-> res[h].entry, from |-> res[h].cursor, count |-> count]

Close(h) ==
  /\ res[h] # Closed
  /\ res' = [res EXCEPT ![h] = Closed]
  /\ got' = Nothing

\* A call that has nothing to do with open resources, such as Locate.
Other == got' = Nothing /\ UNCHANGED res

Next ==
  \/ Other
  \/ \E h \in Handle, e \in Entry : Open(h, e)
  \/ \E h \in Handle, e \in Entry : \E n \in 0 .. Final[e] : Seek(h, n) \/ Read(h, n)
  \/ \E h \in Handle : Close(h)

Spec == Init /\ [][Next]_vars
=============================================================================
