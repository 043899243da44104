--------------------------- MODULE ScrollRegistry ---------------------------
(***************************************************************************)
(* The registry of scroll objects and their binders                        *)
(* (src/include/Scroll/ScrollBase.h).                                      *)
(*                                                                         *)
(* A binder makes the objects of one C++ class. Every object is in two     *)
(* linked lists of the game: mstObjectList, where the objects of a binder  *)
(* stand together, from its mpoFirstObject to its mpoLastObject, and       *)
(* mstObjectChronoList, in order of creation. A linked list is the         *)
(* sequence of its objects. Every object here has FlagRunTime, as          *)
(* Scroll::CreateObject and the creation event give it.                    *)
(***************************************************************************)
EXTENDS Integers, Sequences, SequencesExt

CONSTANTS
  Models,        \* the config sections that objects are created from
  Binders,       \* the classes bound with ScrollBindObject
  DefaultBinder, \* the binder of ScrollObject itself
  NoBinder,
  Lineage,       \* Models -> the section, its parent, its parent's parent, ...
  BoundTo,       \* spstTable: a bound section -> its binder
  MaxObjects     \* bound: objects created in one run

ASSUME RegistryAssumption ==
  /\ DefaultBinder \in Binders /\ NoBinder \notin Binders
  /\ DOMAIN Lineage = Models 
  /\ \A m \in Models : Len(Lineage[m]) \in Nat /\ DOMAIN Lineage[m] = 1..Len(Lineage[m])
  /\ \A s \in DOMAIN BoundTo : BoundTo[s] \in Binders
  /\ MaxObjects \in Nat \ {0}

Object   == 1..MaxObjects   \* in order of creation
NoObject == 0

\* ScrollObjectBinderBase::GetBinder: the binder of the nearest bound ancestor.
GetBinder(m, allowDefault) ==
  LET bound == {i \in DOMAIN Lineage[m] : Lineage[m][i] \in DOMAIN BoundTo}
  IN  IF bound # {} THEN BoundTo[Lineage[m][Min(bound)]]
      ELSE IF allowDefault THEN DefaultBinder ELSE NoBinder

-----------------------------------------------------------------------------
EmptyRegistry ==
  [ list   |-> <<>>, chrono |-> <<>>,
    first  |-> [b \in Binders |-> NoObject],
    last   |-> [b \in Binders |-> NoObject] ]

Place(s, o) == CHOOSE i \in 1..Len(s) : s[i] = o

\* ScrollBase::GetNextObject and GetPreviousObject, along either list.
GetNextObject(s, o) ==
  IF o = NoObject THEN (IF s = <<>> THEN NoObject ELSE Head(s))
  ELSE IF Place(s, o) = Len(s) THEN NoObject ELSE s[Place(s, o) + 1]

GetPreviousObject(s, o) ==
  IF o = NoObject THEN (IF s = <<>> THEN NoObject ELSE Last(s))
  ELSE IF Place(s, o) = 1 THEN NoObject ELSE s[Place(s, o) - 1]

\* The same within a binder, where the typed GetNextObject<O> stops.
BinderNext(reg, b, o) ==
  IF o = NoObject THEN reg.first[b]
  ELSE IF o = reg.last[b] THEN NoObject
  ELSE GetNextObject(reg.list, o)

BinderPrevious(reg, b, o) ==
  IF o = NoObject THEN reg.last[b]
  ELSE IF o = reg.first[b] THEN NoObject
  ELSE GetPreviousObject(reg.list, o)

-----------------------------------------------------------------------------
\* Mutants.
LinkAtEnd(reg, b, o) ==
  [ reg EXCEPT !.list   = Append(@, o),
               !.chrono = Append(@, o),
               !.first[b] = IF @ = NoObject THEN o ELSE @,
               !.last[b]  = o ]

\* ScrollObjectBinderBase::CreateObject: a binder's first object goes to the end,
\* another one right after its last.
Link(reg, b, o) ==
  LET opens == reg.first[b] = NoObject
  IN  [ list   |-> IF opens THEN Append(reg.list, o)
                   ELSE InsertAt(reg.list, Place(reg.list, reg.last[b]) + 1, o),
        chrono |-> Append(reg.chrono, o),
        first  |-> IF opens THEN [reg.first EXCEPT ![b] = o] ELSE reg.first,
        last   |-> [reg.last EXCEPT ![b] = o] ]

\* ScrollObjectBinderBase::DeleteObject: the ends of the binder's segment move off
\* the object before the lists let it go.
Unlink(reg, b, o) ==
  [ list   |-> RemoveAt(reg.list, Place(reg.list, o)),
    chrono |-> RemoveAt(reg.chrono, Place(reg.chrono, o)),
    first  |-> IF o = reg.first[b] THEN [reg.first EXCEPT ![b] = BinderNext(reg, b, o)] ELSE reg.first,
    last   |-> IF o = reg.last[b] THEN [reg.last EXCEPT ![b] = BinderPrevious(reg, b, o)] ELSE reg.last ]

Registered(reg) == ToSet(reg.chrono)

=============================================================================
