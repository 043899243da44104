-------------------------- MODULE ScrollLoopProofs --------------------------
(***************************************************************************)
(* Theorems about ScrollLoop, for any models, binders and number of        *)
(* objects and calls, when no callback inside a walk starts, stops or      *)
(* pauses the game.                                                        *)
(*                                                                         *)
(* IInv says of the calls in progress what each stands at (One), what two  *)
(* of them mean to each other (Apart), and that the lock and the deletion  *)
(* mark are what they say; and of the registry that its two lists hold the *)
(* same objects, and a binder's objects in one segment, in the same order. *)
(* No call stands at a deleted object.                                     *)
(*                                                                         *)
(* WalkInv adds where the game's own walks run (Nesting), and what a walk  *)
(* under way has done to the objects it has passed and not to those it     *)
(* will come to (PauseInv, StartInv).  Marked adds which creation each     *)
(* mark of the calls in progress belongs to.                               *)
(***************************************************************************)
EXTENDS ScrollLoop, FiniteSetTheorems, SequenceTheorems, WellFoundedInduction, TLAPS

\* Each object of a list once.
Distinct(s) == \A i, j \in DOMAIN s : s[i] = s[j] => i = j

\* The objects of class b are those from the binder's first to its last.
Segment(r, cl, b) ==
  \/ /\ r.first[b] = NoObject /\ r.last[b] = NoObject
     /\ \A k \in DOMAIN r.list : cl[r.list[k]] # b
  \/ \E i, j \in DOMAIN r.list :
       /\ i <= j /\ r.first[b] = r.list[i] /\ r.last[b] = r.list[j]
       /\ \A k \in DOMAIN r.list : cl[r.list[k]] = b <=> k \in i..j

RegistryState ==
  [ list : Seq(Object), chrono : Seq(Object),
    first : [Binders -> Object \cup {NoObject}], last : [Binders -> Object \cup {NoObject}] ]

\* The objects of a class stand in s in the order in which they stand in u.
SameOrder(s, u, cl) ==
  \A i, j \in DOMAIN s, x, y \in DOMAIN u :
    s[i] = u[x] /\ s[j] = u[y] /\ cl[s[i]] = cl[s[j]] /\ i < j => x < y

Registry(r, cl) ==
  /\ r \in RegistryState
  /\ Distinct(r.list) /\ Distinct(r.chrono)
  /\ ToSet(r.list) = Registered(r) /\ Len(r.list) = Len(r.chrono)
  /\ SameOrder(r.list, r.chrono, cl)
  /\ \A b \in Binders : Segment(r, cl, b)

-----------------------------------------------------------------------------
(* Sequences *)

LEMMA InsertAtIs ==
  ASSUME NEW S, NEW s \in Seq(S), NEW e \in S, NEW p \in 1..Len(s) + 1
  PROVE  /\ InsertAt(s, p, e) \in Seq(S)
         /\ Len(InsertAt(s, p, e)) = Len(s) + 1
         /\ \A k \in 1..Len(s) + 1 :
              InsertAt(s, p, e)[k] = IF k < p THEN s[k] ELSE IF k = p THEN e ELSE s[k - 1]
<1> DEFINE a == SubSeq(s, 1, p - 1)
           b == SubSeq(s, p, Len(s))
           c == a \o <<e>>
<1>1. a \in Seq(S) /\ Len(a) = p - 1 /\ \A k \in 1..p - 1 : a[k] = s[k]
  OBVIOUS
<1>2. b \in Seq(S) /\ Len(b) = Len(s) - p + 1 /\ \A k \in 1..Len(s) - p + 1 : b[k] = s[p + k - 1]
  OBVIOUS
<1>3. InsertAt(s, p, e) = c \o b
  BY DEF InsertAt
<1> HIDE DEF a, b
<1>4. c \in Seq(S) /\ Len(c) = p /\ \A k \in 1..p : c[k] = IF k < p THEN s[k] ELSE e
  BY <1>1
<1> HIDE DEF c
<1>5. c \in Seq(S) /\ b \in Seq(S)
  BY <1>2, <1>4
<1>6. /\ c \o b \in Seq(S) /\ Len(c \o b) = Len(s) + 1
      /\ \A k \in 1..Len(s) + 1 : (c \o b)[k] = IF k <= p THEN c[k] ELSE b[k - p]
  <2>1. /\ c \o b \in Seq(S) /\ Len(c \o b) = Len(c) + Len(b)
        /\ \A k \in 1..Len(c) + Len(b) : (c \o b)[k] = IF k <= Len(c) THEN c[k] ELSE b[k - Len(c)]
    BY <1>5, ConcatProperties
  <2>2. Len(c) = p /\ Len(c) + Len(b) = Len(s) + 1
    BY <1>2, <1>4
  <2> QED BY <2>1, <2>2
<1>7. ASSUME NEW k \in 1..Len(s) + 1
      PROVE  (c \o b)[k] = IF k < p THEN s[k] ELSE IF k = p THEN e ELSE s[k - 1]
  <2>1. CASE k <= p
    <3>1. k \in 1..p
      BY <2>1
    <3> QED BY <1>4, <1>6, <2>1, <3>1
  <2>2. CASE k > p
    <3> DEFINE m == k - p
    <3>1. m \in 1..Len(s) - p + 1 /\ p + m - 1 = k - 1 /\ ~(k <= p) /\ ~(k < p) /\ k # p
      BY <2>2
    <3>2. (c \o b)[k] = b[m]
      BY <1>6, <3>1
    <3> HIDE DEF m
    <3>3. b[m] = s[p + m - 1]
      BY <1>2, <3>1
    <3>4. b[m] = s[k - 1]
      BY <3>1, <3>3, Zenon
    <3> QED BY <3>1, <3>2, <3>4
  <2>3. k <= p \/ k > p
    OBVIOUS
  <2> QED BY <2>1, <2>2, <2>3, Zenon
<1> QED BY <1>3, <1>6, <1>7

LEMMA RemoveAtIs ==
  ASSUME NEW S, NEW s \in Seq(S), NEW p \in 1..Len(s)
  PROVE  /\ RemoveAt(s, p) \in Seq(S)
         /\ Len(RemoveAt(s, p)) = Len(s) - 1
         /\ \A k \in 1..Len(s) - 1 : RemoveAt(s, p)[k] = IF k < p THEN s[k] ELSE s[k + 1]
<1> DEFINE a == SubSeq(s, 1, p - 1)
           b == SubSeq(s, p + 1, Len(s))
<1>1. a \in Seq(S) /\ Len(a) = p - 1 /\ \A k \in 1..p - 1 : a[k] = s[k]
  OBVIOUS
<1>2. b \in Seq(S) /\ Len(b) = Len(s) - p /\ \A k \in 1..Len(s) - p : b[k] = s[p + k]
  OBVIOUS
<1>3. RemoveAt(s, p) = a \o b
  BY DEF RemoveAt
<1> HIDE DEF a, b
<1>4. a \in Seq(S) /\ b \in Seq(S)
  BY <1>1, <1>2
<1>5. /\ a \o b \in Seq(S) /\ Len(a \o b) = Len(s) - 1
      /\ \A k \in 1..Len(s) - 1 : (a \o b)[k] = IF k < p THEN a[k] ELSE b[k - p + 1]
  <2>1. /\ a \o b \in Seq(S) /\ Len(a \o b) = Len(a) + Len(b)
        /\ \A k \in 1..Len(a) + Len(b) : (a \o b)[k] = IF k <= Len(a) THEN a[k] ELSE b[k - Len(a)]
    BY <1>4, ConcatProperties
  <2>2. Len(a) = p - 1 /\ Len(a) + Len(b) = Len(s) - 1
    BY <1>1, <1>2
  <2> QED BY <2>1, <2>2
<1>6. ASSUME NEW k \in 1..Len(s) - 1 PROVE (a \o b)[k] = IF k < p THEN s[k] ELSE s[k + 1]
  <2>1. CASE k < p
    <3>1. k \in 1..p - 1
      BY <2>1
    <3> QED BY <1>1, <1>5, <2>1, <3>1
  <2>2. CASE k >= p
    <3> DEFINE m == k - p + 1
    <3>1. m \in 1..Len(s) - p /\ p + m = k + 1 /\ ~(k < p)
      BY <2>2
    <3>2. (a \o b)[k] = b[m]
      BY <1>5, <3>1
    <3> HIDE DEF m
    <3>3. b[m] = s[p + m]
      BY <1>2, <3>1
    <3>4. b[m] = s[k + 1]
      BY <3>1, <3>3, Zenon
    <3> QED BY <3>1, <3>2, <3>4
  <2>3. k < p \/ k >= p
    OBVIOUS
  <2> QED BY <2>1, <2>2, <2>3, Zenon
<1> QED BY <1>3, <1>5, <1>6

LEMMA PlaceIs ==
  ASSUME NEW S, NEW s \in Seq(S), NEW o \in ToSet(s)
  PROVE  Place(s, o) \in 1..Len(s) /\ s[Place(s, o)] = o
<1>1. \E i \in 1..Len(s) : s[i] = o
  BY DEF ToSet
<1> QED BY <1>1 DEF Place

LEMMA PushIs ==
  ASSUME NEW S, NEW s \in Seq(S), NEW e \in S
  PROVE  /\ <<e>> \o s \in Seq(S)
         /\ Len(<<e>> \o s) = Len(s) + 1
         /\ \A k \in 1..Len(s) + 1 : (<<e>> \o s)[k] = IF k = 1 THEN e ELSE s[k - 1]
OBVIOUS

LEMMA PopIs ==
  ASSUME NEW S, NEW s \in Seq(S), s # <<>>
  PROVE  /\ Head(s) = s[1] /\ Head(s) \in S
         /\ Tail(s) \in Seq(S) /\ Len(Tail(s)) = Len(s) - 1 /\ 1 \in DOMAIN s
         /\ \A k \in 1..Len(s) - 1 : Tail(s)[k] = s[k + 1]
OBVIOUS

LEMMA TwoPushed ==
  ASSUME NEW S, NEW s \in Seq(S), NEW a \in S, NEW b \in S
  PROVE  <<a, b>> \o s = <<a>> \o (<<b>> \o s)
<1>1. <<a>> \in Seq(S) /\ <<b>> \in Seq(S) /\ <<a, b>> \in Seq(S)
  OBVIOUS
<1>2. <<a, b>> = Append(<<a>>, b)
  OBVIOUS
<1>3. <<a, b>> = <<a>> \o <<b>>
  BY <1>1, <1>2, AppendIsConcat
<1> QED BY <1>1, <1>3, ConcatAssociative
-----------------------------------------------------------------------------
(* The registry *)

\* The classes of the listed objects are all that a registry depends on.
LEMMA RegistryCongruence ==
  ASSUME NEW r, NEW cl, NEW cl2, Registry(r, cl), \A o \in Registered(r) : cl2[o] = cl[o]
  PROVE  Registry(r, cl2)
<1>1. \A k \in DOMAIN r.list : cl2[r.list[k]] = cl[r.list[k]]
  BY DEF Registry, ToSet
<1>2. SameOrder(r.list, r.chrono, cl2)
  BY <1>1 DEF Registry, SameOrder
<1> QED BY <1>1, <1>2 DEF Registry, Segment

\* What a list is after it takes in o at place p, or lets go of its object at place p.
Inserted(s, t, p, o) ==
  /\ t \in Seq(Object) /\ Len(t) = Len(s) + 1
  /\ \A k \in 1..Len(s) + 1 : t[k] = IF k < p THEN s[k] ELSE IF k = p THEN o ELSE s[k - 1]

Removed(s, t, p) ==
  /\ t \in Seq(Object) /\ Len(t) = Len(s) - 1
  /\ \A k \in 1..Len(s) - 1 : t[k] = IF k < p THEN s[k] ELSE s[k + 1]

LEMMA InsertedKeeps ==
  ASSUME NEW s \in Seq(Object), NEW t, NEW p \in 1..Len(s) + 1, NEW o \in Object,
         Inserted(s, t, p, o), Distinct(s), o \notin ToSet(s)
  PROVE  Distinct(t) /\ ToSet(t) = ToSet(s) \cup {o}
<1>1. DOMAIN s = 1..Len(s) /\ DOMAIN t = 1..Len(s) + 1 /\ Len(s) \in Nat
  BY DEF Inserted
<1>2. \A k \in DOMAIN s : s[k] # o
  BY DEF ToSet
<1>3. \A k \in DOMAIN t : k < p => k \in DOMAIN s /\ t[k] = s[k]
  BY <1>1 DEF Inserted
<1>4. \A k \in DOMAIN t : k > p => k - 1 \in DOMAIN s /\ t[k] = s[k - 1]
  BY <1>1 DEF Inserted
<1>5. p \in DOMAIN t /\ t[p] = o
  BY <1>1 DEF Inserted
<1>6. Distinct(t)
  BY <1>1, <1>2, <1>3, <1>4, <1>5 DEF Distinct
<1>7. \A k \in DOMAIN s : k < p => k \in DOMAIN t /\ t[k] = s[k]
  BY <1>1 DEF Inserted
<1>8. \A k \in DOMAIN s : k >= p => k + 1 \in DOMAIN t /\ t[k + 1] = s[k]
  BY <1>1 DEF Inserted
<1>9. ToSet(t) \subseteq ToSet(s) \cup {o}
  BY <1>1, <1>3, <1>4, <1>5 DEF ToSet
<1>10. ToSet(s) \cup {o} \subseteq ToSet(t)
  BY <1>1, <1>5, <1>7, <1>8 DEF ToSet
<1> QED BY <1>6, <1>9, <1>10

LEMMA RemovedKeeps ==
  ASSUME NEW s \in Seq(Object), NEW t, NEW p \in 1..Len(s), Removed(s, t, p), Distinct(s)
  PROVE  Distinct(t) /\ ToSet(t) = ToSet(s) \ {s[p]}
<1>1. DOMAIN s = 1..Len(s) /\ DOMAIN t = 1..Len(s) - 1 /\ Len(s) \in Nat
  BY DEF Removed
<1>2. \A k \in DOMAIN t : k < p => k \in DOMAIN s /\ t[k] = s[k]
  BY <1>1 DEF Removed
<1>3. \A k \in DOMAIN t : k >= p => k + 1 \in DOMAIN s /\ t[k] = s[k + 1]
  BY <1>1 DEF Removed
<1>4. Distinct(t)
  BY <1>1, <1>2, <1>3 DEF Distinct
<1>5. \A k \in DOMAIN s : k < p => k \in DOMAIN t /\ t[k] = s[k]
  BY <1>1 DEF Removed
<1>6. \A k \in DOMAIN s : k > p => k - 1 \in DOMAIN t /\ t[k - 1] = s[k]
  BY <1>1 DEF Removed
<1>7. ToSet(t) \subseteq ToSet(s) \ {s[p]}
  BY <1>1, <1>2, <1>3 DEF ToSet, Distinct
<1>8. ToSet(s) \ {s[p]} \subseteq ToSet(t)
  BY <1>1, <1>5, <1>6 DEF ToSet
<1> QED BY <1>4, <1>7, <1>8

LEMMA InsertedOrder ==
  ASSUME NEW s \in Seq(Object), NEW u \in Seq(Object), NEW t, NEW v, NEW cl, NEW o \in Object,
         NEW p \in 1..Len(s) + 1, Inserted(s, t, p, o), Inserted(u, v, Len(u) + 1, o),
         o \notin ToSet(s), o \notin ToSet(u), SameOrder(s, u, cl),
         \A k \in DOMAIN s : k >= p => cl[s[k]] # cl[o]
  PROVE  SameOrder(t, v, cl)
<1>1. /\ DOMAIN s = 1..Len(s) /\ DOMAIN t = 1..Len(s) + 1 /\ Len(s) \in Nat
      /\ DOMAIN u = 1..Len(u) /\ DOMAIN v = 1..Len(u) + 1 /\ Len(u) \in Nat
  BY DEF Inserted
<1>2. \A k \in DOMAIN t : /\ k < p => k \in DOMAIN s /\ t[k] = s[k]
                          /\ k > p => k - 1 \in DOMAIN s /\ t[k] = s[k - 1]
  BY <1>1 DEF Inserted
<1>3. \A k \in DOMAIN v : k # Len(u) + 1 => k \in DOMAIN u /\ v[k] = u[k]
  BY <1>1 DEF Inserted
<1>4. t[p] = o /\ v[Len(u) + 1] = o /\ p \in DOMAIN t
  BY <1>1 DEF Inserted
<1>5. (\A k \in DOMAIN s : s[k] # o) /\ (\A k \in DOMAIN u : u[k] # o)
  BY DEF ToSet
<1>6. SUFFICES ASSUME NEW i \in DOMAIN t, NEW j \in DOMAIN t, NEW x \in DOMAIN v, NEW y \in DOMAIN v,
                      t[i] = v[x], t[j] = v[y], cl[t[i]] = cl[t[j]], i < j
               PROVE  x < y
  BY DEF SameOrder
<1>7. CASE j = p
  <2>1. y = Len(u) + 1 /\ x # Len(u) + 1
    BY <1>1, <1>2, <1>3, <1>4, <1>5, <1>6, <1>7
  <2> QED BY <1>1, <2>1
<1>8. CASE i = p
  <2>1. j - 1 \in DOMAIN s /\ t[j] = s[j - 1] /\ j - 1 >= p
    BY <1>1, <1>2, <1>6, <1>8
  <2> QED BY <1>4, <1>6, <1>8, <2>1
<1>9. CASE i # p /\ j # p
  <2> DEFINE from(k) == IF k < p THEN k ELSE k - 1
  <2>1. /\ from(i) \in DOMAIN s /\ t[i] = s[from(i)] /\ from(j) \in DOMAIN s /\ t[j] = s[from(j)]
        /\ from(i) < from(j)
    BY <1>1, <1>2, <1>6, <1>9
  <2> HIDE DEF from
  <2>2. x \in DOMAIN u /\ v[x] = u[x] /\ y \in DOMAIN u /\ v[y] = u[y]
    BY <1>3, <1>4, <1>5, <1>6, <2>1
  <2> QED BY <1>6, <2>1, <2>2 DEF SameOrder
<1> QED BY <1>7, <1>8, <1>9

LEMMA RemovedOrder ==
  ASSUME NEW s \in Seq(Object), NEW u \in Seq(Object), NEW t, NEW v, NEW cl,
         NEW p \in 1..Len(s), Removed(s, t, p), NEW q \in 1..Len(u), Removed(u, v, q),
         SameOrder(s, u, cl)
  PROVE  SameOrder(t, v, cl)
<1>1. /\ DOMAIN s = 1..Len(s) /\ DOMAIN t = 1..Len(s) - 1 /\ Len(s) \in Nat
      /\ DOMAIN u = 1..Len(u) /\ DOMAIN v = 1..Len(u) - 1 /\ Len(u) \in Nat
  BY DEF Removed
<1> DEFINE up(k, m) == IF k < m THEN k ELSE k + 1
<1>2. \A k \in DOMAIN t : up(k, p) \in DOMAIN s /\ t[k] = s[up(k, p)]
  BY <1>1 DEF Removed
<1>3. \A k \in DOMAIN v : up(k, q) \in DOMAIN u /\ v[k] = u[up(k, q)]
  BY <1>1 DEF Removed
<1>4. ASSUME NEW i \in DOMAIN t, NEW j \in DOMAIN t, NEW x \in DOMAIN v, NEW y \in DOMAIN v,
             t[i] = v[x], t[j] = v[y], cl[t[i]] = cl[t[j]], i < j
      PROVE  x < y
  <2>1. up(i, p) < up(j, p)
    BY <1>1, <1>4
  <2>2. up(x, q) < up(y, q) => x < y
    BY <1>1
  <2> HIDE DEF up
  <2>3. up(x, q) < up(y, q)
    BY <1>2, <1>3, <1>4, <2>1 DEF SameOrder
  <2> QED BY <2>2, <2>3
<1> QED BY <1>4 DEF SameOrder

LEMMA LinkKeeps ==
  ASSUME NEW r, NEW cl, Registry(r, cl), NEW o \in Object, o \notin Registered(r),
         cl[o] \in Binders
  PROVE  /\ Registry(Link(r, cl[o], o), cl)
         /\ Registered(Link(r, cl[o], o)) = Registered(r) \cup {o}
         /\ \E p \in 1..Len(r.list) + 1 : Inserted(r.list, Link(r, cl[o], o).list, p, o)
<1> DEFINE b == cl[o]
           n == Link(r, b, o)
           s == r.list
           t == n.list
           opens == r.first[b] = NoObject
           p == IF opens THEN Len(s) + 1 ELSE Place(s, r.last[b]) + 1
<1>1. /\ s \in Seq(Object) /\ r.chrono \in Seq(Object)
      /\ r.first \in [Binders -> Object \cup {NoObject}] /\ r.last \in [Binders -> Object \cup {NoObject}]
      /\ Distinct(s) /\ Distinct(r.chrono) /\ ToSet(s) = Registered(r)
      /\ Len(s) = Len(r.chrono) /\ SameOrder(s, r.chrono, cl)
      /\ \A c \in Binders : Segment(r, cl, c)
  BY DEF Registry, RegistryState
<1>2. DOMAIN s = 1..Len(s) /\ Len(s) \in Nat /\ NoObject \notin Object
  BY <1>1 DEF Object, NoObject
<1>3. ~opens => /\ p \in Nat /\ p - 1 \in DOMAIN s /\ s[p - 1] = r.last[b]
                /\ \E i \in DOMAIN s : i <= p - 1 /\ r.first[b] = s[i]
                      /\ \A k \in DOMAIN s : cl[s[k]] = b <=> k \in i..p - 1
  <2>1. SUFFICES ASSUME ~opens
                 PROVE  /\ p \in Nat /\ p - 1 \in DOMAIN s /\ s[p - 1] = r.last[b]
                        /\ \E i \in DOMAIN s : i <= p - 1 /\ r.first[b] = s[i]
                              /\ \A k \in DOMAIN s : cl[s[k]] = b <=> k \in i..p - 1
    OBVIOUS
  <2>2. PICK i, j \in DOMAIN s : /\ i <= j /\ r.first[b] = s[i] /\ r.last[b] = s[j]
                                 /\ \A k \in DOMAIN s : cl[s[k]] = b <=> k \in i..j
    BY <1>1, <2>1 DEF Segment
  <2>3. r.last[b] \in ToSet(s)
    BY <2>2 DEF ToSet
  <2>4. Place(s, r.last[b]) \in 1..Len(s) /\ s[Place(s, r.last[b])] = r.last[b]
    BY <1>1, <2>3, PlaceIs
  <2>5. Place(s, r.last[b]) = j
    BY <1>1, <1>2, <2>2, <2>4 DEF Distinct
  <2>6. p \in Nat /\ p - 1 = j
    BY <1>2, <2>1, <2>5
  <2> QED BY <2>2, <2>6
<1>4. p \in 1..Len(s) + 1
  <2>1. CASE opens
    BY <1>2, <2>1
  <2>2. CASE ~opens
    <3> HIDE DEF p
    <3> QED BY <1>2, <1>3, <2>2
  <2> QED BY <2>1, <2>2
<1>5. Inserted(s, t, p, o)
  <2>1. CASE opens
    BY <1>1, <1>2, <2>1 DEF Inserted, Link
  <2>2. CASE ~opens
    <3>1. t = InsertAt(s, p, o)
      BY <2>2 DEF Link
    <3>2. /\ InsertAt(s, p, o) \in Seq(Object) /\ Len(InsertAt(s, p, o)) = Len(s) + 1
          /\ \A k \in 1..Len(s) + 1 :
               InsertAt(s, p, o)[k] = IF k < p THEN s[k] ELSE IF k = p THEN o ELSE s[k - 1]
      <4>1. s \in Seq(Object)
        BY <1>1
      <4> HIDE DEF s, p
      <4> QED BY <1>4, <4>1, InsertAtIs
    <3> HIDE DEF t, p
    <3> QED BY <3>1, <3>2 DEF Inserted
  <2> QED BY <2>1, <2>2
<1>6. Inserted(r.chrono, n.chrono, Len(r.chrono) + 1, o)
  BY <1>1 DEF Inserted, Link
<1>7. o \notin ToSet(s) /\ o \notin ToSet(r.chrono)
  BY <1>1 DEF Registered
<1>8. Distinct(t) /\ ToSet(t) = ToSet(s) \cup {o}
  <2> HIDE DEF t, p
  <2> QED BY <1>1, <1>4, <1>5, <1>7, InsertedKeeps
<1>9. Distinct(n.chrono) /\ ToSet(n.chrono) = ToSet(r.chrono) \cup {o}
  <2> HIDE DEF n
  <2>1. Len(r.chrono) + 1 \in 1..Len(r.chrono) + 1
    BY <1>1
  <2> QED BY <1>1, <1>6, <1>7, <2>1, InsertedKeeps
<1>10. /\ n.first = IF opens THEN [r.first EXCEPT ![b] = o] ELSE r.first
       /\ n.last = [r.last EXCEPT ![b] = o]
       /\ DOMAIN n = {"list", "chrono", "first", "last"}
  BY DEF Link
<1>11. n \in RegistryState
  <2>1. t \in Seq(Object) /\ n.chrono \in Seq(Object)
    BY <1>5, <1>6 DEF Inserted
  <2>2. n.first \in [Binders -> Object \cup {NoObject}] /\ n.last \in [Binders -> Object \cup {NoObject}]
    BY <1>1, <1>10
  <2>3. n = [list |-> n.list, chrono |-> n.chrono, first |-> n.first, last |-> n.last]
    BY DEF Link
  <2> HIDE DEF n
  <2> QED BY <2>1, <2>2, <2>3 DEF RegistryState
<1> HIDE DEF n, p
<1>12. DOMAIN t = 1..Len(s) + 1
  BY <1>2, <1>5 DEF Inserted
<1>13. Segment(n, cl, b)
  <2>1. CASE opens
    <3>1. p = Len(s) + 1 /\ n.first[b] = o /\ n.last[b] = o
      BY <1>1, <1>10, <2>1 DEF p
    <3>2. t[p] = o /\ \A k \in DOMAIN t : k # p => k \in DOMAIN s /\ t[k] = s[k]
      BY <1>2, <1>4, <1>5, <1>12, <3>1 DEF Inserted
    <3>3. \A k \in DOMAIN s : cl[s[k]] # b
      BY <1>1, <1>2, <2>1 DEF Segment
    <3>4. \A k \in DOMAIN t : cl[t[k]] = b <=> k \in p..p
      BY <1>4, <1>12, <3>2, <3>3
    <3> QED BY <1>4, <1>12, <3>1, <3>2, <3>4 DEF Segment
  <2>2. CASE ~opens
    <3>1. PICK i \in DOMAIN s : i <= p - 1 /\ r.first[b] = s[i]
                     /\ \A k \in DOMAIN s : cl[s[k]] = b <=> k \in i..p - 1
      BY <1>3, <2>2
    <3>2. n.first[b] = r.first[b] /\ n.last[b] = o
      BY <1>1, <1>10, <2>2
    <3>3. t[p] = o /\ i \in DOMAIN t /\ t[i] = s[i] /\ p \in DOMAIN t /\ i <= p
      BY <1>2, <1>4, <1>5, <1>12, <3>1 DEF Inserted
    <3>4. ASSUME NEW k \in DOMAIN t PROVE cl[t[k]] = b <=> k \in i..p
      <4>1. CASE k < p
        BY <1>2, <1>4, <1>5, <1>12, <3>1, <4>1 DEF Inserted
      <4>2. CASE k = p
        BY <1>2, <1>4, <3>3, <3>1, <4>2
      <4>3. CASE k > p
        <5>1. k - 1 \in DOMAIN s /\ t[k] = s[k - 1] /\ k - 1 \notin i..p - 1 /\ k \notin i..p
          BY <1>2, <1>4, <1>5, <1>12, <3>1, <4>3 DEF Inserted
        <5> QED BY <3>1, <5>1
      <4> QED BY <1>2, <1>4, <1>12, <4>1, <4>2, <4>3
    <3> QED BY <3>2, <3>1, <3>3, <3>4 DEF Segment
  <2> QED BY <2>1, <2>2
<1>14. ASSUME NEW c \in Binders, c # b PROVE Segment(n, cl, c)
  <2>1. n.first[c] = r.first[c] /\ n.last[c] = r.last[c]
    BY <1>1, <1>10, <1>14
  <2>2. CASE r.first[c] = NoObject
    <3>1. r.last[c] = NoObject /\ \A k \in DOMAIN s : cl[s[k]] # c
      BY <1>1, <1>2, <2>2 DEF Segment
    <3>2. \A k \in DOMAIN t : t[k] \in ToSet(s) \cup {o}
      BY <1>8 DEF ToSet
    <3>3. \A k \in DOMAIN t : cl[t[k]] # c
      BY <1>14, <3>1, <3>2 DEF ToSet
    <3> QED BY <2>1, <2>2, <3>1, <3>3 DEF Segment
  <2>3. CASE r.first[c] # NoObject
    <3>1. PICK i, j \in DOMAIN s : /\ i <= j /\ r.first[c] = s[i] /\ r.last[c] = s[j]
                                   /\ \A k \in DOMAIN s : cl[s[k]] = c <=> k \in i..j
      BY <1>1, <2>3 DEF Segment
    <3>2. ~(i < p /\ p <= j)
      <4>1. SUFFICES ASSUME i < p, p <= j PROVE FALSE
        OBVIOUS
      <4>2. ~opens
        BY <1>2, <1>4, <3>1, <4>1 DEF p
      <4>3. p - 1 \in DOMAIN s /\ cl[s[p - 1]] = b /\ p - 1 \in i..j
        BY <1>2, <1>3, <1>4, <3>1, <4>1, <4>2
      <4> QED BY <1>14, <3>1, <4>3
    <3> DEFINE to(k) == IF k < p THEN k ELSE k + 1
    <3>3. ASSUME NEW k \in DOMAIN s PROVE to(k) \in DOMAIN t /\ t[to(k)] = s[k]
      <4>1. CASE k < p
        BY <1>2, <1>4, <1>5, <1>12, <4>1 DEF Inserted
      <4>2. CASE k >= p
        <5>1. k + 1 \in 1..Len(s) + 1 /\ k + 1 > p /\ (k + 1) - 1 = k
          BY <1>2, <1>4, <4>2
        <5> QED BY <1>5, <1>12, <4>2, <5>1, <1>2, <1>4 DEF Inserted
      <4> QED BY <1>2, <1>4, <4>1, <4>2
    <3>4. to(i) <= to(j)
      BY <1>2, <1>4, <3>1
    <3>5. ASSUME NEW k \in DOMAIN t PROVE cl[t[k]] = c <=> k \in to(i)..to(j)
      <4>1. CASE k < p
        <5>1. k \in DOMAIN s /\ t[k] = s[k]
          BY <1>2, <1>4, <1>5, <1>12, <4>1 DEF Inserted
        <5>2. k \in i..j <=> k \in to(i)..to(j)
          BY <1>2, <1>4, <1>12, <3>1, <3>2, <4>1
        <5> QED BY <3>1, <5>1, <5>2
      <4>2. CASE k = p
        <5>1. t[k] = o /\ k \notin to(i)..to(j)
          BY <1>2, <1>4, <1>5, <1>12, <3>1, <3>2, <4>2 DEF Inserted
        <5> QED BY <1>14, <5>1
      <4>3. CASE k > p
        <5>1. k - 1 \in DOMAIN s /\ t[k] = s[k - 1]
          BY <1>2, <1>4, <1>5, <1>12, <4>3 DEF Inserted
        <5>2. k - 1 \in i..j <=> k \in to(i)..to(j)
          BY <1>2, <1>4, <1>12, <3>1, <3>2, <4>3
        <5> QED BY <3>1, <5>1, <5>2
      <4> QED BY <1>2, <1>4, <1>12, <4>1, <4>2, <4>3
    <3> QED BY <2>1, <3>1, <3>3, <3>4, <3>5 DEF Segment
  <2> QED BY <2>2, <2>3
<1>15. SameOrder(t, n.chrono, cl) /\ Len(t) = Len(n.chrono)
  <2>1. \A k \in DOMAIN s : k >= p => cl[s[k]] # b
    <3>1. CASE opens
      BY <1>2, <3>1 DEF p
    <3>2. CASE ~opens
      BY <1>2, <1>3, <3>2
    <3> QED BY <3>1, <3>2
  <2>2. s \in Seq(Object) /\ r.chrono \in Seq(Object)
    BY <1>1
  <2>3. Len(t) = Len(n.chrono)
    BY <1>1, <1>5, <1>6 DEF Inserted
  <2> HIDE DEF s, t
  <2> QED BY <1>1, <1>4, <1>5, <1>6, <1>7, <2>1, <2>2, <2>3, InsertedOrder
<1>16. Registry(n, cl)
  BY <1>1, <1>8, <1>9, <1>11, <1>13, <1>14, <1>15 DEF Registry, Registered
<1> QED BY <1>4, <1>5, <1>9, <1>16 DEF Registered, n, t, s

LEMMA UnlinkKeeps ==
  ASSUME NEW r, NEW cl, Registry(r, cl), NEW o \in Registered(r), cl[o] \in Binders
  PROVE  /\ Registry(Unlink(r, cl[o], o), cl)
         /\ Registered(Unlink(r, cl[o], o)) = Registered(r) \ {o}
<1> DEFINE b == cl[o]
           n == Unlink(r, b, o)
           s == r.list
           t == n.list
           q == Place(s, o)
           u == Place(r.chrono, o)
<1>1. /\ s \in Seq(Object) /\ r.chrono \in Seq(Object)
      /\ r.first \in [Binders -> Object \cup {NoObject}] /\ r.last \in [Binders -> Object \cup {NoObject}]
      /\ Distinct(s) /\ Distinct(r.chrono) /\ ToSet(s) = Registered(r)
      /\ Len(s) = Len(r.chrono) /\ SameOrder(s, r.chrono, cl)
      /\ \A c \in Binders : Segment(r, cl, c)
  BY DEF Registry, RegistryState
<1>2. DOMAIN s = 1..Len(s) /\ Len(s) \in Nat /\ NoObject \notin Object
  BY <1>1 DEF Object, NoObject
<1>3. q \in 1..Len(s) /\ s[q] = o /\ u \in 1..Len(r.chrono) /\ r.chrono[u] = o
  BY <1>1, PlaceIs DEF Registered
<1>4. o \in Object /\ o # NoObject
  BY <1>1, <1>2, <1>3
<1>5. Removed(s, t, q)
  <2>1. t = RemoveAt(s, q)
    BY DEF Unlink
  <2>2. /\ RemoveAt(s, q) \in Seq(Object) /\ Len(RemoveAt(s, q)) = Len(s) - 1
        /\ \A k \in 1..Len(s) - 1 : RemoveAt(s, q)[k] = IF k < q THEN s[k] ELSE s[k + 1]
    <3> HIDE DEF s, q
    <3> QED BY <1>1, <1>3, RemoveAtIs
  <2> HIDE DEF t, q
  <2> QED BY <2>1, <2>2 DEF Removed
<1>6. Removed(r.chrono, n.chrono, u)
  <2>1. n.chrono = RemoveAt(r.chrono, u)
    BY DEF Unlink
  <2>2. /\ RemoveAt(r.chrono, u) \in Seq(Object) /\ Len(RemoveAt(r.chrono, u)) = Len(r.chrono) - 1
        /\ \A k \in 1..Len(r.chrono) - 1 :
             RemoveAt(r.chrono, u)[k] = IF k < u THEN r.chrono[k] ELSE r.chrono[k + 1]
    <3> HIDE DEF u
    <3> QED BY <1>1, <1>3, RemoveAtIs
  <2> HIDE DEF n, u
  <2> QED BY <2>1, <2>2 DEF Removed
<1>7. Distinct(t) /\ ToSet(t) = ToSet(s) \ {o}
  <2> HIDE DEF t, q
  <2> QED BY <1>1, <1>3, <1>5, RemovedKeeps
<1>8. Distinct(n.chrono) /\ ToSet(n.chrono) = ToSet(r.chrono) \ {o}
  <2> HIDE DEF n, u
  <2> QED BY <1>1, <1>3, <1>6, RemovedKeeps
<1>9. /\ n.first = IF o = r.first[b] THEN [r.first EXCEPT ![b] = BinderNext(r, b, o)] ELSE r.first
      /\ n.last = IF o = r.last[b] THEN [r.last EXCEPT ![b] = BinderPrevious(r, b, o)] ELSE r.last
  BY DEF Unlink
\* Where the binder's segment was, and its ends now.
<1>10. PICK i, j \in DOMAIN s : /\ i <= j /\ r.first[b] = s[i] /\ r.last[b] = s[j]
                                /\ \A k \in DOMAIN s : cl[s[k]] = b <=> k \in i..j
  <2>1. cl[s[q]] = b
    BY <1>3
  <2> QED BY <1>1, <1>2, <1>3, <2>1 DEF Segment
<1>11. q \in i..j /\ (o = r.first[b] <=> q = i) /\ (o = r.last[b] <=> q = j)
  BY <1>1, <1>2, <1>3, <1>10 DEF Distinct
<1>12. BinderNext(r, b, o) = IF q = j THEN NoObject ELSE s[q + 1]
  BY <1>2, <1>3, <1>4, <1>10, <1>11 DEF BinderNext, GetNextObject
<1>13. BinderPrevious(r, b, o) = IF q = i THEN NoObject ELSE s[q - 1]
  BY <1>2, <1>3, <1>4, <1>10, <1>11 DEF BinderPrevious, GetPreviousObject
<1>14. /\ n.first[b] = IF i = j THEN NoObject ELSE IF q = i THEN s[i + 1] ELSE s[i]
       /\ n.last[b] = IF i = j THEN NoObject ELSE IF q = j THEN s[j - 1] ELSE s[j]
  BY <1>1, <1>2, <1>9, <1>10, <1>11, <1>12, <1>13
<1>15. \A c \in Binders \ {b} : n.first[c] = r.first[c] /\ n.last[c] = r.last[c]
  BY <1>1, <1>9
<1>16. n \in RegistryState
  <2>1. t \in Seq(Object) /\ n.chrono \in Seq(Object)
    BY <1>5, <1>6 DEF Removed
  <2>2. n.first[b] \in Object \cup {NoObject} /\ n.last[b] \in Object \cup {NoObject}
    BY <1>1, <1>2, <1>10, <1>11, <1>14
  <2>3. BinderNext(r, b, o) \in Object \cup {NoObject} /\ BinderPrevious(r, b, o) \in Object \cup {NoObject}
    BY <1>1, <1>2, <1>3, <1>10, <1>11, <1>12, <1>13
  <2>4. n.first \in [Binders -> Object \cup {NoObject}] /\ n.last \in [Binders -> Object \cup {NoObject}]
    BY <1>1, <1>9, <2>3
  <2>5. n = [list |-> n.list, chrono |-> n.chrono, first |-> n.first, last |-> n.last]
    BY DEF Unlink
  <2> HIDE DEF n
  <2> QED BY <2>1, <2>4, <2>5 DEF RegistryState
<1> HIDE DEF n, q
<1>17. DOMAIN t = 1..Len(s) - 1
  BY <1>2, <1>5 DEF Removed
<1>18. ASSUME NEW k \in DOMAIN t, k < q PROVE k \in DOMAIN s /\ t[k] = s[k]
  <2>1. k \in 1..Len(s) - 1 /\ k \in DOMAIN s
    BY <1>2, <1>3, <1>17, <1>18
  <2> QED BY <1>5, <1>18, <2>1 DEF Removed
<1>19. ASSUME NEW k \in DOMAIN t, k >= q PROVE k + 1 \in DOMAIN s /\ t[k] = s[k + 1]
  <2>1. k \in 1..Len(s) - 1 /\ k + 1 \in DOMAIN s /\ ~(k < q)
    BY <1>2, <1>3, <1>17, <1>19
  <2> QED BY <1>5, <2>1 DEF Removed
\* What is left comes from another place.
<1>t. ASSUME NEW k \in DOMAIN t PROVE \E m \in DOMAIN s : m # q /\ t[k] = s[m]
  <2>1. CASE k < q
    BY <1>18, <2>1, <1>2, <1>3
  <2>2. CASE k >= q
    <3>1. k + 1 # q
      BY <1>2, <1>3, <1>17, <2>2
    <3> QED BY <1>19, <2>2, <3>1
  <2> QED BY <1>2, <1>3, <1>17, <2>1, <2>2
<1>20. Segment(n, cl, b)
  <2>1. CASE i = j
    <3>1. \A k \in DOMAIN t : cl[t[k]] # b
      <4>1. \A m \in DOMAIN s : m # q => cl[s[m]] # b
        BY <1>2, <1>10, <1>11, <2>1
      <4> QED BY <1>t, <4>1
    <3> QED BY <1>14, <2>1, <3>1 DEF Segment
  <2>2. CASE i # j
    <3>1. i \in DOMAIN t /\ j - 1 \in DOMAIN t /\ i <= j - 1
      BY <1>2, <1>10, <1>17, <2>2
    <3>2. n.first[b] = t[i] /\ n.last[b] = t[j - 1]
      <4>1. t[i] = IF i < q THEN s[i] ELSE s[i + 1]
        BY <1>2, <1>3, <1>10, <1>17, <1>18, <1>19, <3>1
      <4>2. t[j - 1] = IF j - 1 < q THEN s[j - 1] ELSE s[j]
        <5>1. (j - 1) + 1 = j /\ j - 1 \in Int /\ q \in Int
          BY <1>2, <1>3, <1>10
        <5>2. CASE j - 1 < q
          BY <1>18, <3>1, <5>2
        <5>3. CASE j - 1 >= q
          BY <1>19, <3>1, <5>1, <5>3
        <5> QED BY <5>1, <5>2, <5>3
      <4> QED BY <1>2, <1>3, <1>10, <1>11, <1>14, <2>2, <4>1, <4>2
    <3>3. ASSUME NEW k \in DOMAIN t PROVE cl[t[k]] = b <=> k \in i..j - 1
      <4>1. CASE k < q
        BY <1>2, <1>3, <1>10, <1>11, <1>17, <1>18, <4>1
      <4>2. CASE k >= q
        <5>1. k + 1 \in DOMAIN s /\ t[k] = s[k + 1] /\ (k + 1 \in i..j <=> k \in i..j - 1)
          BY <1>2, <1>3, <1>10, <1>11, <1>17, <1>19, <4>2
        <5> QED BY <1>10, <5>1
      <4> QED BY <1>2, <1>3, <1>17, <4>1, <4>2
    <3> QED BY <3>1, <3>2, <3>3 DEF Segment
  <2> QED BY <2>1, <2>2
<1>21. ASSUME NEW c \in Binders, c # b PROVE Segment(n, cl, c)
  <2>1. n.first[c] = r.first[c] /\ n.last[c] = r.last[c]
    BY <1>15, <1>21
  <2>2. CASE r.first[c] = NoObject
    <3>1. r.last[c] = NoObject /\ \A k \in DOMAIN s : cl[s[k]] # c
      BY <1>1, <1>2, <2>2 DEF Segment
    <3>2. \A k \in DOMAIN t : cl[t[k]] # c
      BY <1>t, <3>1
    <3> QED BY <2>1, <2>2, <3>1, <3>2 DEF Segment
  <2>3. CASE r.first[c] # NoObject
    <3>1. PICK x, y \in DOMAIN s : /\ x <= y /\ r.first[c] = s[x] /\ r.last[c] = s[y]
                                   /\ \A k \in DOMAIN s : cl[s[k]] = c <=> k \in x..y
      BY <1>1, <2>3 DEF Segment
    <3>2. q \notin x..y
      BY <1>2, <1>3, <1>21, <3>1
    <3> DEFINE to(k) == IF k < q THEN k ELSE k - 1
    <3>3. ASSUME NEW k \in DOMAIN s, k # q PROVE to(k) \in DOMAIN t /\ t[to(k)] = s[k]
      <4>1. CASE k < q
        BY <1>2, <1>3, <1>17, <1>18, <4>1
      <4>2. CASE k > q
        <5>1. k - 1 \in DOMAIN t /\ k - 1 >= q /\ (k - 1) + 1 = k
          BY <1>2, <1>3, <1>17, <4>2
        <5> QED BY <1>2, <1>3, <1>19, <4>2, <5>1
      <4> QED BY <1>2, <1>3, <3>3, <4>1, <4>2
    <3>4. to(x) \in DOMAIN t /\ to(y) \in DOMAIN t /\ t[to(x)] = s[x] /\ t[to(y)] = s[y] /\ to(x) <= to(y)
      <4>1. x # q /\ y # q
        BY <1>2, <3>1, <3>2
      <4>2. to(x) <= to(y)
        BY <1>2, <1>3, <3>1, <3>2
      <4> QED BY <3>3, <4>1, <4>2
    <3>5. ASSUME NEW k \in DOMAIN t PROVE cl[t[k]] = c <=> k \in to(x)..to(y)
      <4>1. CASE k < q
        <5>1. k \in DOMAIN s /\ t[k] = s[k] /\ (k \in x..y <=> k \in to(x)..to(y))
          BY <1>2, <1>3, <1>17, <1>18, <3>1, <3>2, <4>1
        <5> QED BY <3>1, <5>1
      <4>2. CASE k >= q
        <5>1. k + 1 \in DOMAIN s /\ t[k] = s[k + 1]
          BY <1>19, <4>2
        <5>2. k + 1 \in x..y <=> k \in to(x)..to(y)
          BY <1>2, <1>3, <1>17, <3>1, <3>2, <4>2
        <5> QED BY <3>1, <5>1, <5>2
      <4> QED BY <1>2, <1>3, <1>17, <4>1, <4>2
    <3> QED BY <2>1, <3>1, <3>4, <3>5 DEF Segment
  <2> QED BY <2>2, <2>3
<1>s. SameOrder(t, n.chrono, cl) /\ Len(t) = Len(n.chrono)
  <2>1. s \in Seq(Object) /\ r.chrono \in Seq(Object)
    BY <1>1
  <2>2. Len(t) = Len(n.chrono)
    BY <1>1, <1>5, <1>6 DEF Removed
  <2> HIDE DEF s, t, u
  <2> QED BY <1>1, <1>3, <1>5, <1>6, <2>1, <2>2, RemovedOrder
<1>22. Registry(n, cl)
  BY <1>1, <1>7, <1>8, <1>16, <1>s, <1>20, <1>21 DEF Registry, Registered
<1> QED BY <1>8, <1>22 DEF Registered, n

LEMMA PlaceOf ==
  ASSUME NEW r, NEW cl, Registry(r, cl), NEW k \in DOMAIN r.list
  PROVE  Place(r.list, r.list[k]) = k
<1>1. r.list \in Seq(Object) /\ Distinct(r.list) /\ r.list[k] \in ToSet(r.list)
  BY DEF Registry, RegistryState, ToSet
<1>2. Place(r.list, r.list[k]) \in DOMAIN r.list /\ r.list[Place(r.list, r.list[k])] = r.list[k]
  BY <1>1, PlaceIs
<1> QED BY <1>1, <1>2 DEF Distinct

LEMMA ClassWalk ==
  ASSUME NEW r, NEW cl, Registry(r, cl), NEW b \in Binders,
         NEW made, made = {x \in DOMAIN r.chrono : cl[r.chrono[x]] = b},
         NEW x \in made \cup {0}, NEW y \in made \cup {0}, Follows(made, x, y)
  PROVE  LET at(k) == IF k = 0 THEN NoObject ELSE r.chrono[k]
         IN  BinderNext(r, b, at(x)) = at(y) /\ BinderPrevious(r, b, at(y)) = at(x)
<1> DEFINE s == r.list
           u == r.chrono
           at(k) == IF k = 0 THEN NoObject ELSE r.chrono[k]
<1>1. /\ s \in Seq(Object) /\ u \in Seq(Object) /\ Distinct(s) /\ Distinct(u)
      /\ ToSet(s) = ToSet(u) /\ SameOrder(s, u, cl) /\ Segment(r, cl, b)
  BY DEF Registry, RegistryState, Registered
<1>2. /\ DOMAIN s = 1..Len(s) /\ Len(s) \in Nat /\ DOMAIN u = 1..Len(u) /\ Len(u) \in Nat
      /\ NoObject \notin Object
  BY <1>1 DEF Object, NoObject
\* Where an object stands in the one list and in the other.
<1>3. /\ \A k \in DOMAIN s : s[k] \in Object /\ \E z \in DOMAIN u : u[z] = s[k]
      /\ \A z \in DOMAIN u : u[z] \in Object /\ \E k \in DOMAIN s : s[k] = u[z]
  <2>1. /\ \A k \in DOMAIN s : s[k] \in Object /\ s[k] \in ToSet(s)
        /\ \A z \in DOMAIN u : u[z] \in Object /\ u[z] \in ToSet(u)
    BY <1>1 DEF ToSet
  <2>2. /\ \A o \in ToSet(s) : \E k \in DOMAIN s : s[k] = o
        /\ \A o \in ToSet(u) : \E z \in DOMAIN u : u[z] = o
    BY DEF ToSet
  <2> QED BY <1>1, <2>1, <2>2
<1>4. /\ x = 0 \/ x \in made
      /\ y = 0 \/ (y \in made /\ x < y)
      /\ \A z \in made : x < z => y # 0 /\ y <= z
  BY DEF Follows
<1>5. \A z \in made : z \in DOMAIN u /\ cl[u[z]] = b /\ z > 0
  BY <1>2
<1>6. CASE r.first[b] = NoObject
  <2>1. r.last[b] = NoObject /\ \A k \in DOMAIN s : cl[s[k]] # b
    BY <1>1, <1>3, <1>6, <1>2 DEF Segment
  <2>2. made = {}
    BY <1>3, <1>5, <2>1
  <2> QED BY <1>4, <1>6, <2>1, <2>2 DEF BinderNext, BinderPrevious
<1>7. CASE r.first[b] # NoObject
  <2>1. PICK i, j \in DOMAIN s : /\ i <= j /\ r.first[b] = s[i] /\ r.last[b] = s[j]
                                 /\ \A k \in DOMAIN s : cl[s[k]] = b <=> k \in i..j
    BY <1>1, <1>7 DEF Segment
  <2>2. ASSUME NEW k \in i..j PROVE k \in DOMAIN s /\ \E z \in made : u[z] = s[k]
    <3>1. k \in DOMAIN s /\ cl[s[k]] = b
      BY <1>2, <2>1
    <3> QED BY <1>3, <3>1
  <2>3. ASSUME NEW z \in made PROVE \E k \in i..j : s[k] = u[z]
    BY <1>3, <1>5, <2>1
  \* Earlier in the list is earlier in the order of creation.
  <2>4. ASSUME NEW k \in i..j, NEW l \in i..j, NEW z \in made, NEW w \in made,
               s[k] = u[z], s[l] = u[w], k < l
        PROVE  z < w
    BY <1>1, <1>5, <2>2, <2>4 DEF SameOrder
  <2>5. \A k \in i..j : s[k] # NoObject /\ (s[k] = s[i] <=> k = i) /\ (s[k] = s[j] <=> k = j)
    <3> SUFFICES ASSUME NEW k \in i..j
                 PROVE  s[k] # NoObject /\ (s[k] = s[i] <=> k = i) /\ (s[k] = s[j] <=> k = j)
      OBVIOUS
    <3>1. k \in DOMAIN s /\ i \in DOMAIN s /\ j \in DOMAIN s
      BY <2>1, <2>2
    <3>2. s[k] \in Object
      BY <1>3, <3>1
    <3>3. Distinct(s)
      BY <1>1
    <3> HIDE DEF s
    <3> QED BY <1>2, <3>1, <3>2, <3>3 DEF Distinct
  <2>6. /\ BinderNext(r, b, NoObject) = s[i] /\ BinderPrevious(r, b, NoObject) = s[j]
        /\ \A k \in i..j : /\ BinderNext(r, b, s[k]) = IF k = j THEN NoObject ELSE s[k + 1]
                           /\ BinderPrevious(r, b, s[k]) = IF k = i THEN NoObject ELSE s[k - 1]
    <3>1. BinderNext(r, b, NoObject) = s[i] /\ BinderPrevious(r, b, NoObject) = s[j]
      BY <2>1 DEF BinderNext, BinderPrevious
    <3>2. ASSUME NEW k \in i..j
          PROVE  /\ BinderNext(r, b, s[k]) = IF k = j THEN NoObject ELSE s[k + 1]
                 /\ BinderPrevious(r, b, s[k]) = IF k = i THEN NoObject ELSE s[k - 1]
      <4>1. Place(s, s[k]) = k /\ s[k] # NoObject
        BY <2>2, <2>5, PlaceOf
      <4>2. (k # j => k # Len(s)) /\ (k # i => k # 1)
        BY <1>2, <2>1
      <4> QED BY <2>1, <2>5, <4>1, <4>2 DEF BinderNext, BinderPrevious, GetNextObject, GetPreviousObject
    <3> QED BY <3>1, <3>2
  <2> HIDE DEF s, u
  <2>7. i \in i..j /\ j \in i..j
    BY <1>2, <2>1
  <2>8. CASE x = 0 /\ y = 0
    <3>1. made = {}
      BY <1>4, <1>5, <2>8
    <3> QED BY <2>2, <2>7, <3>1
  <2>9. CASE x = 0 /\ y # 0
    <3>1. PICK k \in i..j : s[k] = u[y]
      BY <1>4, <2>3, <2>9
    <3>2. PICK z \in made : u[z] = s[i]
      BY <2>2, <2>7
    <3>3. y <= z
      BY <1>4, <1>5, <2>9
    <3>4. ~(i < k)
      BY <1>2, <1>4, <1>5, <2>4, <2>7, <2>9, <3>1, <3>2, <3>3
    <3>5. k = i
      BY <1>2, <2>1, <3>4
    <3>6. at(x) = NoObject /\ at(y) = s[i]
      BY <2>9, <3>1, <3>5 DEF u
    <3> QED BY <2>6, <2>7, <3>6
  <2>10. CASE x # 0 /\ y = 0
    <3>1. PICK k \in i..j : s[k] = u[x]
      BY <1>4, <2>3, <2>10
    <3>2. PICK z \in made : u[z] = s[j]
      BY <2>2, <2>7
    <3>3. ~(x < z)
      BY <1>4, <2>10
    <3>4. ~(k < j)
      BY <1>4, <2>4, <2>7, <2>10, <3>1, <3>2, <3>3
    <3>5. k = j
      BY <1>2, <2>1, <3>4
    <3>6. at(x) = s[j] /\ at(y) = NoObject
      BY <2>10, <3>1, <3>5 DEF u
    <3> QED BY <2>6, <2>7, <3>6
  <2>11. CASE x # 0 /\ y # 0
    <3>1. PICK k \in i..j, l \in i..j : s[k] = u[x] /\ s[l] = u[y]
      BY <1>4, <2>3, <2>11
    <3>2. x \in made /\ y \in made /\ x < y /\ x \in Nat /\ y \in Nat
      BY <1>2, <1>4, <1>5, <2>11
    <3>3. k < l
      <4>1. k # l
        BY <1>1, <1>5, <3>1, <3>2 DEF Distinct, u
      <4>2. ~(l < k)
        BY <2>4, <3>1, <3>2
      <4> QED BY <1>2, <2>1, <4>1, <4>2
    <3>4. l = k + 1
      <4>1. SUFFICES ASSUME k + 1 < l PROVE FALSE
        BY <1>2, <2>1, <3>3
      <4>2. k + 1 \in i..j /\ k < k + 1
        BY <1>2, <2>1, <4>1
      <4>3. PICK z \in made : u[z] = s[k + 1]
        BY <2>2, <4>2
      <4>4. x < z /\ z < y
        BY <2>4, <3>1, <3>2, <4>1, <4>2, <4>3
      <4> QED BY <1>4, <1>5, <1>2, <3>2, <4>4
    <3>5. k # j /\ l # i /\ l - 1 = k
      BY <1>2, <2>1, <3>3, <3>4
    <3>6. at(x) = s[k] /\ at(y) = s[k + 1]
      BY <2>11, <3>1, <3>4 DEF u
    <3> QED BY <2>6, <3>1, <3>4, <3>5, <3>6
  <2> QED BY <2>8, <2>9, <2>10, <2>11
<1> QED BY <1>6, <1>7

-----------------------------------------------------------------------------
(* The calls in progress.  These definitions take the state as arguments, so *)
(* that a lemma about them serves the state before a step and after it.      *)

Alive == {"forever", "zero"}
Alone == Deleting \cup {"children", "event"}

\* What a frame stands at.
One(f, lf, md, rg) ==
  /\ f.obj # NoObject /\ f.at # "engine" => lf[f.obj] \in Alive
  /\ f.at \in Creating \cup Deleting \cup Handling => f.obj # NoObject
  /\ f.at \in GameCalls => f.obj = NoObject
  /\ f.at \in Walks /\ f.obj # NoObject =>
       f.lock /\ (f.at # "BaseUpdate" => f.obj \in Registered(rg))
  /\ f.at \in Deleting => f.obj \in Registered(rg)
  /\ f.at \in {"children", "event"} => f.obj \notin Registered(rg)
  /\ f.at = "children" => Child[md[f.obj]] \in Models

Begun(f) == f.at \in Walks /\ f.lock
Asked(f) == f.at \in Deleting /\ f.asked

\* What a frame means to one further out, g.
Apart(f, g) ==
  /\ f.at # "engine"
  /\ f.at \in Walks \cup GameCalls => g.at \in Walks \cup GameCalls
  /\ f.at \in Walks \cup GameCalls \cup Deleting => ~Begun(g)
  /\ g.at # "engine" /\ (f.at \in Alone \/ g.at \in Alone) => f.obj # g.obj

\* The deletion mark is the one that the deletions in progress have set.
Marks(st, dm) ==
  /\ (\A i \in DOMAIN st : ~Asked(st[i])) => dm = NoModel
  /\ \A i \in DOMAIN st :
       Asked(st[i]) /\ (\A j \in DOMAIN st : j > i => ~Asked(st[j])) => st[i].mark = NoModel

Calls(st, lf, md, rg, lk, dm) ==
  /\ st \in Seq(Frame)
  /\ \A i \in DOMAIN st : One(st[i], lf, md, rg)
  /\ \A i, j \in DOMAIN st : i < j => Apart(st[i], st[j])
  /\ \A i \in DOMAIN st : Begun(st[i]) => lk
  /\ Marks(st, dm)

LEMMA NoCalls ==
  ASSUME NEW lf, NEW md, NEW rg, NEW lk
  PROVE  Calls(<<>>, lf, md, rg, lk, NoModel)
BY DEF Calls, Marks

\* A call within the calls in progress.
LEMMA Pushed ==
  ASSUME NEW st, NEW lf, NEW md, NEW rg, NEW lk, NEW dm, Calls(st, lf, md, rg, lk, dm),
         NEW f \in Frame, One(f, lf, md, rg), Begun(f) => lk,
         \A j \in DOMAIN st : Apart(f, st[j]),
         NEW dm2, IF Asked(f) THEN f.mark = dm ELSE dm2 = dm
  PROVE  Calls(<<f>> \o st, lf, md, rg, lk, dm2)
<1> DEFINE nx == <<f>> \o st
<1>1. st \in Seq(Frame) /\ DOMAIN st = 1..Len(st) /\ Len(st) \in Nat
  BY DEF Calls
<1>2. /\ nx \in Seq(Frame) /\ DOMAIN nx = 1..Len(st) + 1
      /\ \A k \in 1..Len(st) + 1 : nx[k] = IF k = 1 THEN f ELSE st[k - 1]
  <2>1. /\ nx \in Seq(Frame) /\ Len(nx) = Len(st) + 1
        /\ \A k \in 1..Len(st) + 1 : nx[k] = IF k = 1 THEN f ELSE st[k - 1]
    BY <1>1, PushIs
  <2> HIDE DEF nx
  <2> QED BY <2>1
<1> HIDE DEF nx
<1>3. nx[1] = f /\ 1 \in DOMAIN nx
  BY <1>1, <1>2
<1>4. ASSUME NEW k \in DOMAIN nx, k # 1 PROVE k - 1 \in DOMAIN st /\ nx[k] = st[k - 1]
  BY <1>1, <1>2, <1>4
<1>5. \A k \in DOMAIN st : k + 1 \in DOMAIN nx /\ k + 1 # 1 /\ nx[k + 1] = st[k]
  BY <1>1, <1>2
<1>6. \A k \in DOMAIN nx : One(nx[k], lf, md, rg) /\ (Begun(nx[k]) => lk)
  BY <1>3, <1>4 DEF Calls
<1>7. ASSUME NEW i \in DOMAIN nx, NEW j \in DOMAIN nx, i < j PROVE Apart(nx[i], nx[j])
  <2>1. j # 1 /\ j - 1 \in DOMAIN st /\ nx[j] = st[j - 1]
    BY <1>1, <1>2, <1>4, <1>7
  <2>2. CASE i = 1
    BY <1>3, <2>1, <2>2
  <2>3. CASE i # 1
    <3>1. i - 1 \in DOMAIN st /\ nx[i] = st[i - 1] /\ i - 1 < j - 1
      BY <1>1, <1>2, <1>4, <1>7, <2>3
    <3> QED BY <2>1, <3>1 DEF Calls
  <2> QED BY <2>2, <2>3
<1>8. Marks(nx, dm2)
  <2>1. ASSUME \A i \in DOMAIN nx : ~Asked(nx[i]) PROVE dm2 = NoModel
    <3>1. ~Asked(f) /\ \A k \in DOMAIN st : ~Asked(st[k])
      BY <1>3, <1>5, <2>1
    <3> QED BY <3>1 DEF Calls, Marks
  <2>2. ASSUME NEW i \in DOMAIN nx, Asked(nx[i]), \A j \in DOMAIN nx : j > i => ~Asked(nx[j])
        PROVE  nx[i].mark = NoModel
    <3>1. CASE i = 1
      <4>1. \A k \in DOMAIN st : ~Asked(st[k])
        BY <1>1, <1>5, <2>2, <3>1
      <4> QED BY <1>3, <2>2, <3>1, <4>1 DEF Calls, Marks
    <3>2. CASE i # 1
      <4>1. i - 1 \in DOMAIN st /\ nx[i] = st[i - 1]
        BY <1>4, <3>2
      <4>2. ASSUME NEW k \in DOMAIN st, k > i - 1 PROVE ~Asked(st[k])
        <5>1. k + 1 > i
          BY <1>1, <1>2, <4>2
        <5> QED BY <1>5, <2>2, <5>1
      <4> QED BY <2>2, <4>1, <4>2 DEF Calls, Marks
    <3> QED BY <3>1, <3>2
  <2> QED BY <2>1, <2>2 DEF Marks
<1>9. Calls(nx, lf, md, rg, lk, dm2)
  BY <1>2, <1>6, <1>7, <1>8 DEF Calls
<1> QED BY <1>9 DEF nx

\* The innermost call, and the calls when it returns.
LEMMA Popped ==
  ASSUME NEW st, NEW lf, NEW md, NEW rg, NEW lk, NEW dm, Calls(st, lf, md, rg, lk, dm), st # <<>>
  PROVE  /\ Head(st) \in Frame /\ One(Head(st), lf, md, rg) /\ (Begun(Head(st)) => lk)
         /\ \A j \in DOMAIN Tail(st) : Apart(Head(st), Tail(st)[j])
         /\ Calls(Tail(st), lf, md, rg, lk, IF Asked(Head(st)) THEN Head(st).mark ELSE dm)
<1> DEFINE f == Head(st)
           nx == Tail(st)
           dm2 == IF Asked(f) THEN f.mark ELSE dm
<1>1. st \in Seq(Frame) /\ DOMAIN st = 1..Len(st) /\ Len(st) \in Nat
  BY DEF Calls
<1>2. /\ f = st[1] /\ f \in Frame /\ 1 \in DOMAIN st
      /\ nx \in Seq(Frame) /\ DOMAIN nx = 1..Len(st) - 1
      /\ \A k \in 1..Len(st) - 1 : nx[k] = st[k + 1]
  <2>1. /\ f = st[1] /\ f \in Frame /\ 1 \in DOMAIN st
        /\ nx \in Seq(Frame) /\ Len(nx) = Len(st) - 1
        /\ \A k \in 1..Len(st) - 1 : nx[k] = st[k + 1]
    BY <1>1, PopIs
  <2> HIDE DEF nx
  <2> QED BY <2>1
<1> HIDE DEF f, nx
<1>3. One(f, lf, md, rg) /\ (Begun(f) => lk)
  BY <1>2 DEF Calls
<1>4. \A k \in DOMAIN nx : k + 1 \in DOMAIN st /\ k + 1 > 1 /\ nx[k] = st[k + 1]
  BY <1>1, <1>2
<1>5. \A k \in DOMAIN st : k > 1 => k - 1 \in DOMAIN nx /\ nx[k - 1] = st[k]
  BY <1>1, <1>2
<1>6. \A j \in DOMAIN nx : Apart(f, nx[j])
  BY <1>2, <1>4 DEF Calls
<1>7. \A j \in DOMAIN nx : One(nx[j], lf, md, rg) /\ (Begun(nx[j]) => lk)
  BY <1>4 DEF Calls
<1>8. ASSUME NEW i \in DOMAIN nx, NEW j \in DOMAIN nx, i < j PROVE Apart(nx[i], nx[j])
  <2>1. i + 1 < j + 1
    BY <1>2, <1>8
  <2> QED BY <1>4, <2>1 DEF Calls
<1>9. Marks(nx, dm2)
  <2>1. ASSUME \A i \in DOMAIN nx : ~Asked(nx[i]) PROVE dm2 = NoModel
    <3>1. \A k \in DOMAIN st : k > 1 => ~Asked(st[k])
      BY <1>5, <2>1
    <3>2. CASE Asked(f)
      BY <1>2, <3>1, <3>2 DEF Calls, Marks
    <3>3. CASE ~Asked(f)
      <4>1. \A k \in DOMAIN st : ~Asked(st[k])
        BY <1>1, <1>2, <3>1, <3>3
      <4> QED BY <3>3, <4>1 DEF Calls, Marks
    <3> QED BY <3>2, <3>3
  <2>2. ASSUME NEW i \in DOMAIN nx, Asked(nx[i]), \A j \in DOMAIN nx : j > i => ~Asked(nx[j])
        PROVE  nx[i].mark = NoModel
    <3>1. i + 1 \in DOMAIN st /\ nx[i] = st[i + 1]
      BY <1>4
    <3>2. ASSUME NEW k \in DOMAIN st, k > i + 1 PROVE ~Asked(st[k])
      <4>1. k > 1 /\ k - 1 > i
        BY <1>1, <1>2, <3>2
      <4> QED BY <1>5, <2>2, <4>1
    <3> QED BY <2>2, <3>1, <3>2 DEF Calls, Marks
  <2> QED BY <2>1, <2>2 DEF Marks
<1>10. Calls(nx, lf, md, rg, lk, dm2)
  BY <1>2, <1>7, <1>8, <1>9 DEF Calls
<1> QED BY <1>2, <1>3, <1>6, <1>10 DEF f, nx

\* The calls in progress when the objects they stand at are as before.
LEMMA Kept ==
  ASSUME NEW st, NEW lf, NEW md, NEW rg, NEW lk, NEW dm, Calls(st, lf, md, rg, lk, dm),
         NEW lf2, NEW md2, NEW rg2, NEW lk2,
         \A i \in DOMAIN st : One(st[i], lf, md, rg) => One(st[i], lf2, md2, rg2),
         \A i \in DOMAIN st : Begun(st[i]) => lk2
  PROVE  Calls(st, lf2, md2, rg2, lk2, dm)
BY DEF Calls

LEMMA OneKept ==
  ASSUME NEW f, NEW lf, NEW md, NEW rg, NEW lf2, NEW md2, NEW rg2, One(f, lf, md, rg),
         f.obj # NoObject /\ f.at # "engine" =>
           /\ lf[f.obj] \in Alive => lf2[f.obj] \in Alive
           /\ md2[f.obj] = md[f.obj]
           /\ f.obj \in Registered(rg) => f.obj \in Registered(rg2)
           /\ f.at \in {"children", "event"} /\ f.obj \in Registered(rg2) => f.obj \in Registered(rg)
  PROVE  One(f, lf2, md2, rg2)
<1>1. f.at = "children" => f.at \in Creating
  BY DEF Creating
<1> QED BY <1>1 DEF One, Creating, Walks, Deleting

-----------------------------------------------------------------------------
(* The invariant *)

Classes(md) == [o \in Object |-> GetBinder(md[o], TRUE)]

\* The objects are numbered as they were created, and what is registered is alive.
Objects(lf, md, rg) ==
  /\ lf \in [Object -> Life]
  /\ md \in [Object -> Models \cup {NoModel}]
  /\ \E n \in 0..MaxObjects : {o \in Object : lf[o] # "none"} = 1..n
  /\ \A o \in Object : lf[o] \in Alive => md[o] \in Models
  /\ \A o \in Registered(rg) : o \in Object /\ lf[o] \in Alive

IInv ==
  /\ Calls(stack, life, model, reg, locked, deleteMark)
  /\ Objects(life, model, reg)
  /\ Registry(reg, Classes(model))
  /\ createMark \in Models \cup {NoModel} /\ deleteMark \in Models \cup {NoModel}
  /\ locked \in BOOLEAN

LEMMA IInvInit == Init => IInv
<1> SUFFICES ASSUME Init PROVE IInv
  OBVIOUS
<1> DEFINE f == Calling("Init", NoObject)
<1>1. f \in Frame /\ One(f, life, model, reg) /\ ~Begun(f) /\ ~Asked(f)
  BY DEF Calling, Frame, One, Begun, Asked, GameCalls, Walks, Creating, Deleting, Handling
<1>2. Calls(<<f>> \o <<>>, life, model, reg, locked, deleteMark)
  <2>1. Calls(<<>>, life, model, reg, locked, deleteMark) /\ DOMAIN <<>> = {}
    BY NoCalls DEF Init
  <2> HIDE DEF f
  <2> QED BY <1>1, <2>1, Pushed
<1>3. stack = <<f>> \o <<>>
  <2>1. stack = <<f>>
    BY DEF Init
  <2> HIDE DEF f
  <2> QED BY <1>1, <2>1
<1>4. Registered(reg) = {} /\ reg.list = <<>> /\ reg.chrono = <<>>
  BY DEF Init, EmptyRegistry, Registered, ToSet
<1>5. Objects(life, model, reg)
  <2>1. 0 \in 0..MaxObjects /\ {o \in Object : life[o] # "none"} = 1..0
    BY RegistryAssumption DEF Init
  <2> QED BY <1>4, <2>1 DEF Init, Objects, Life, Alive
<1>6. Registry(reg, Classes(model))
  <2>1. reg \in RegistryState
    BY DEF Init, EmptyRegistry, RegistryState
  <2>2. \A b \in Binders : reg.first[b] = NoObject /\ reg.last[b] = NoObject
    BY DEF Init, EmptyRegistry
  <2> QED BY <1>4, <2>1, <2>2 DEF Registry, Segment, SameOrder, Distinct, ToSet, Registered
<1> QED BY <1>2, <1>3, <1>5, <1>6 DEF IInv, Init

LEMMA TopIs ==
  ASSUME IInv, stack # <<>>
  PROVE  /\ Top \in Frame /\ One(Top, life, model, reg) /\ (Begun(Top) => locked)
         /\ \A j \in DOMAIN Below : Apart(Top, Below[j])
         /\ Calls(Below, life, model, reg, locked, IF Asked(Top) THEN Top.mark ELSE deleteMark)
BY Popped DEF IInv, Top, Below

LEMMA SameObjects ==
  ASSUME IInv, UNCHANGED <<life, model, reg>>
  PROVE  Objects(life', model', reg') /\ Registry(reg', Classes(model'))
BY DEF IInv

-----------------------------------------------------------------------------
(* Binders *)

LEMMA FirstOf ==
  ASSUME NEW S \in SUBSET Nat, S # {}
  PROVE  Min(S) \in S
<1> DEFINE R == {ss \in Nat \X Nat : ss[1] < ss[2]}
<1>1. IsWellFoundedOn(R, Nat)
  BY NatLessThanWellFounded DEF OpToRel
<1>2. PICK x \in S : \A y \in S : <<y, x>> \notin R
  <2> HIDE DEF R
  <2> QED BY <1>1, WFMin
<1>3. \A y \in S : x <= y
  <2> TAKE y \in S
  <2>1. x \in Nat /\ y \in Nat /\ ~(y < x)
    BY <1>2
  <2> QED BY <2>1
<1> QED BY <1>2, <1>3 DEF Min

LEMMA BinderIs ==
  ASSUME NEW m \in Models
  PROVE  /\ GetBinder(m, TRUE) \in Binders
         /\ \A d \in BOOLEAN : GetBinder(m, d) # NoBinder => GetBinder(m, d) = GetBinder(m, TRUE)
<1> DEFINE bound == {i \in DOMAIN Lineage[m] : Lineage[m][i] \in DOMAIN BoundTo}
<1>1. \A d : GetBinder(m, d) = IF bound # {} THEN BoundTo[Lineage[m][Min(bound)]]
                               ELSE IF d THEN DefaultBinder ELSE NoBinder
  BY DEF GetBinder
<1>2. CASE bound = {}
  BY <1>1, <1>2, RegistryAssumption
<1>3. CASE bound # {}
  <2>1. bound \in SUBSET Nat
    BY RegistryAssumption
  <2>2. Min(bound) \in bound
    <3> HIDE DEF bound
    <3> QED BY <1>3, <2>1, FirstOf
  <2>3. BoundTo[Lineage[m][Min(bound)]] \in Binders
    BY <2>2, RegistryAssumption
  <2> QED BY <1>1, <1>3, <2>3
<1> QED BY <1>2, <1>3

-----------------------------------------------------------------------------
(* Objects made and deleted *)

LEMMA NewObjectIs ==
  ASSUME Objects(life, model, reg), NewObject \in Object
  PROVE  /\ life[NewObject] = "none" /\ NewObject \notin Registered(reg) /\ NewObject # NoObject
         /\ {o \in Object : life[o] # "none"} = 1..NewObject - 1
<1>1. PICK n \in 0..MaxObjects : {o \in Object : life[o] # "none"} = 1..n
  BY DEF Objects
<1>2. Created = 1..n
  BY <1>1 DEF Created
<1>3. Cardinality(1..n) = n
  BY FS_Interval
<1>4. NewObject = n + 1 /\ n \in Int
  BY <1>2, <1>3 DEF NewObject
<1>5. life[NewObject] = "none"
  BY <1>1, <1>4
<1>6. NewObject \notin Registered(reg)
  BY <1>5 DEF Objects, Alive
<1> QED BY <1>1, <1>4, <1>5, <1>6 DEF Object, NoObject

LEMMA MadeKeeps ==
  ASSUME IInv, NEW m \in Models, NEW p, EngineObject(m, p)
  PROVE  /\ NewObject \in Object /\ NewObject # NoObject /\ NewObject \notin Registered(reg)
         /\ life'[NewObject] = "forever" /\ model'[NewObject] = m
         /\ \A o \in Object : o # NewObject => life'[o] = life[o] /\ model'[o] = model[o]
         /\ \A f : One(f, life, model, reg) => One(f, life', model', reg)
         /\ \A f : One(f, life, model, reg) /\ f.at # "engine" => f.obj # NewObject
         /\ Objects(life', model', reg) /\ Registry(reg, Classes(model'))
<1> DEFINE w == NewObject
<1>1. Objects(life, model, reg) /\ Registry(reg, Classes(model)) /\ w \in Object
  BY DEF IInv, EngineObject
<1>2. /\ life[w] = "none" /\ w \notin Registered(reg) /\ w # NoObject
      /\ {o \in Object : life[o] # "none"} = 1..w - 1
  BY <1>1, NewObjectIs
<1>3. life' = [life EXCEPT ![w] = "forever"] /\ model' = [model EXCEPT ![w] = m]
  BY DEF EngineObject
<1>4. life \in [Object -> Life] /\ model \in [Object -> Models \cup {NoModel}]
  BY <1>1 DEF Objects
<1> HIDE DEF w
<1>5. /\ life'[w] = "forever" /\ model'[w] = m
      /\ \A o \in Object : o # w => life'[o] = life[o] /\ model'[o] = model[o]
  BY <1>1, <1>3, <1>4
<1>6. \A o \in Registered(reg) : o \in Object /\ o # w
  BY <1>1, <1>2 DEF Objects
<1>7. Objects(life', model', reg)
  <2>1. life' \in [Object -> Life] /\ model' \in [Object -> Models \cup {NoModel}]
    BY <1>3, <1>4 DEF Life
  <2>2. {o \in Object : life'[o] # "none"} = 1..w
    <3>1. {o \in Object : life'[o] # "none"} = {o \in Object : life[o] # "none"} \cup {w}
      BY <1>1, <1>5
    <3>2. w \in Int /\ w >= 1
      BY <1>1 DEF Object
    <3> QED BY <1>2, <3>1, <3>2
  <2>3. w \in 0..MaxObjects
    BY <1>1 DEF Object
  <2>4. \A o \in Object : life'[o] \in Alive => model'[o] \in Models
    BY <1>1, <1>5 DEF Objects
  <2>5. \A o \in Registered(reg) : o \in Object /\ life'[o] \in Alive
    BY <1>1, <1>5, <1>6 DEF Objects
  <2> QED BY <2>1, <2>2, <2>3, <2>4, <2>5 DEF Objects
<1>8. Registry(reg, Classes(model'))
  <2>1. \A o \in Registered(reg) : Classes(model')[o] = Classes(model)[o]
    BY <1>5, <1>6 DEF Classes
  <2> QED BY <1>1, <2>1, RegistryCongruence
<1>9. ASSUME NEW f, One(f, life, model, reg), f.at # "engine" PROVE f.obj # w
  BY <1>2, <1>9 DEF One, Alive
<1>10. ASSUME NEW f, One(f, life, model, reg) PROVE One(f, life', model', reg)
  <2>1. SUFFICES ASSUME f.obj # NoObject, f.at # "engine"
                 PROVE  (life[f.obj] \in Alive => life'[f.obj] \in Alive) /\ model'[f.obj] = model[f.obj]
    BY <1>10, OneKept
  <2>2. f.obj # w
    BY <1>9, <1>10, <2>1
  <2>3. life' = [o \in Object |-> IF o = w THEN "forever" ELSE life[o]]
    BY <1>3, <1>4
  <2>4. life[f.obj] \in Alive
    BY <1>10, <2>1 DEF One
  <2> QED BY <1>3, <1>4, <2>2, <2>4
<1> QED BY <1>1, <1>2, <1>5, <1>7, <1>8, <1>9, <1>10 DEF w

LEMMA KillKeeps ==
  ASSUME Objects(life, model, reg), NEW o \in Object, life[o] \in Alive, Kill(o),
         NEW rg, Registered(rg) \subseteq Registered(reg) \ {o}
  PROVE  /\ Objects(life', model', rg)
         /\ \A p \in Object : p # o => /\ life[p] \in Alive => life'[p] \in Alive
                                       /\ model'[p] = model[p]
<1>1. life \in [Object -> Life] /\ model \in [Object -> Models \cup {NoModel}]
  BY DEF Objects
<1>2. /\ life' \in [Object -> Life] /\ life'[o] = "deleted"
      /\ \A p \in Object : p # o => life'[p] = life[p] \/ (life[p] = "forever" /\ life'[p] = "zero")
  BY <1>1 DEF Kill, Life
<1>3. /\ model' \in [Object -> Models \cup {NoModel}]
      /\ \A p \in Object : p # o => model'[p] = model[p]
  BY <1>1 DEF Kill
<1>4. \A p \in Object : p # o => (life[p] \in Alive <=> life'[p] \in Alive)
  BY <1>2 DEF Alive
<1>5. {p \in Object : life'[p] # "none"} = {p \in Object : life[p] # "none"}
  BY <1>2 DEF Alive
<1>6. \A p \in Object : life'[p] \in Alive => model'[p] \in Models
  BY <1>2, <1>3, <1>4 DEF Objects, Alive
<1>7. \A p \in Registered(rg) : p \in Object /\ life'[p] \in Alive
  BY <1>4 DEF Objects
<1> QED BY <1>2, <1>3, <1>4, <1>5, <1>6, <1>7 DEF Objects

\* A creation is a call at an object that no other call is at.
LEMMA CreationPushed ==
  ASSUME IInv, NEW m \in Models, NEW p, EngineObject(m, p),
         NEW st, NEW dm, Calls(st, life, model, reg, locked, dm),
         NEW asked \in BOOLEAN, NEW mark \in Models \cup {NoModel}
  PROVE  Calls(<<Creation(m, asked, mark)>> \o st, life', model', reg, locked, dm)
<1> DEFINE f == Creation(m, asked, mark)
<1>1. /\ NewObject \in Object /\ NewObject # NoObject /\ NewObject \notin Registered(reg)
      /\ life'[NewObject] = "forever" /\ model'[NewObject] = m
      /\ \A g : One(g, life, model, reg) => One(g, life', model', reg)
      /\ \A g : One(g, life, model, reg) /\ g.at # "engine" => g.obj # NewObject
  BY MadeKeeps
<1>2. /\ f.obj = NewObject /\ f.at \in {"children", "event"}
      /\ f.at = "children" => Child[m] \in Models
  BY LoopAssumption DEF Creation
<1>3. f \in Frame
  BY <1>1 DEF Creation, Frame, Creating
<1> HIDE DEF f
<1>4. One(f, life', model', reg)
  BY <1>1, <1>2 DEF One, Alive, GameCalls, Walks, Deleting
<1>5. ~Begun(f) /\ ~Asked(f)
  BY <1>2 DEF Begun, Asked, Walks, Deleting
<1>6. Calls(st, life', model', reg, locked, dm)
  <2>1. \A i \in DOMAIN st : One(st[i], life, model, reg) => One(st[i], life', model', reg)
    BY <1>1
  <2>2. \A i \in DOMAIN st : Begun(st[i]) => locked
    BY DEF Calls
  <2> QED BY <2>1, <2>2, Kept
<1>7. \A j \in DOMAIN st : Apart(f, st[j])
  <2> TAKE j \in DOMAIN st
  <2>1. st[j].at # "engine" => st[j].obj # NewObject
    BY <1>1 DEF Calls
  <2> QED BY <1>2, <2>1 DEF Apart, Walks, GameCalls, Deleting
<1>8. Calls(<<f>> \o st, life', model', reg, locked, dm)
  BY <1>3, <1>4, <1>5, <1>6, <1>7, Pushed
<1> QED BY <1>8 DEF f

-----------------------------------------------------------------------------
(* The steps: creation *)

LEMMA CallCreateStep ==
  ASSUME IInv, NEW m \in Models, CallCreate(m) PROVE IInv'
<1>1. /\ EngineObject(m, NoObject) /\ stack' = <<Creation(m, TRUE, createMark)>> \o stack
      /\ createMark' = m /\ UNCHANGED <<reg, deleteMark, locked>>
  BY DEF CallCreate, Push, stateVars
<1>2. Calls(stack', life', model', reg', locked', deleteMark')
  BY <1>1, CreationPushed DEF IInv
<1>3. Objects(life', model', reg') /\ Registry(reg', Classes(model'))
  BY <1>1, MadeKeeps
<1> QED BY <1>1, <1>2, <1>3 DEF IInv

LEMMA CallEngineCreateStep ==
  ASSUME IInv, NEW m \in Models, CallEngineCreate(m) PROVE IInv'
<1>1. /\ EngineObject(m, NoObject) /\ stack' = <<Creation(m, FALSE, NoModel)>> \o stack
      /\ UNCHANGED <<reg, createMark, deleteMark, locked>>
  BY DEF CallEngineCreate, Push, markVars, stateVars
<1>2. Calls(stack', life', model', reg', locked', deleteMark')
  BY <1>1, CreationPushed DEF IInv
<1>3. Objects(life', model', reg') /\ Registry(reg', Classes(model'))
  BY <1>1, MadeKeeps
<1> QED BY <1>1, <1>2, <1>3 DEF IInv

\* An object gets its scroll object.
LEMMA LinkStep ==
  ASSUME IInv, NEW o \in Object, life[o] \in Alive, o \notin Registered(reg),
         reg' = Link(reg, GetBinder(model[o], TRUE), o), UNCHANGED <<life, model>>
  PROVE  /\ Objects(life', model', reg') /\ Registry(reg', Classes(model'))
         /\ Registered(reg') = Registered(reg) \cup {o}
         /\ \E p \in 1..Len(reg.list) + 1 : Inserted(reg.list, reg'.list, p, o)
<1>1. Classes(model)[o] = GetBinder(model[o], TRUE) /\ GetBinder(model[o], TRUE) \in Binders
  BY BinderIs DEF IInv, Objects, Classes
<1>2. /\ Registry(reg', Classes(model)) /\ Registered(reg') = Registered(reg) \cup {o}
      /\ \E p \in 1..Len(reg.list) + 1 : Inserted(reg.list, reg'.list, p, o)
  <2> DEFINE cl == Classes(model)
  <2>1. Registry(reg, cl) /\ reg' = Link(reg, cl[o], o) /\ cl[o] \in Binders
    BY <1>1 DEF IInv
  <2> HIDE DEF cl
  <2>2. /\ Registry(Link(reg, cl[o], o), cl)
        /\ Registered(Link(reg, cl[o], o)) = Registered(reg) \cup {o}
        /\ \E p \in 1..Len(reg.list) + 1 : Inserted(reg.list, Link(reg, cl[o], o).list, p, o)
    BY <2>1, LinkKeeps, Zenon
  <2> QED BY <2>1, <2>2 DEF cl
<1>3. Objects(life', model', reg')
  BY <1>2 DEF IInv, Objects
<1> QED BY <1>2, <1>3

LEMMA CallAdoptStep ==
  ASSUME IInv, NEW o \in Object, CallAdopt(o) PROVE IInv'
<1> DEFINE f == [Calling("OnCreate", o) EXCEPT !.asked = TRUE, !.mark = createMark]
<1>1. /\ life[o] \in Alive /\ o \notin Registered(reg) /\ o \notin Busy
      /\ reg' = Link(reg, GetBinder(model[o], TRUE), o)
      /\ stack' = <<f>> \o stack
      /\ UNCHANGED <<life, model, createMark, deleteMark, locked>>
  BY DEF CallAdopt, Live, Alive, Bound, Push, engineVars, markVars, stateVars
<1>2. /\ Objects(life', model', reg') /\ Registry(reg', Classes(model'))
      /\ Registered(reg') = Registered(reg) \cup {o}
  BY <1>1, LinkStep
<1>3. f.at = "OnCreate" /\ f.obj = o /\ f \in Frame
  BY DEF IInv, Calling, Frame, Creating
<1> HIDE DEF f
<1>4. One(f, life', model', reg')
  BY <1>1, <1>3 DEF One, Walks, GameCalls, Deleting, Object, NoObject
<1>5. ~Begun(f) /\ ~Asked(f)
  BY <1>3 DEF Begun, Asked, Walks, Deleting
<1>6. ASSUME NEW i \in DOMAIN stack, stack[i].at \in Creating \cup Deleting \cup Handling
      PROVE  stack[i].obj # o
  BY <1>1, <1>6 DEF Busy, Frames, ToSet
<1>7. Calls(stack, life', model', reg', locked', deleteMark')
  <2>1. ASSUME NEW i \in DOMAIN stack, One(stack[i], life, model, reg)
        PROVE  One(stack[i], life', model', reg')
    <3>1. stack[i].at \in {"children", "event"} => stack[i].obj # o
      BY <1>6 DEF Creating
    <3>2. /\ life' = life /\ model' = model
          /\ stack[i].obj \in Registered(reg) => stack[i].obj \in Registered(reg')
          /\ stack[i].at \in {"children", "event"} /\ stack[i].obj \in Registered(reg')
               => stack[i].obj \in Registered(reg)
      BY <1>1, <1>2, <3>1
    <3> QED BY <2>1, <3>2, OneKept
  <2>2. \A i \in DOMAIN stack : Begun(stack[i]) => locked'
    BY <1>1 DEF IInv, Calls
  <2> QED BY <1>1, <2>1, <2>2, Kept DEF IInv
<1>8. \A j \in DOMAIN stack : Apart(f, stack[j])
  BY <1>3, <1>6 DEF Apart, Alone, Creating, Walks, GameCalls, Deleting
<1>9. Calls(stack', life', model', reg', locked', deleteMark')
  BY <1>1, <1>3, <1>4, <1>5, <1>7, <1>8, Pushed
<1> QED BY <1>1, <1>2, <1>9 DEF IInv

LEMMA CreateChildStep ==
  ASSUME IInv, CreateChild PROVE IInv'
<1> DEFINE m == Child[model[Top.obj]]
           f == [Top EXCEPT !.at = "event"]
           st == <<f>> \o Below
<1>1. /\ stack # <<>> /\ Top.at = "children" /\ EngineObject(m, Top.obj)
      /\ stack' = <<Creation(m, FALSE, NoModel), f>> \o Below
      /\ UNCHANGED <<reg, createMark, deleteMark, locked>>
  BY DEF CreateChild, At, markVars, stateVars
<1>2. /\ Top \in Frame /\ One(Top, life, model, reg)
      /\ \A j \in DOMAIN Below : Apart(Top, Below[j])
      /\ Calls(Below, life, model, reg, locked, deleteMark)
  BY <1>1, TopIs DEF Asked, Deleting
<1>3. m \in Models
  BY <1>1, <1>2 DEF One
<1>4. f \in Frame /\ f.at = "event" /\ f.obj = Top.obj
  BY <1>2 DEF Frame, Creating
<1> HIDE DEF f, m
<1>5. One(f, life, model, reg) /\ ~Begun(f) /\ ~Asked(f)
  BY <1>1, <1>2, <1>4 DEF One, Begun, Asked, Creating, Walks, GameCalls, Deleting
<1>6. \A j \in DOMAIN Below : Apart(f, Below[j])
  BY <1>1, <1>2, <1>4 DEF Apart, Alone, Walks, GameCalls, Deleting
<1>7. Calls(st, life, model, reg, locked, deleteMark)
  BY <1>2, <1>4, <1>5, <1>6, Pushed
<1>8. <<Creation(m, FALSE, NoModel), f>> \o Below = <<Creation(m, FALSE, NoModel)>> \o st
  <2>1. Creation(m, FALSE, NoModel) \in Frame
    <3>1. NewObject \in Object
      BY <1>1 DEF EngineObject
    <3> QED BY <3>1 DEF Creation, Frame, Creating
  <2>2. Below \in Seq(Frame)
    BY <1>2 DEF Calls
  <2> QED BY <1>4, <2>1, <2>2, TwoPushed
<1>9. Calls(stack', life', model', reg', locked', deleteMark')
  <2> HIDE DEF st
  <2> QED BY <1>1, <1>3, <1>7, <1>8, CreationPushed
<1>10. Objects(life', model', reg') /\ Registry(reg', Classes(model'))
  BY <1>1, <1>3, MadeKeeps
<1> QED BY <1>1, <1>9, <1>10 DEF IInv

LEMMA SendCreateStep ==
  ASSUME IInv, SendCreate PROVE IInv'
<1> DEFINE o == Top.obj
           f == [Top EXCEPT !.at = "OnCreate"]
<1>1. /\ stack # <<>> /\ Top.at = "event"
      /\ UNCHANGED <<life, model, deleteMark, locked>>
  BY DEF SendCreate, At, engineVars, stateVars
<1>2. /\ Top \in Frame /\ One(Top, life, model, reg)
      /\ \A j \in DOMAIN Below : Apart(Top, Below[j])
      /\ Calls(Below, life, model, reg, locked, deleteMark)
  BY <1>1, TopIs DEF Asked, Deleting
<1>3. createMark' \in Models \cup {NoModel}
  BY DEF SendCreate, MarkAfterEvent, IInv
<1>4. CASE MakerOf(o) = NoBinder
  <2>1. stack' = Below /\ reg' = reg
    BY <1>4 DEF SendCreate
  <2>2. Objects(life', model', reg') /\ Registry(reg', Classes(model'))
    BY <1>1, <2>1, SameObjects
  <2> QED BY <1>1, <1>2, <1>3, <2>1, <2>2 DEF IInv
<1>5. CASE MakerOf(o) # NoBinder
  <2>1. stack' = <<f>> \o Below /\ reg' = Link(reg, MakerOf(o), o)
    BY <1>5 DEF SendCreate, Swap
  <2>2. o \in Object /\ life[o] \in Alive /\ o \notin Registered(reg)
    BY <1>1, <1>2 DEF One, Frame, Creating
  <2>3. MakerOf(o) = GetBinder(model[o], TRUE)
    <3>1. model[o] \in Models /\ (createMark # NoModel) \in BOOLEAN
      BY <2>2 DEF IInv, Objects
    <3> HIDE DEF o
    <3> QED BY <1>5, <3>1, BinderIs DEF MakerOf
  <2>4. /\ Objects(life', model', reg') /\ Registry(reg', Classes(model'))
        /\ Registered(reg') = Registered(reg) \cup {o}
    <3> HIDE DEF o
    <3> QED BY <1>1, <2>1, <2>2, <2>3, LinkStep
  <2>5. f \in Frame /\ f.at = "OnCreate" /\ f.obj = o
    BY <1>2 DEF Frame, Creating
  <2> HIDE DEF f, o
  <2>6. One(f, life', model', reg') /\ ~Begun(f) /\ ~Asked(f)
    BY <1>1, <2>2, <2>5 DEF One, Begun, Asked, Walks, GameCalls, Deleting, Object, NoObject
  <2>7. ASSUME NEW j \in DOMAIN Below PROVE Below[j].at # "engine" => Below[j].obj # o
    BY <1>1, <1>2 DEF Apart, Alone, o
  <2>8. \A j \in DOMAIN Below : Apart(f, Below[j])
    BY <2>5, <2>7 DEF Apart, Walks, GameCalls, Deleting
  <2>9. Calls(Below, life', model', reg', locked', deleteMark')
    <3>1. ASSUME NEW j \in DOMAIN Below, One(Below[j], life, model, reg)
          PROVE  One(Below[j], life', model', reg')
      BY <1>1, <2>4, <2>7, <3>1, OneKept
    <3>2. \A j \in DOMAIN Below : Begun(Below[j]) => locked'
      BY <1>1, <1>2 DEF Calls
    <3> QED BY <1>1, <1>2, <3>1, <3>2, Kept
  <2>10. Calls(stack', life', model', reg', locked', deleteMark')
    BY <2>1, <2>5, <2>6, <2>8, <2>9, Pushed
  <2> QED BY <1>1, <1>3, <2>4, <2>10 DEF IInv
<1> QED BY <1>4, <1>5

\* A call gives way to another one, at the same place.
LEMMA Swapped ==
  ASSUME IInv, stack # <<>>, ~Asked(Top),
         NEW f \in Frame, One(f, life, model, reg), Begun(f) => locked, ~Asked(f),
         \A j \in DOMAIN Below : Apart(Top, Below[j]) => Apart(f, Below[j])
  PROVE  Calls(Swap(f), life, model, reg, locked, deleteMark)
<1>1. /\ \A j \in DOMAIN Below : Apart(f, Below[j])
      /\ Calls(Below, life, model, reg, locked, deleteMark)
  BY TopIs
<1>2. Calls(<<f>> \o Below, life, model, reg, locked, deleteMark)
  BY <1>1, Pushed
<1> QED BY <1>2 DEF Swap

LEMMA CreatedRunningStep ==
  ASSUME IInv, CreatedRunning PROVE IInv'
<1> DEFINE f == [Top EXCEPT !.at = "OnStartGame"]
<1>1. /\ stack # <<>> /\ Top.at = "OnCreate" /\ stack' = Swap(f)
      /\ UNCHANGED <<life, model, reg, createMark, deleteMark, locked>>
  BY DEF CreatedRunning, At, engineVars, markVars, stateVars
<1>2. Top \in Frame /\ One(Top, life, model, reg) /\ ~Asked(Top)
  BY <1>1, TopIs DEF Asked, Deleting
<1>3. f \in Frame /\ f.at = "OnStartGame" /\ f.obj = Top.obj
  BY <1>2 DEF Frame, Creating
<1> HIDE DEF f
<1>4. One(f, life, model, reg) /\ ~Begun(f) /\ ~Asked(f)
  BY <1>1, <1>2, <1>3 DEF One, Begun, Asked, Creating, Walks, GameCalls, Deleting
<1>5. \A j \in DOMAIN Below : Apart(Top, Below[j]) => Apart(f, Below[j])
  BY <1>1, <1>3 DEF Apart, Alone, Walks, GameCalls, Deleting
<1>6. Calls(stack', life', model', reg', locked', deleteMark')
  <2>1. Calls(Swap(f), life, model, reg, locked, deleteMark)
    BY <1>1, <1>2, <1>3, <1>4, <1>5, Swapped
  <2> QED BY <1>1, <2>1
<1> QED BY <1>1, <1>6, SameObjects DEF IInv

LEMMA EndCreateStep ==
  ASSUME IInv, EndCreate PROVE IInv'
<1> DEFINE f == Calling("OnObjectCreate", Top.obj)
<1>1. /\ stack # <<>> /\ Top.at \in {"OnStartGame", "OnCreate"}
      /\ UNCHANGED <<life, model, reg, deleteMark, locked>>
  BY DEF EndCreate, At, engineVars, stateVars
<1>2. /\ Top \in Frame /\ One(Top, life, model, reg) /\ ~Asked(Top)
      /\ Calls(Below, life, model, reg, locked, deleteMark)
  BY <1>1, TopIs DEF Asked, Deleting
<1>3. createMark' \in Models \cup {NoModel}
  BY <1>2 DEF EndCreate, MarkToRestore, IInv, Frame
<1>4. Calls(stack', life', model', reg', locked', deleteMark')
  <2>1. CASE ~Top.asked
    BY <1>1, <1>2, <2>1 DEF EndCreate
  <2>2. CASE Top.asked
    <3>1. stack' = Swap(f)
      BY <2>2 DEF EndCreate
    <3>2. f \in Frame /\ f.at = "OnObjectCreate" /\ f.obj = Top.obj
      BY <1>2 DEF Calling, Frame, Handling
    <3> HIDE DEF f
    <3>3. One(f, life, model, reg) /\ ~Begun(f) /\ ~Asked(f)
      BY <1>1, <1>2, <3>2 DEF One, Begun, Asked, Creating, Handling, Walks, GameCalls, Deleting
    <3>4. \A j \in DOMAIN Below : Apart(Top, Below[j]) => Apart(f, Below[j])
      BY <1>1, <3>2 DEF Apart, Alone, Walks, GameCalls, Deleting
    <3>5. Calls(Swap(f), life, model, reg, locked, deleteMark)
      BY <1>1, <1>2, <3>2, <3>3, <3>4, Swapped
    <3> QED BY <1>1, <3>1, <3>5
  <2> QED BY <2>1, <2>2
<1> QED BY <1>1, <1>3, <1>4, SameObjects DEF IInv

-----------------------------------------------------------------------------
(* The steps: deletion *)

\* SetLifeTime, or a deletion under the lock, leaves a registered object to the engine.
LEMMA LeaveToEngine ==
  ASSUME IInv, NEW o \in Registered(reg), life' = [life EXCEPT ![o] = "zero"],
         UNCHANGED <<stack, model, reg, createMark, deleteMark, locked>>
  PROVE  IInv'
<1>1. life \in [Object -> Life] /\ o \in Object /\ life[o] \in Alive
  BY DEF IInv, Objects
<1>2. /\ life' \in [Object -> Life] /\ life'[o] = "zero"
      /\ \A p \in Object : p # o => life'[p] = life[p]
  BY <1>1 DEF Life
<1>3. \A p \in Object : life'[p] \in Alive <=> life[p] \in Alive
  BY <1>1, <1>2 DEF Alive
<1>4. Objects(life', model', reg')
  <2>1. {p \in Object : life'[p] # "none"} = {p \in Object : life[p] # "none"}
    BY <1>1, <1>2 DEF Alive
  <2> QED BY <1>2, <1>3, <2>1 DEF IInv, Objects
<1>5. ASSUME NEW f, One(f, life, model, reg) PROVE One(f, life', model', reg')
  <2>1. life[f.obj] \in Alive => life'[f.obj] \in Alive
    BY <1>1 DEF Alive
  <2>2. model' = model /\ reg' = reg
    OBVIOUS
  <2> QED BY <1>5, <2>1, <2>2, OneKept
<1>6. Calls(stack', life', model', reg', locked', deleteMark')
  <2>1. \A i \in DOMAIN stack : Begun(stack[i]) => locked
    BY DEF IInv, Calls
  <2>2. Calls(stack, life', model', reg', locked, deleteMark)
    BY <1>5, <2>1, Kept DEF IInv
  <2> QED BY <2>2
<1> QED BY <1>4, <1>6 DEF IInv

\* No call in progress that matters is at an object that is not busy, while no walk
\* has the lock.
LEMMA DeleteObjectStep ==
  ASSUME IInv, NEW o \in Registered(reg), locked \/ o \notin Busy, DeleteObject(o)
  PROVE  IInv'
<1>1. UNCHANGED <<model, reg, createMark, locked>>
  BY DEF DeleteObject, stateVars
<1>2. CASE locked
  <2>1. life' = [life EXCEPT ![o] = "zero"] /\ UNCHANGED <<stack, deleteMark>>
    BY <1>2 DEF DeleteObject, MustWait
  <2> QED BY <1>1, <2>1, LeaveToEngine
<1>3. CASE ~locked
  <2> DEFINE f == Deletion(o, TRUE, deleteMark)
  <2>1. stack' = <<f>> \o stack /\ deleteMark' = model[o] /\ life' = life
    BY <1>3 DEF DeleteObject, MustWait, Push
  <2>2. o \in Object /\ life[o] \in Alive /\ model[o] \in Models
    BY DEF IInv, Objects
  <2>3. f \in Frame /\ f.at = "OnObjectDelete" /\ f.obj = o /\ f.asked /\ f.mark = deleteMark
    BY <2>2 DEF IInv, Deletion, Calling, Frame, Deleting
  <2> HIDE DEF f
  <2>4. One(f, life, model, reg) /\ ~Begun(f) /\ Asked(f)
    BY <2>2, <2>3 DEF One, Begun, Asked, Walks, GameCalls, Deleting, Object, NoObject
  <2>5. ASSUME NEW i \in DOMAIN stack
        PROVE  /\ One(stack[i], life, model, reg) /\ ~Begun(stack[i])
               /\ stack[i].at \in Creating \cup Deleting \cup Handling => stack[i].obj # o
               /\ stack[i] \in Frame
    BY <1>3 DEF IInv, Calls, Busy, Frames, ToSet
  <2>6. ASSUME NEW i \in DOMAIN stack PROVE Apart(f, stack[i])
    <3>1. stack[i].at # "engine" => stack[i].obj # o
      <4>1. o # NoObject
        BY <2>2 DEF Object, NoObject
      <4> QED BY <2>5, <4>1 DEF One, Begun, Frame
    <3> QED BY <2>3, <2>5, <3>1 DEF Apart, Walks, GameCalls
  <2>7. Calls(stack', life', model', reg', locked', deleteMark')
    <3>1. Calls(<<f>> \o stack, life, model, reg, locked, model[o])
      BY <2>3, <2>4, <2>6, Pushed DEF IInv
    <3> QED BY <1>1, <2>1, <3>1
  <2> QED BY <1>1, <2>1, <2>2, <2>7, SameObjects DEF IInv
<1> QED BY <1>2, <1>3

LEMMA EndOnObjectDeleteStep ==
  ASSUME IInv, EndOnObjectDelete PROVE IInv'
<1> DEFINE f == [Top EXCEPT !.at = "OnDelete", !.lock = locked]
<1>1. /\ stack # <<>> /\ Top.at = "OnObjectDelete" /\ stack' = <<f>> \o Below /\ locked' = TRUE
      /\ UNCHANGED <<life, model, reg, createMark, deleteMark>>
  BY DEF EndOnObjectDelete, At, Swap, engineVars, markVars
<1> DEFINE dm == IF Asked(Top) THEN Top.mark ELSE deleteMark
<1>2. /\ Top \in Frame /\ One(Top, life, model, reg)
      /\ \A j \in DOMAIN Below : Apart(Top, Below[j])
      /\ Calls(Below, life, model, reg, locked, dm)
  BY <1>1, TopIs
<1>3. f \in Frame /\ f.at = "OnDelete" /\ f.obj = Top.obj /\ f.asked = Top.asked /\ f.mark = Top.mark
  BY <1>2 DEF Frame, Deleting, IInv
<1> HIDE DEF f
<1>4. One(f, life, model, reg) /\ ~Begun(f) /\ (Asked(f) <=> Asked(Top))
  BY <1>1, <1>2, <1>3 DEF One, Begun, Asked, Walks, GameCalls, Deleting
<1>5. \A j \in DOMAIN Below : Apart(f, Below[j])
  BY <1>1, <1>2, <1>3 DEF Apart, Alone, Walks, GameCalls, Deleting
<1>6. Calls(Below, life, model, reg, TRUE, dm)
  <2> HIDE DEF dm
  <2> QED BY <1>2 DEF Calls
<1>7. IF Asked(f) THEN f.mark = dm ELSE deleteMark = dm
  BY <1>3, <1>4
<1>8. Calls(<<f>> \o Below, life, model, reg, TRUE, deleteMark)
  <2> HIDE DEF dm
  <2> QED BY <1>3, <1>4, <1>5, <1>6, <1>7, Pushed
<1> QED BY <1>1, <1>8, SameObjects DEF IInv

LEMMA EndDeleteStep ==
  ASSUME IInv, EndDelete PROVE IInv'
<1> DEFINE o == Top.obj
           cl == Classes(model)
<1>1. /\ stack # <<>> /\ Top.at = "OnDelete" /\ stack' = Below /\ locked' = Top.lock
      /\ reg' = Unlink(reg, GetBinder(model[o], TRUE), o) /\ Kill(o)
      /\ deleteMark' = IF Top.asked THEN Top.mark ELSE deleteMark
      /\ createMark' = createMark
  BY DEF EndDelete, At, LockToRestore
<1>2. /\ Top \in Frame /\ One(Top, life, model, reg)
      /\ \A j \in DOMAIN Below : Apart(Top, Below[j])
      /\ Calls(Below, life, model, reg, locked, IF Asked(Top) THEN Top.mark ELSE deleteMark)
  BY <1>1, TopIs
<1>3. Calls(Below, life, model, reg, locked, deleteMark')
  BY <1>1, <1>2 DEF Asked, Deleting
<1>4. o \in Registered(reg) /\ o \in Object /\ life[o] \in Alive /\ model[o] \in Models
  BY <1>1, <1>2 DEF One, Deleting, IInv, Objects
<1>5. Registry(reg', cl) /\ Registered(reg') = Registered(reg) \ {o}
  <2>1. cl[o] = GetBinder(model[o], TRUE) /\ cl[o] \in Binders
    BY <1>4, BinderIs DEF Classes
  <2>2. Registry(reg, cl) /\ reg' = Unlink(reg, cl[o], o)
    BY <1>1, <2>1 DEF IInv
  <2> HIDE DEF cl, o
  <2>3. /\ Registry(Unlink(reg, cl[o], o), cl)
        /\ Registered(Unlink(reg, cl[o], o)) = Registered(reg) \ {o}
    BY <1>4, <2>1, <2>2, UnlinkKeeps
  <2> QED BY <2>2, <2>3
<1> HIDE DEF o
<1>6. /\ Objects(life', model', reg')
      /\ \A p \in Object : p # o => /\ life[p] \in Alive => life'[p] \in Alive
                                    /\ model'[p] = model[p]
  <2>1. Registered(reg') \subseteq Registered(reg) \ {o}
    BY <1>5
  <2> QED BY <1>1, <1>4, <2>1, KillKeeps DEF IInv
<1>7. Registry(reg', Classes(model'))
  <2>1. \A p \in Registered(reg') : Classes(model')[p] = cl[p]
    BY <1>5, <1>6 DEF Classes, IInv, Objects
  <2> HIDE DEF cl
  <2> QED BY <1>5, <2>1, RegistryCongruence
<1>8. ASSUME NEW j \in DOMAIN Below
      PROVE  /\ Below[j].at # "engine" => Below[j].obj # o
             /\ ~Begun(Below[j]) /\ Below[j] \in Frame
  <2>1. Apart(Top, Below[j]) /\ Below[j] \in Frame
    BY <1>2, <1>3 DEF Calls
  <2> QED BY <1>1, <2>1 DEF Apart, Alone, Deleting, o
<1>9. Calls(Below, life', model', reg', locked', deleteMark')
  <2>1. ASSUME NEW j \in DOMAIN Below, One(Below[j], life, model, reg)
        PROVE  One(Below[j], life', model', reg')
    <3> DEFINE g == Below[j]
    <3>1. ASSUME g.obj # NoObject, g.at # "engine"
          PROVE  /\ life[g.obj] \in Alive => life'[g.obj] \in Alive
                 /\ model'[g.obj] = model[g.obj]
                 /\ g.obj \in Registered(reg) <=> g.obj \in Registered(reg')
      <4>1. g.obj \in Object /\ g.obj # o
        BY <1>8, <3>1 DEF Frame
      <4> QED BY <1>5, <1>6, <4>1
    <3> QED BY <2>1, <3>1, OneKept
  <2> QED BY <1>3, <1>8, <2>1, Kept
<1>10. locked' \in BOOLEAN /\ deleteMark' \in Models \cup {NoModel}
  BY <1>1, <1>2 DEF Frame, IInv
<1> QED BY <1>1, <1>6, <1>7, <1>9, <1>10 DEF IInv

-----------------------------------------------------------------------------
(* The steps: walks and the game's own calls *)

LEMMA WalkIs ==
  ASSUME NEW at \in Walks, NEW on \in BOOLEAN
  PROVE  /\ Walk(at, on) \in Frame /\ One(Walk(at, on), life, model, reg)
         /\ Walk(at, on).at = at /\ ~Begun(Walk(at, on)) /\ ~Asked(Walk(at, on))
<1> DEFINE f == Walk(at, on)
<1>1. f.at = at /\ f.obj = NoObject /\ f.lock = FALSE /\ f \in Frame
  BY DEF Walk, Calling, Frame
<1> HIDE DEF f
<1>2. One(f, life, model, reg) /\ ~Begun(f) /\ ~Asked(f)
  BY <1>1 DEF One, Begun, Asked, Walks, GameCalls, Creating, Deleting, Handling
<1> QED BY <1>1, <1>2 DEF f

LEMMA GameCallIs ==
  ASSUME NEW at \in GameCalls
  PROVE  LET f == Calling(at, NoObject)
         IN  f \in Frame /\ One(f, life, model, reg) /\ f.at = at /\ ~Begun(f) /\ ~Asked(f)
BY DEF Calling, Frame, One, Begun, Asked, Walks, GameCalls, Creating, Deleting, Handling

\* Where the game's own callbacks are called there is no walk that has begun.
LEMMA WalkPushed ==
  ASSUME IInv, stack # <<>>, Top.at \in GameCalls, NEW at \in Walks, NEW on \in BOOLEAN
  PROVE  /\ Calls(<<Walk(at, on)>> \o stack, life, model, reg, locked, deleteMark)
         /\ \A j \in DOMAIN stack : Apart(Walk(at, on), stack[j])
<1>1. stack \in Seq(Frame) /\ Top = stack[1] /\ DOMAIN stack = 1..Len(stack) /\ 1 \in DOMAIN stack
  BY PopIs DEF IInv, Calls, Top
<1>2. ASSUME NEW j \in DOMAIN stack
      PROVE  stack[j].at \in Walks \cup GameCalls /\ ~Begun(stack[j])
  <2>1. CASE j = 1
    BY <1>1, <2>1 DEF Begun, Walks, GameCalls
  <2>2. CASE j # 1
    <3>1. Apart(stack[1], stack[j])
      BY <1>1, <2>2 DEF IInv, Calls
    <3> QED BY <1>1, <3>1 DEF Apart
  <2> QED BY <2>1, <2>2
<1>3. \A j \in DOMAIN stack : Apart(Walk(at, on), stack[j])
  BY <1>2, WalkIs DEF Apart, Alone, Walks, GameCalls, Deleting
<1> QED BY <1>3, WalkIs, Pushed DEF IInv

LEMMA CallWalkStep ==
  ASSUME IInv, ~NestedWalks, CallStartGame \/ CallStopGame \/ CallPauseGame
  PROVE  IInv'
<1>1. /\ stack # <<>> /\ Top.at \in GameCalls
      /\ UNCHANGED <<life, model, reg, createMark, deleteMark, locked>>
  BY DEF CallStartGame, CallStopGame, CallPauseGame, MayWalk, MayCall, GameCalls,
         engineVars, markVars, stateVars
<1>2. Calls(stack', life, model, reg, locked, deleteMark)
  <2>1. CASE CallStartGame
    <3>1. stack' = <<Walk("StartGame", FALSE)>> \o stack
      BY <2>1 DEF CallStartGame, Push
    <3> QED BY <1>1, <3>1, WalkPushed DEF Walks
  <2>2. CASE CallPauseGame
    <3>1. stack' = <<Walk("PauseGame", ~paused)>> \o stack
      BY <2>2 DEF CallPauseGame, Push
    <3> QED BY <1>1, <3>1, WalkPushed DEF Walks
  <2>3. CASE CallStopGame
    <3> DEFINE f == Walk("StopGame", FALSE)
               g == Walk("PauseGame", FALSE)
               st == <<f>> \o stack
    <3>1. /\ Calls(st, life, model, reg, locked, deleteMark)
          /\ \A j \in DOMAIN stack : Apart(g, stack[j])
          /\ f \in Frame /\ f.at = "StopGame" /\ ~Begun(f) /\ ~Asked(f)
          /\ g \in Frame /\ g.at = "PauseGame" /\ ~Begun(g) /\ ~Asked(g) /\ One(g, life, model, reg)
      BY <1>1, WalkPushed, WalkIs DEF Walks
    <3>2. stack' = st \/ stack' = <<g, f>> \o stack
      BY <2>3 DEF CallStopGame, StopWalks
    <3> HIDE DEF f, g
    <3>3. stack \in Seq(Frame)
      BY DEF IInv, Calls
    <3>4. <<g, f>> \o stack = <<g>> \o st
      BY <3>1, <3>3, TwoPushed
    <3>5. \A j \in DOMAIN st : Apart(g, st[j])
      <4>1. \A j \in DOMAIN st : st[j] = f \/ \E k \in DOMAIN stack : st[j] = stack[k]
        <5>1. /\ st \in Seq(Frame) /\ Len(st) = Len(stack) + 1 /\ Len(stack) \in Nat
              /\ \A k \in 1..Len(stack) + 1 : st[k] = IF k = 1 THEN f ELSE stack[k - 1]
          BY <3>1, <3>3, PushIs
        <5> HIDE DEF st
        <5> QED BY <3>3, <5>1
      <4>2. Apart(g, f)
        BY <3>1 DEF Apart, Alone, Walks, GameCalls, Deleting
      <4> QED BY <3>1, <4>1, <4>2
    <3>6. Calls(<<g>> \o st, life, model, reg, locked, deleteMark)
      <4> HIDE DEF st
      <4> QED BY <3>1, <3>5, Pushed
    <3> QED BY <3>1, <3>2, <3>4, <3>6
  <2> QED BY <2>1, <2>2, <2>3
<1>3. Calls(stack', life', model', reg', locked', deleteMark')
  BY <1>1, <1>2
<1> QED BY <1>1, <1>3, SameObjects DEF IInv

LEMMA WalkBeginStep ==
  ASSUME IInv, WalkBegin PROVE IInv'
<1> DEFINE f == [Top EXCEPT !.lock = TRUE]
<1>1. /\ stack # <<>> /\ Top.at \in Walks /\ stack' = <<f>> \o Below /\ locked' = TRUE
      /\ UNCHANGED <<life, model, reg, createMark, deleteMark>>
  BY DEF WalkBegin, Swap, engineVars, markVars
<1>2. /\ Top \in Frame /\ One(Top, life, model, reg)
      /\ \A j \in DOMAIN Below : Apart(Top, Below[j])
      /\ Calls(Below, life, model, reg, locked, deleteMark)
  BY <1>1, TopIs DEF Asked, Deleting, Walks
<1>3. f \in Frame /\ f.at = Top.at /\ f.obj = Top.obj /\ f.lock
  BY <1>2 DEF Frame
<1> HIDE DEF f
<1>4. One(f, life, model, reg) /\ ~Asked(f)
  BY <1>1, <1>2, <1>3 DEF One, Asked, Walks, Deleting
<1>5. \A j \in DOMAIN Below : Apart(f, Below[j])
  BY <1>2, <1>3 DEF Apart
<1>6. Calls(Below, life, model, reg, TRUE, deleteMark)
  BY <1>2 DEF Calls
<1>7. Calls(<<f>> \o Below, life, model, reg, TRUE, deleteMark)
  BY <1>3, <1>4, <1>5, <1>6, Pushed
<1> QED BY <1>1, <1>7, SameObjects DEF IInv

LEMMA LowestIs ==
  ASSUME NEW S \in SUBSET Object
  PROVE  Lowest(S) # NoObject => Lowest(S) \in S
<1>1. S \in SUBSET Nat
  BY DEF Object
<1> QED BY <1>1, FirstOf DEF Lowest

\* A walk reaches an object that is alive.
LEMMA NextIs ==
  ASSUME IInv, NEW f \in Frame, One(f, life, model, reg), f.at \in Walks, NextOf(f) # NoObject
  PROVE  /\ NextOf(f) \in Object /\ life[NextOf(f)] \in Alive
         /\ f.at # "BaseUpdate" => NextOf(f) \in Registered(reg)
<1>1. /\ reg.list \in Seq(Object) /\ ToSet(reg.list) = Registered(reg)
      /\ \A o \in Registered(reg) : o \in Object /\ life[o] \in Alive
  BY DEF IInv, Registry, RegistryState, Objects
<1>2. DOMAIN reg.list = 1..Len(reg.list) /\ Len(reg.list) \in Nat
  BY <1>1
<1>3. CASE f.at = "BaseUpdate"
  <2> DEFINE S == {p \in Live \ frozen : p > f.obj /\ Bound(p) /\ life[p] # "zero"}
  <2>1. NextOf(f) = Lowest(S)
    BY <1>3 DEF NextOf, NextToUpdate
  <2>2. S \in SUBSET Object /\ \A p \in S : life[p] \in Alive
    BY DEF Live, Alive
  <2> HIDE DEF S
  <2> QED BY <1>3, <2>1, <2>2, LowestIs
<1>4. ASSUME NextOf(f) \in ToSet(reg.list) PROVE NextOf(f) \in Registered(reg)
  BY <1>1, <1>4
<1>5. CASE f.at = "PauseGame"
  <2> DEFINE from  == IF f.obj = NoObject THEN 0 ELSE Place(reg.list, f.obj)
             later == {i \in DOMAIN reg.list : i > from /\ model[reg.list[i]] \in Pausable}
  <2>1. NextOf(f) = IF later = {} THEN NoObject ELSE reg.list[Min(later)]
    BY <1>5 DEF NextOf, NextToPause
  <2>2. later \in SUBSET DOMAIN reg.list /\ later \in SUBSET Nat
    BY <1>2
  <2> HIDE DEF later
  <2>3. later # {} /\ NextOf(f) = reg.list[Min(later)]
    BY <2>1
  <2>4. Min(later) \in DOMAIN reg.list
    BY <2>2, <2>3, FirstOf
  <2> QED BY <1>1, <1>4, <2>3, <2>4 DEF ToSet
<1>6. CASE f.at \notin {"BaseUpdate", "PauseGame"}
  <2>1. NextOf(f) = GetNextObject(reg.list, f.obj)
    BY <1>6 DEF NextOf
  <2>2. CASE f.obj = NoObject
    <3>1. reg.list # <<>> /\ NextOf(f) = Head(reg.list)
      BY <2>1, <2>2 DEF GetNextObject
    <3>2. NextOf(f) = reg.list[1] /\ 1 \in DOMAIN reg.list
      BY <1>1, <3>1, PopIs
    <3> QED BY <1>1, <1>4, <3>2 DEF ToSet
  <2>3. CASE f.obj # NoObject
    <3>1. f.obj \in ToSet(reg.list)
      BY <1>1, <1>6, <2>3 DEF One
    <3>2. Place(reg.list, f.obj) \in 1..Len(reg.list)
      BY <1>1, <3>1, PlaceIs
    <3>3. /\ NextOf(f) = reg.list[Place(reg.list, f.obj) + 1]
          /\ Place(reg.list, f.obj) + 1 \in DOMAIN reg.list
      BY <1>2, <2>1, <2>3, <3>2 DEF GetNextObject
    <3> QED BY <1>1, <1>4, <3>3 DEF ToSet
  <2> QED BY <2>2, <2>3
<1> QED BY <1>3, <1>5, <1>6

LEMMA WalkNextStep ==
  ASSUME IInv, WalkNext PROVE IInv'
<1> DEFINE o == NextOf(Top)
           f == [Top EXCEPT !.obj = o]
<1>1. /\ stack # <<>> /\ Top.at \in Walks /\ Top.lock /\ o # NoObject /\ stack' = Swap(f)
      /\ UNCHANGED <<life, model, reg, createMark, deleteMark, locked>>
  BY DEF WalkNext, markVars, stateVars
<1>2. Top \in Frame /\ One(Top, life, model, reg) /\ ~Asked(Top) /\ (Begun(Top) => locked)
  BY <1>1, TopIs DEF Asked, Deleting, Walks
<1>3. /\ o \in Object /\ life[o] \in Alive
      /\ Top.at # "BaseUpdate" => o \in Registered(reg)
  BY <1>1, <1>2, NextIs
<1> HIDE DEF o
<1>4. f \in Frame /\ f.at = Top.at /\ f.obj = o /\ f.lock = Top.lock
  BY <1>2, <1>3 DEF Frame
<1> HIDE DEF f
<1>5. One(f, life, model, reg) /\ ~Asked(f) /\ (Begun(f) => locked)
  BY <1>1, <1>2, <1>3, <1>4 DEF One, Begun, Asked, Walks, GameCalls, Creating, Deleting, Handling
<1>6. \A j \in DOMAIN Below : Apart(Top, Below[j]) => Apart(f, Below[j])
  BY <1>1, <1>4 DEF Apart, Alone, Walks, GameCalls, Deleting
<1>7. Calls(Swap(f), life, model, reg, locked, deleteMark)
  BY <1>1, <1>2, <1>4, <1>5, <1>6, Swapped
<1>8. Calls(stack', life', model', reg', locked', deleteMark')
  BY <1>1, <1>7
<1> QED BY <1>1, <1>8, SameObjects DEF IInv

LEMMA WalkEndStep ==
  ASSUME IInv, WalkEnd PROVE IInv'
<1> DEFINE at == IF Top.at = "BaseUpdate" THEN "Update" ELSE "OnGame"
           f == Calling(at, NoObject)
<1>1. /\ stack # <<>> /\ Top.at \in Walks /\ Top.lock /\ locked' = FALSE
      /\ stack' = <<f>> \o Below
      /\ UNCHANGED <<life, model, reg, createMark, deleteMark>>
  BY DEF WalkEnd, Swap, markVars
<1>2. /\ \A j \in DOMAIN Below : Apart(Top, Below[j])
      /\ Calls(Below, life, model, reg, locked, deleteMark)
  BY <1>1, TopIs DEF Asked, Deleting, Walks
<1>3. f \in Frame /\ One(f, life, model, reg) /\ f.at \in GameCalls /\ ~Begun(f) /\ ~Asked(f)
  <2>1. at \in GameCalls
    BY DEF GameCalls
  <2> HIDE DEF at
  <2> QED BY <2>1, GameCallIs
<1> HIDE DEF f
<1>4. \A j \in DOMAIN Below : Apart(f, Below[j]) /\ ~Begun(Below[j])
  BY <1>1, <1>2, <1>3 DEF Apart, Alone, Walks, GameCalls, Deleting
<1>5. Calls(Below, life, model, reg, FALSE, deleteMark)
  BY <1>2, <1>4 DEF Calls
<1>6. Calls(<<f>> \o Below, life, model, reg, FALSE, deleteMark)
  BY <1>3, <1>4, <1>5, Pushed
<1> QED BY <1>1, <1>6, SameObjects DEF IInv

LEMMA ReturnStep ==
  ASSUME IInv, Return PROVE IInv'
<1>1. /\ stack # <<>> /\ Top.at \in GameCalls \cup Handling /\ stack' = Below
      /\ UNCHANGED <<life, model, reg, createMark, deleteMark, locked>>
  BY DEF Return, engineVars, markVars, stateVars
<1>2. Calls(Below, life, model, reg, locked, deleteMark)
  BY <1>1, TopIs DEF Asked, Deleting, GameCalls, Handling
<1> QED BY <1>1, <1>2, SameObjects DEF IInv

-----------------------------------------------------------------------------
(* The steps: the main loop *)

\* Between its steps no call is in progress, and no deletion is marked.
LEMMA Idle ==
  ASSUME IInv, stack = <<>>
  PROVE  /\ deleteMark = NoModel
         /\ \A lk : Calls(<<>>, life, model, reg, lk, deleteMark)
<1>1. DOMAIN stack = {}
  OBVIOUS
<1>2. deleteMark = NoModel
  BY <1>1 DEF IInv, Calls, Marks
<1> QED BY <1>2, NoCalls

LEMMA OnlyCall ==
  ASSUME NEW lk, Calls(<<>>, life, model, reg, lk, deleteMark),
         NEW f \in Frame, One(f, life, model, reg), ~Begun(f), ~Asked(f)
  PROVE  Calls(<<f>>, life, model, reg, lk, deleteMark) /\ <<f>> \in Seq(Frame)
<1>1. <<f>> \in Seq(Frame) /\ <<f>> \o <<>> = <<f>>
  BY ConcatEmptySeq
<1>2. DOMAIN <<>> = {}
  OBVIOUS
<1>3. Calls(<<f>> \o <<>>, life, model, reg, lk, deleteMark)
  BY <1>2, Pushed
<1> QED BY <1>1, <1>3

\* A step that starts at most one call of the game, or one walk.
LEMMA StepStarts ==
  ASSUME IInv, stack = <<>>, NEW f \in Frame, One(f, life, model, reg), ~Begun(f), ~Asked(f),
         stack' \in {<<>>, <<f>>}, UNCHANGED <<life, model, reg, createMark, deleteMark>>,
         locked' \in BOOLEAN
  PROVE  IInv'
<1>1. Calls(<<>>, life, model, reg, locked', deleteMark)
  BY Idle
<1>2. Calls(<<f>>, life, model, reg, locked', deleteMark)
  BY <1>1, OnlyCall
<1>3. Calls(stack', life', model', reg', locked', deleteMark')
  BY <1>1, <1>2
<1> QED BY <1>3, SameObjects DEF IInv

LEMMA FrameStep ==
  ASSUME IInv, NextFrame \/ Close \/ Clear \/ Started \/ Done
  PROVE  IInv'
<1>1. stack = <<>> /\ UNCHANGED <<life, model, reg, createMark, deleteMark, locked>>
  BY DEF NextFrame, Close, Clear, Started, Done, Step, engineVars, markVars, stateVars
<1>2. locked' \in BOOLEAN
  BY <1>1 DEF IInv
<1>3. \/ \E at \in GameCalls : stack' \in {<<>>, <<Calling(at, NoObject)>>}
      \/ stack' = <<Walk("StartGame", FALSE)>>
  BY <1>1 DEF NextFrame, Close, Clear, Started, Done, GameCalls
<1>4. CASE \E at \in GameCalls : stack' \in {<<>>, <<Calling(at, NoObject)>>}
  <2>1. PICK at \in GameCalls : stack' \in {<<>>, <<Calling(at, NoObject)>>}
    BY <1>4
  <2> DEFINE f == Calling(at, NoObject)
  <2>2. f \in Frame /\ One(f, life, model, reg) /\ ~Begun(f) /\ ~Asked(f)
    BY GameCallIs
  <2> HIDE DEF f
  <2> QED BY <1>1, <1>2, <2>1, <2>2, StepStarts DEF f
<1>5. CASE stack' = <<Walk("StartGame", FALSE)>>
  <2> DEFINE f == Walk("StartGame", FALSE)
  <2>1. f \in Frame /\ One(f, life, model, reg) /\ ~Begun(f) /\ ~Asked(f)
    BY WalkIs DEF Walks
  <2>2. stack' \in {<<>>, <<f>>}
    BY <1>5
  <2> HIDE DEF f
  <2> QED BY <1>1, <1>2, <2>1, <2>2, StepStarts
<1> QED BY <1>3, <1>4, <1>5

LEMMA TickStep ==
  ASSUME IInv, Tick PROVE IInv'
<1> DEFINE c == Calling("CameraUpdate", NoObject)
           u == Calling("Update", NoObject)
           w == Walk("BaseUpdate", FALSE)
<1>1. /\ stack = <<>> /\ UNCHANGED <<life, model, reg, createMark, deleteMark, locked>>
      /\ stack' \in {<<>> \o <<c>>, <<u>> \o <<c>>, <<w>> \o <<c>>}
  BY DEF Tick, Step, engineVars, markVars, stateVars
<1>2. c \in Frame /\ One(c, life, model, reg) /\ c.at = "CameraUpdate" /\ ~Begun(c) /\ ~Asked(c)
  BY GameCallIs DEF GameCalls
<1>3. u \in Frame /\ One(u, life, model, reg) /\ u.at = "Update" /\ ~Begun(u) /\ ~Asked(u)
  BY GameCallIs DEF GameCalls
<1>4. w \in Frame /\ One(w, life, model, reg) /\ w.at = "BaseUpdate" /\ ~Begun(w) /\ ~Asked(w)
  BY WalkIs DEF Walks
<1> HIDE DEF c, u, w
<1>5. Calls(<<c>>, life, model, reg, locked, deleteMark) /\ <<c>> \in Seq(Frame)
  <2>1. Calls(<<>>, life, model, reg, locked, deleteMark)
    BY <1>1, Idle
  <2> QED BY <1>2, <2>1, OnlyCall
<1>6. ASSUME NEW f \in {u, w} PROVE Calls(<<f>> \o <<c>>, life, model, reg, locked, deleteMark)
  <2>1. Apart(f, c)
    BY <1>2, <1>3, <1>4 DEF Apart, Alone, Walks, GameCalls, Deleting
  <2>2. \A j \in DOMAIN <<c>> : <<c>>[j] = c
    OBVIOUS
  <2>3. \A j \in DOMAIN <<c>> : Apart(f, <<c>>[j])
    BY <2>1, <2>2
  <2> QED BY <1>3, <1>4, <1>5, <2>3, Pushed
<1>7. <<>> \o <<c>> = <<c>>
  BY <1>5, ConcatEmptySeq
<1>8. Calls(stack', life', model', reg', locked', deleteMark')
  BY <1>1, <1>5, <1>6, <1>7
<1> QED BY <1>1, <1>8, SameObjects DEF IInv

\* The engine is out of every call.
LEMMA EngineIs ==
  ASSUME NEW o \in Object \cup {NoObject}
  PROVE  LET f == Calling("engine", o)
         IN  f \in Frame /\ One(f, life, model, reg) /\ f.at = "engine" /\ ~Begun(f) /\ ~Asked(f)
BY DEF Calling, Frame, One, Begun, Asked, Walks, GameCalls, Creating, Deleting, Handling

\* An event is told to an object if it has a scroll object.
LEMMA ToldPushed ==
  ASSUME IInv, NEW st, Calls(st, life, model, reg, locked, deleteMark),
         \A j \in DOMAIN st : st[j].at \notin Alone, NEW o
  PROVE  /\ Told(o) \in Seq(Frame)
         /\ Calls(Told(o) \o st, life, model, reg, locked, deleteMark)
         /\ \A j \in DOMAIN (Told(o) \o st) : (Told(o) \o st)[j].at \notin Alone
<1>1. st \in Seq(Frame)
  BY DEF Calls
<1>2. CASE ~Bound(o)
  <2>1. Told(o) = <<>> /\ Told(o) \in Seq(Frame)
    BY <1>2 DEF Told
  <2>2. <<>> \o st = st
    BY <1>1, ConcatEmptySeq
  <2> QED BY <2>1, <2>2
<1>3. CASE Bound(o)
  <2> DEFINE f == Calling("OnEvent", o)
  <2>1. o \in Object /\ life[o] \in Alive
    BY <1>3 DEF Bound, IInv, Objects
  <2>2. f \in Frame /\ One(f, life, model, reg) /\ f.at = "OnEvent" /\ ~Begun(f) /\ ~Asked(f)
    BY <2>1 DEF Calling, Frame, One, Begun, Asked, Walks, GameCalls, Creating, Deleting, Handling,
                Object, NoObject
  <2>3. Told(o) = <<f>>
    BY <1>3 DEF Told
  <2> HIDE DEF f
  <2>4. \A j \in DOMAIN st : Apart(f, st[j])
    BY <2>2 DEF Apart, Alone, Walks, GameCalls, Deleting
  <2>5. Calls(<<f>> \o st, life, model, reg, locked, deleteMark)
    BY <2>2, <2>4, Pushed
  <2>6. \A j \in DOMAIN (<<f>> \o st) : (<<f>> \o st)[j].at \notin Alone
    <3> DEFINE nx == <<f>> \o st
    <3>1. /\ nx \in Seq(Frame) /\ Len(nx) = Len(st) + 1 /\ Len(st) \in Nat
          /\ \A k \in 1..Len(st) + 1 : nx[k] = IF k = 1 THEN f ELSE st[k - 1]
      BY <1>1, <2>2, PushIs
    <3>2. f.at \notin Alone
      BY <2>2 DEF Alone, Deleting
    <3> HIDE DEF nx
    <3>3. ASSUME NEW j \in DOMAIN nx PROVE nx[j].at \notin Alone
      <4>1. CASE j = 1
        BY <3>1, <3>2, <4>1
      <4>2. CASE j # 1
        <5>1. j - 1 \in DOMAIN st /\ nx[j] = st[j - 1]
          BY <1>1, <3>1, <4>2
        <5> QED BY <5>1
      <4> QED BY <4>1, <4>2
    <3> QED BY <3>3 DEF nx
  <2>7. <<f>> \in Seq(Frame)
    BY <2>2
  <2> QED BY <2>3, <2>5, <2>6, <2>7
<1> QED BY <1>2, <1>3

LEMMA EngineStarts ==
  ASSUME IInv, stack = <<>>
  PROVE  LET st == <<Calling("engine", NoObject)>>
         IN  /\ st \in Seq(Frame) /\ Calls(st, life, model, reg, locked, deleteMark)
             /\ \A j \in DOMAIN st : st[j].at \notin Alone
<1> DEFINE f == Calling("engine", NoObject)
<1>1. f \in Frame /\ One(f, life, model, reg) /\ f.at = "engine" /\ ~Begun(f) /\ ~Asked(f)
  BY EngineIs
<1> HIDE DEF f
<1>2. Calls(<<>>, life, model, reg, locked, deleteMark)
  BY Idle
<1>3. Calls(<<f>>, life, model, reg, locked, deleteMark) /\ <<f>> \in Seq(Frame)
  BY <1>1, <1>2, OnlyCall
<1>4. \A j \in DOMAIN <<f>> : <<f>>[j] = f
  OBVIOUS
<1>5. f.at \notin Alone
  BY <1>1 DEF Alone, Deleting
<1> QED BY <1>3, <1>4, <1>5 DEF f

LEMMA EventStep ==
  ASSUME IInv, (\E s, r \in Live : Contact(s, r)) \/ (\E o \in Live \cup {NoObject} : Notice(o))
  PROVE  IInv'
<1> DEFINE e == <<Calling("engine", NoObject)>>
<1>1. /\ stack = <<>>
      /\ UNCHANGED <<life, model, reg, createMark, deleteMark, locked>>
      /\ \/ \E s, r : stack' = (Told(s) \o Told(r)) \o e
         \/ \E o : stack' = Told(o) \o e
  BY DEF Contact, Notice, EngineStep, Step, engineVars, markVars, stateVars
<1>2. /\ e \in Seq(Frame) /\ Calls(e, life, model, reg, locked, deleteMark)
      /\ \A j \in DOMAIN e : e[j].at \notin Alone
  BY <1>1, EngineStarts
<1> HIDE DEF e
<1>3. ASSUME NEW o PROVE /\ Told(o) \in Seq(Frame)
                         /\ Calls(Told(o) \o e, life, model, reg, locked, deleteMark)
                         /\ \A j \in DOMAIN (Told(o) \o e) : (Told(o) \o e)[j].at \notin Alone
  BY <1>2, ToldPushed
<1>4. ASSUME NEW s, NEW r PROVE Calls((Told(s) \o Told(r)) \o e, life, model, reg, locked, deleteMark)
  <2> DEFINE st == Told(r) \o e
  <2>1. Calls(st, life, model, reg, locked, deleteMark) /\ \A j \in DOMAIN st : st[j].at \notin Alone
    BY <1>3
  <2>2. (Told(s) \o Told(r)) \o e = Told(s) \o st
    BY <1>2, <1>3, ConcatAssociative
  <2> HIDE DEF st
  <2>3. Calls(Told(s) \o st, life, model, reg, locked, deleteMark)
    BY <2>1, ToldPushed
  <2> QED BY <2>2, <2>3
<1>5. Calls(stack', life', model', reg', locked', deleteMark')
  BY <1>1, <1>3, <1>4
<1> QED BY <1>1, <1>5, SameObjects DEF IInv

LEMMA SpawnStep ==
  ASSUME IInv, NEW m \in Models, Spawn(m) PROVE IInv'
<1> DEFINE e == <<Calling("engine", NoObject)>>
<1>1. /\ stack = <<>> /\ EngineObject(m, NoObject)
      /\ stack' = <<Creation(m, FALSE, NoModel)>> \o e
      /\ UNCHANGED <<reg, createMark, deleteMark, locked>>
  BY DEF Spawn, EngineStep, Step, markVars, stateVars
<1>2. Calls(e, life, model, reg, locked, deleteMark)
  BY <1>1, EngineStarts
<1> HIDE DEF e
<1>3. Calls(stack', life', model', reg', locked', deleteMark')
  BY <1>1, <1>2, CreationPushed
<1>4. Objects(life', model', reg') /\ Registry(reg', Classes(model'))
  BY <1>1, MadeKeeps
<1> QED BY <1>1, <1>3, <1>4 DEF IInv

\* The engine never finds a deletion marked, so that it deletes a registered object
\* only by way of its OnDelete.
LEMMA EngineDeletesStep ==
  ASSUME IInv, EngineDeletes PROVE IInv'
<1> DEFINE o == NextToDelete(Top.obj)
           e == [Top EXCEPT !.obj = o]
<1>1. /\ stack # <<>> /\ Top.at = "engine" /\ o # NoObject
      /\ UNCHANGED <<reg, createMark, locked>>
  BY DEF EngineDeletes, At, stateVars
<1>2. /\ Top \in Frame
      /\ \A j \in DOMAIN Below : Apart(Top, Below[j])
      /\ Calls(Below, life, model, reg, locked, deleteMark)
  BY <1>1, TopIs DEF Asked, Deleting
<1>3. Below = <<>>
  <2>1. Below \in Seq(Frame) /\ DOMAIN Below = {}
    BY <1>1, <1>2 DEF Apart, Calls
  <2> QED BY <2>1, EmptySeq
<1>4. deleteMark = NoModel
  <2>1. Marks(<<>>, deleteMark) /\ DOMAIN <<>> = {}
    BY <1>2, <1>3 DEF Calls
  <2> QED BY <2>1 DEF Marks
<1>5. o \in Object /\ life[o] \in Alive /\ model[o] \in Models
  <2> DEFINE S == {p \in Live : p > Top.obj /\ life[p] = "zero"}
  <2>1. o = Lowest(S)
    BY DEF NextToDelete
  <2>2. S \in SUBSET Object /\ \A p \in S : life[p] \in Alive
    BY DEF Live, Alive
  <2> HIDE DEF S, o
  <2> QED BY <1>1, <2>1, <2>2, LowestIs DEF IInv, Objects
<1> HIDE DEF o
<1>6. e \in Frame /\ e.at = "engine"
  BY <1>1, <1>2, <1>5 DEF Frame
<1>7. deleteMark # model[o]
  BY <1>4, <1>5, LoopAssumption
<1> HIDE DEF e
<1>8. ASSUME NEW lf, NEW md PROVE One(e, lf, md, reg) /\ ~Begun(e) /\ ~Asked(e)
  BY <1>6 DEF One, Begun, Asked, Walks, GameCalls, Creating, Deleting, Handling
<1>9. CASE Bound(o)
  <2> DEFINE f == Deletion(o, FALSE, NoModel)
  <2>1. stack' = <<f, e>> \o Below /\ UNCHANGED <<life, model, deleteMark>>
    BY <1>7, <1>9 DEF EngineDeletes, engineVars, o, e
  <2>2. f \in Frame /\ f.at = "OnObjectDelete" /\ f.obj = o /\ ~f.asked
    BY <1>5 DEF Deletion, Calling, Frame, Deleting
  <2> HIDE DEF f
  <2>3. One(f, life, model, reg) /\ ~Begun(f) /\ ~Asked(f)
    BY <1>5, <1>9, <2>2 DEF Bound, One, Begun, Asked, Walks, GameCalls, Deleting, Object, NoObject
  <2>4. Calls(<<e>>, life, model, reg, locked, deleteMark)
    BY <1>2, <1>3, <1>6, <1>8, OnlyCall
  <2>5. \A j \in DOMAIN <<e>> : <<e>>[j] = e
    OBVIOUS
  <2>6. Apart(f, e)
    BY <1>6, <1>8, <2>2 DEF Apart, Walks, GameCalls
  <2>7. Calls(<<f>> \o <<e>>, life, model, reg, locked, deleteMark)
    BY <2>2, <2>3, <2>4, <2>5, <2>6, Pushed
  <2>8. <<f, e>> \o Below = <<f>> \o <<e>>
    <3>1. <<>> \in Seq(Frame) /\ <<e>> \o <<>> = <<e>>
      BY <1>6, ConcatEmptySeq
    <3> QED BY <1>3, <1>6, <2>2, <3>1, TwoPushed
  <2>9. Calls(stack', life', model', reg', locked', deleteMark')
    BY <1>1, <2>1, <2>7, <2>8
  <2> QED BY <1>1, <2>1, <2>9, SameObjects DEF IInv
<1>10. CASE ~Bound(o)
  <2>1. stack' = <<e>> \o Below /\ Kill(o) /\ deleteMark' = deleteMark
    BY <1>7, <1>10 DEF EngineDeletes, Swap, o, e
  <2>2. Registered(reg) \subseteq Registered(reg) \ {o}
    BY <1>10 DEF Bound
  <2>3. /\ Objects(life', model', reg)
        /\ \A p \in Object : p # o => model'[p] = model[p]
    BY <1>5, <2>1, <2>2, KillKeeps DEF IInv
  <2>4. Registry(reg, Classes(model'))
    <3>1. \A p \in Registered(reg) : Classes(model')[p] = Classes(model)[p]
      BY <1>10, <2>3 DEF Bound, Classes, IInv, Objects
    <3> QED BY <3>1, RegistryCongruence DEF IInv
  <2>5. Calls(<<e>> \o Below, life', model', reg, locked, deleteMark)
    <3>1. Calls(<<>>, life', model', reg, locked, deleteMark) /\ DOMAIN <<>> = {}
      BY <1>4, NoCalls
    <3>2. One(e, life', model', reg) /\ ~Begun(e) /\ ~Asked(e)
      BY <1>8
    <3> QED BY <1>3, <1>6, <3>1, <3>2, Pushed
  <2>6. Calls(stack', life', model', reg', locked', deleteMark')
    BY <1>1, <2>1, <2>5
  <2> QED BY <1>1, <2>1, <2>3, <2>4, <2>6 DEF IInv
<1> QED BY <1>9, <1>10

LEMMA EnginePassedStep ==
  ASSUME IInv, EnginePassed PROVE IInv'
<1>1. /\ stack # <<>> /\ Top.at = "engine" /\ stack' = Below
      /\ UNCHANGED <<life, model, reg, createMark, deleteMark, locked>>
  BY DEF EnginePassed, At, engineVars, markVars, stateVars
<1>2. Calls(Below, life, model, reg, locked, deleteMark)
  BY <1>1, TopIs DEF Asked, Deleting
<1> QED BY <1>1, <1>2, SameObjects DEF IInv

LEMMA ClearObjectStep ==
  ASSUME IInv, ClearObject PROVE IInv'
<1> DEFINE o == GetNextObject(reg.chrono, NoObject)
<1>1. stack = <<>> /\ o # NoObject /\ DeleteObject(o)
  BY DEF ClearObject, Step
<1>2. o \in Registered(reg)
  <2>1. reg.chrono # <<>> /\ o = Head(reg.chrono) /\ reg.chrono \in Seq(Object)
    BY <1>1 DEF GetNextObject, IInv, Registry, RegistryState
  <2>2. o = reg.chrono[1] /\ 1 \in DOMAIN reg.chrono
    BY <2>1, PopIs
  <2> QED BY <2>2 DEF Registered, ToSet
<1>3. Busy = {}
  BY <1>1 DEF Busy, Frames, ToSet
<1> QED BY <1>1, <1>2, <1>3, DeleteObjectStep

-----------------------------------------------------------------------------
LEMMA IInvNext ==
  ASSUME ~NestedWalks, IInv, [Next]_vars
  PROVE  IInv'
<1>1. CASE Call
  <2>1. ASSUME NEW o \in Object, CallDelete(o) PROVE IInv'
    BY <2>1, DeleteObjectStep DEF CallDelete, Bound
  <2>2. ASSUME NEW o \in Object, CallSetLifeTime(o) PROVE IInv'
    BY <2>2, LeaveToEngine DEF CallSetLifeTime, Bound, markVars, stateVars
  <2> QED BY <1>1, <2>1, <2>2, CallCreateStep, CallEngineCreateStep, CallAdoptStep, CallWalkStep DEF Call
<1>2. CASE Create
  BY <1>2, CreateChildStep, SendCreateStep, CreatedRunningStep, EndCreateStep DEF Create
<1>3. CASE Delete
  BY <1>3, EndOnObjectDeleteStep, EndDeleteStep DEF Delete
<1>4. CASE Visit
  BY <1>4, WalkBeginStep, WalkNextStep, WalkEndStep DEF Visit
<1>5. CASE Return
  BY <1>5, ReturnStep
<1>6. CASE MainLoop
  BY <1>6, FrameStep, TickStep, EventStep, SpawnStep, EngineDeletesStep, EnginePassedStep,
     ClearObjectStep DEF MainLoop
<1>7. CASE UNCHANGED vars
  BY <1>7 DEF vars, engineVars, markVars, stateVars, IInv
<1> QED BY <1>1, <1>2, <1>3, <1>4, <1>5, <1>6, <1>7 DEF Next, Ended

\* If callbacks inside a walk start, stop or pause no walk, no call in progress, of
\* ScrollBase or of the engine, ever stands at an object that has been deleted, however
\* callbacks, the engine and the walks create and delete.
THEOREM NothingDeletedUnderACall ==
  ASSUME ~NestedWalks
  PROVE  Spec => []WalkSafe
<1>1. IInv => WalkSafe
  BY DEF IInv, Calls, One, Alive, WalkSafe, Frames, ToSet
<1>2. IInv /\ [Next]_vars => IInv'
  BY IInvNext
<1> QED BY <1>1, <1>2, IInvInit, PTL DEF Spec

\* Under the same condition the registry stays whole: its two lists hold the same
\* objects, each once and none of them deleted, and the objects of a binder stand
\* together, from its first to its last.
THEOREM RegistryWhole ==
  ASSUME ~NestedWalks
  PROVE  Spec => [](/\ Registry(reg, Classes(model))
                    /\ \A o \in Registered(reg) : life[o] \in Alive)
<1>1. IInv => /\ Registry(reg, Classes(model))
              /\ \A o \in Registered(reg) : life[o] \in Alive
  BY DEF IInv, Objects
<1>2. IInv /\ [Next]_vars => IInv'
  BY IInvNext
<1> QED BY <1>1, <1>2, IInvInit, PTL DEF Spec

\* Under the same condition a walk over the objects of a class comes to each of them
\* once, in order of creation, forwards and backwards, whatever objects of other
\* classes the list has taken in and let go.
THEOREM WalksTheClass ==
  ASSUME ~NestedWalks
  PROVE  Spec => []TypedWalk
<1>1. IInv => TypedWalk
  <2> SUFFICES ASSUME IInv, NEW b \in Binders PROVE
        /\ Len(reg.list) = Len(reg.chrono)
        /\ LET made  == {i \in DOMAIN reg.chrono : GetBinder(model[reg.chrono[i]], TRUE) = b}
               at(i) == IF i = 0 THEN NoObject ELSE reg.chrono[i]
           IN  \A i, j \in made \cup {0} :
                 Follows(made, i, j) => /\ BinderNext(reg, b, at(i)) = at(j)
                                        /\ BinderPrevious(reg, b, at(j)) = at(i)
    BY RegistryAssumption DEF TypedWalk, NextOfClass, PreviousOfClass
  <2> DEFINE cl == Classes(model)
             made == {i \in DOMAIN reg.chrono : GetBinder(model[reg.chrono[i]], TRUE) = b}
  <2>1. Registry(reg, cl)
    BY DEF IInv
  <2>2. \A i \in DOMAIN reg.chrono : GetBinder(model[reg.chrono[i]], TRUE) = cl[reg.chrono[i]]
    <3>1. \A i \in DOMAIN reg.chrono : reg.chrono[i] \in Object
      BY <2>1 DEF Registry, RegistryState
    <3> QED BY <3>1 DEF Classes
  <2>3. made = {i \in DOMAIN reg.chrono : cl[reg.chrono[i]] = b}
    <3> HIDE DEF cl
    <3> QED BY <2>2
  <2> HIDE DEF cl, made
  <2>4. Len(reg.list) = Len(reg.chrono)
    BY <2>1 DEF Registry
  <2> DEFINE at(i) == IF i = 0 THEN NoObject ELSE reg.chrono[i]
  <2>5. ASSUME NEW i \in made \cup {0}, NEW j \in made \cup {0}, Follows(made, i, j)
        PROVE  BinderNext(reg, b, at(i)) = at(j) /\ BinderPrevious(reg, b, at(j)) = at(i)
    BY <2>1, <2>3, <2>5, ClassWalk
  <2> HIDE DEF at
  <2>6. \A i, j \in made \cup {0} :
          Follows(made, i, j) => BinderNext(reg, b, at(i)) = at(j) /\ BinderPrevious(reg, b, at(j)) = at(i)
    BY <2>5
  <2> QED BY <2>4, <2>6 DEF made, at
<1>2. IInv /\ [Next]_vars => IInv'
  BY IInvNext
<1> QED BY <1>1, <1>2, IInvInit, PTL DEF Spec

-----------------------------------------------------------------------------
(* What the walks do to the objects.                                       *)

\* The calls of the main loop, and the walks and callbacks that those of the game start.
Loop == {"Init", "Run", "BaseUpdate", "Update", "CameraUpdate", "Exit"}
Own  == {"StartGame", "StopGame", "PauseGame", "OnGame"}

\* One walk of the game's own at a time, but for a stop that waits for the game to be
\* unpaused; and an object is created once.
Nested(f, g) ==
  /\ f.at \in Loop => g.at \notin Own
  /\ f.at \in Own /\ g.at \in Own => f.at \in {"PauseGame", "OnGame"} /\ g.at = "StopGame"
  /\ f.at = "OnCreate" /\ g.at = "OnCreate" => f.obj # g.obj

Nesting(st) == \A i, j \in DOMAIN st : i < j => Nested(st[i], st[j])

\* o stands before p in the list, or is p.
Before(r, o, p) == \E i, j \in DOMAIN r.list : i <= j /\ r.list[i] = o /\ r.list[j] = p

\* A walk has come to o, or past it.
Passed(r, f, o) == f.obj # NoObject /\ Before(r, o, f.obj)

Walkers(fs, kinds) == {f \in fs : f.at \in kinds /\ f.lock}

PauseInv ==
  /\ \A o \in frozen : o \in Registered(reg) /\ model[o] \in Pausable
  /\ \A f \in Frames : f.at = "PauseGame" =>
       /\ f.asked = ~paused
       /\ f.obj # NoObject => model[f.obj] \in Pausable
  /\ \A f \in Frames : f.at = "StopGame" => (paused <=> \E g \in Frames : g.at = "PauseGame")
  /\ ~paused /\ Walkers(Frames, {"PauseGame"}) = {} => frozen = {}
  /\ \A f \in Walkers(Frames, {"PauseGame"}) :
       ~f.asked => \A o \in frozen : Passed(reg, f, o) => o = f.obj

Starting(fs, o) == \E f \in fs : f.obj = o /\ f.at = "OnCreate"

StartInv ==
  /\ starts \in [Object -> 0..1]
  /\ phase = "init" => ~running /\ \A f \in Frames : f.at \notin Walks \cup {"Run", "Update", "CameraUpdate"}
  /\ \A f \in Frames : /\ f.at = "StartGame" => ~running
                       /\ f.at = "StopGame" => running
  /\ \A o \in Object : o \in late \/ o \notin Registered(reg) \/ Starting(Frames, o) => starts[o] = 0
  /\ \A f \in Frames : f.at \in {"OnCreate", "OnStartGame"} => f.obj \in Registered(reg)
  /\ Walkers(Frames, {"StartGame", "StopGame"}) # {} =>
       \A f \in Frames : f.at \in Creating => f.obj \in late
  /\ \A o \in Registered(reg) \ late : ~Starting(Frames, o) =>
       /\ Walkers(Frames, {"StartGame", "StopGame"}) = {} => starts[o] = IF running THEN 1 ELSE 0
       /\ \A f \in Walkers(Frames, {"StartGame", "StopGame"}) :
            starts[o] = IF Passed(reg, f, o) <=> f.at = "StartGame" THEN 1 ELSE 0

-----------------------------------------------------------------------------
(* The order of the list                                                   *)

\* Taking in an object leaves the others in their order.
LEMMA LinkedOrder ==
  ASSUME IInv, NEW o \in Object, o \notin Registered(reg),
         \E p \in 1..Len(reg.list) + 1 : Inserted(reg.list, reg'.list, p, o)
  PROVE  \A x, y \in Registered(reg) : Before(reg', x, y) <=> Before(reg, x, y)
<1> DEFINE s == reg.list
           t == reg'.list
<1>1. /\ s \in Seq(Object) /\ Distinct(s) /\ ToSet(s) = Registered(reg)
      /\ DOMAIN s = 1..Len(s) /\ Len(s) \in Nat
  BY DEF IInv, Registry, RegistryState
<1>2. PICK p \in 1..Len(s) + 1 : Inserted(s, t, p, o)
  OBVIOUS
<1>a. s \in Seq(Object) /\ t \in Seq(Object) /\ Len(t) = Len(s) + 1
  BY <1>1, <1>2 DEF Inserted
<1>b. DOMAIN t = 1..Len(s) + 1
  BY <1>1, <1>a
<1>3. /\ \A k \in DOMAIN t : k < p => k \in DOMAIN s /\ t[k] = s[k]
      /\ \A k \in DOMAIN t : k > p => k - 1 \in DOMAIN s /\ t[k] = s[k - 1]
      /\ t[p] = o /\ p \in DOMAIN t
  <2>1. \A k \in DOMAIN t : k < p => k \in DOMAIN s /\ t[k] = s[k]
    BY <1>1, <1>2, <1>b DEF Inserted
  <2>2. \A k \in DOMAIN t : k > p => k - 1 \in DOMAIN s /\ t[k] = s[k - 1]
    BY <1>1, <1>2, <1>b DEF Inserted
  <2>3. t[p] = o /\ p \in DOMAIN t
    BY <1>1, <1>2, <1>b DEF Inserted
  <2> QED BY <2>1, <2>2, <2>3
<1>4. /\ \A k \in DOMAIN s : k < p => k \in DOMAIN t /\ t[k] = s[k]
      /\ \A k \in DOMAIN s : k >= p => k + 1 \in DOMAIN t /\ t[k + 1] = s[k]
  <2>1. \A k \in DOMAIN s : k < p => k \in DOMAIN t /\ t[k] = s[k]
    BY <1>1, <1>2, <1>b DEF Inserted
  <2>2. \A k \in DOMAIN s : k >= p => k + 1 \in DOMAIN t /\ t[k + 1] = s[k]
    BY <1>1, <1>2, <1>b DEF Inserted
  <2> QED BY <2>1, <2>2
<1> HIDE DEF s, t
<1>5. ASSUME NEW x \in Registered(reg), NEW y \in Registered(reg),
             NEW i \in DOMAIN s, NEW j \in DOMAIN s, i <= j, s[i] = x, s[j] = y
      PROVE  \E k, l \in DOMAIN t : k <= l /\ t[k] = x /\ t[l] = y
  <2> DEFINE to(k) == IF k < p THEN k ELSE k + 1
  <2>1. to(i) \in DOMAIN t /\ t[to(i)] = x /\ to(j) \in DOMAIN t /\ t[to(j)] = y
    BY <1>1, <1>4, <1>5
  <2>2. to(i) <= to(j)
    BY <1>1, <1>2, <1>5
  <2> HIDE DEF to
  <2> QED BY <2>1, <2>2
<1>6. ASSUME NEW x \in Registered(reg), NEW y \in Registered(reg),
             NEW k \in DOMAIN t, NEW l \in DOMAIN t, k <= l, t[k] = x, t[l] = y
      PROVE  \E i, j \in DOMAIN s : i <= j /\ s[i] = x /\ s[j] = y
  <2> DEFINE from(i) == IF i < p THEN i ELSE i - 1
  <2>1. k # p /\ l # p
    BY <1>3, <1>6
  <2>2. \A i \in DOMAIN t : i # p => from(i) \in DOMAIN s /\ s[from(i)] = t[i]
    BY <1>1, <1>2, <1>3, <1>b
  <2>3. from(k) <= from(l)
    BY <1>1, <1>2, <1>3, <1>6, <2>1
  <2> HIDE DEF from
  <2> QED BY <1>6, <2>1, <2>2, <2>3
<1> QED BY <1>5, <1>6 DEF Before, s, t

\* Of two listed objects one stands before the other.
LEMMA InOrder ==
  ASSUME IInv, NEW x \in Registered(reg), NEW y \in Registered(reg)
  PROVE  /\ Before(reg, x, y) \/ Before(reg, y, x)
         /\ Before(reg, x, y) /\ Before(reg, y, x) <=> x = y
<1>1. /\ reg.list \in Seq(Object) /\ Distinct(reg.list) /\ ToSet(reg.list) = Registered(reg)
      /\ DOMAIN reg.list = 1..Len(reg.list) /\ Len(reg.list) \in Nat
  BY DEF IInv, Registry, RegistryState
<1>2. PICK i, j \in DOMAIN reg.list : reg.list[i] = x /\ reg.list[j] = y
  BY <1>1 DEF ToSet
<1>3. Before(reg, x, y) <=> i <= j
  BY <1>1, <1>2 DEF Before, Distinct
<1>4. Before(reg, y, x) <=> j <= i
  BY <1>1, <1>2 DEF Before, Distinct
<1> QED BY <1>1, <1>2, <1>3, <1>4 DEF Distinct

\* Where a walk over the list goes next: to the first object that it has not passed.
LEMMA NextInList ==
  ASSUME IInv, NEW f, f.at \in {"StartGame", "StopGame"},
         f.obj # NoObject => f.obj \in Registered(reg)
  PROVE  LET o == NextOf(f)
         IN  /\ o = NoObject => \A p \in Registered(reg) : Passed(reg, f, p)
             /\ o # NoObject =>
                  /\ o \in Registered(reg) /\ ~Passed(reg, f, o)
                  /\ \A p \in Registered(reg) : Before(reg, p, o) <=> Passed(reg, f, p) \/ p = o
<1> DEFINE s == reg.list
<1>1. /\ s \in Seq(Object) /\ Distinct(s) /\ ToSet(s) = Registered(reg)
      /\ DOMAIN s = 1..Len(s) /\ Len(s) \in Nat /\ NoObject \notin Object
  BY DEF IInv, Registry, RegistryState, Object, NoObject
<1>2. NextOf(f) = GetNextObject(s, f.obj)
  BY DEF NextOf
<1>3. \A p \in Registered(reg) : \E i \in DOMAIN s : s[i] = p
  BY <1>1 DEF ToSet
<1>4. \A i \in DOMAIN s : s[i] \in Registered(reg) /\ s[i] # NoObject
  BY <1>1 DEF ToSet
<1>5. \A i, j \in DOMAIN s : Before(reg, s[i], s[j]) <=> i <= j
  BY <1>1 DEF Before, Distinct
<1>6. CASE f.obj = NoObject
  <2>1. CASE s = <<>>
    <3>1. DOMAIN s = {}
      BY <2>1
    <3>2. NextOf(f) = NoObject
      BY <1>2, <1>6, <2>1 DEF GetNextObject
    <3> QED BY <1>3, <3>1, <3>2
  <2>2. CASE s # <<>>
    <3>1. NextOf(f) = s[1] /\ 1 \in DOMAIN s
      BY <1>1, <1>2, <1>6, <2>2, PopIs DEF GetNextObject
    <3>2. \A p \in Registered(reg) : Before(reg, p, s[1]) <=> p = s[1]
      BY <1>1, <1>3, <1>5, <3>1
    <3> QED BY <1>4, <1>6, <3>1, <3>2 DEF Passed
  <2> QED BY <2>1, <2>2
<1>7. CASE f.obj # NoObject
  <2> DEFINE q == Place(s, f.obj)
  <2>1. q \in DOMAIN s /\ s[q] = f.obj
    BY <1>1, <1>7, PlaceIs
  <2>2. NextOf(f) = IF q = Len(s) THEN NoObject ELSE s[q + 1]
    BY <1>2, <1>7 DEF GetNextObject
  <2> HIDE DEF q
  <2>3. \A i \in DOMAIN s : Passed(reg, f, s[i]) <=> i <= q
    BY <1>5, <1>7, <2>1 DEF Passed
  <2>4. CASE q = Len(s)
    BY <1>1, <1>3, <2>2, <2>3, <2>4
  <2>5. CASE q # Len(s)
    <3>1. q + 1 \in DOMAIN s /\ NextOf(f) = s[q + 1]
      BY <1>1, <2>1, <2>2, <2>5
    <3>2. ~Passed(reg, f, s[q + 1])
      BY <1>1, <2>1, <2>3, <3>1
    <3>3. ASSUME NEW i \in DOMAIN s
          PROVE  Before(reg, s[i], s[q + 1]) <=> Passed(reg, f, s[i]) \/ s[i] = s[q + 1]
      BY <1>1, <1>5, <2>1, <2>3, <3>1 DEF Distinct
    <3> QED BY <1>3, <1>4, <3>1, <3>2, <3>3
  <2> QED BY <2>4, <2>5
<1> QED BY <1>6, <1>7

LEMMA FirstIsLeast ==
  ASSUME NEW S \in SUBSET Nat, S # {}
  PROVE  \A y \in S : Min(S) <= y
<1> DEFINE R == {ss \in Nat \X Nat : ss[1] < ss[2]}
<1>1. IsWellFoundedOn(R, Nat)
  BY NatLessThanWellFounded DEF OpToRel
<1>2. PICK x \in S : \A y \in S : <<y, x>> \notin R
  <2> HIDE DEF R
  <2> QED BY <1>1, WFMin
<1>3. \A y \in S : x <= y
  <2> TAKE y \in S
  <2>1. x \in Nat /\ y \in Nat /\ ~(y < x)
    BY <1>2
  <2> QED BY <2>1
<1> QED BY <1>2, <1>3 DEF Min

\* The walk of PauseGame goes to the first pausable object that it has not passed.
LEMMA NextPausable ==
  ASSUME IInv, NEW f, f.at = "PauseGame", f.obj # NoObject => f.obj \in Registered(reg)
  PROVE  LET o    == NextOf(f)
             rest == {p \in Registered(reg) : model[p] \in Pausable /\ ~Passed(reg, f, p)}
         IN  /\ o = NoObject => rest = {}
             /\ o # NoObject => o \in rest /\ \A p \in rest : Before(reg, o, p)
<1> DEFINE s == reg.list
           from  == IF f.obj = NoObject THEN 0 ELSE Place(s, f.obj)
           later == {i \in DOMAIN s : i > from /\ model[s[i]] \in Pausable}
           rest  == {p \in Registered(reg) : model[p] \in Pausable /\ ~Passed(reg, f, p)}
<1>1. /\ s \in Seq(Object) /\ Distinct(s) /\ ToSet(s) = Registered(reg)
      /\ DOMAIN s = 1..Len(s) /\ Len(s) \in Nat /\ NoObject \notin Object
  BY DEF IInv, Registry, RegistryState, Object, NoObject
<1>2. NextOf(f) = IF later = {} THEN NoObject ELSE s[Min(later)]
  BY DEF NextOf, NextToPause
<1>3. \A p \in Registered(reg) : \E i \in DOMAIN s : s[i] = p
  BY <1>1 DEF ToSet
<1>4. \A i \in DOMAIN s : s[i] \in Registered(reg) /\ s[i] # NoObject
  BY <1>1 DEF ToSet
<1>5. \A i, j \in DOMAIN s : Before(reg, s[i], s[j]) <=> i <= j
  BY <1>1 DEF Before, Distinct
<1>6. \A i \in DOMAIN s : Passed(reg, f, s[i]) <=> ~(i > from)
  <2>1. CASE f.obj = NoObject
    BY <1>1, <2>1 DEF Passed
  <2>2. CASE f.obj # NoObject
    <3>1. from \in DOMAIN s /\ s[from] = f.obj
      BY <1>1, <2>2, PlaceIs
    <3> HIDE DEF from
    <3> QED BY <1>1, <1>5, <2>2, <3>1 DEF Passed
  <2> QED BY <2>1, <2>2
<1> HIDE DEF from
<1>7. \A i \in DOMAIN s : i \in later <=> s[i] \in rest
  BY <1>4, <1>6
<1>8. later \in SUBSET DOMAIN s /\ later \in SUBSET Nat
  BY <1>1
<1> HIDE DEF later, s
<1>9. CASE later = {}
  BY <1>2, <1>3, <1>7, <1>9
<1>10. CASE later # {}
  <2>1. Min(later) \in later /\ \A i \in later : Min(later) <= i
    BY <1>8, <1>10, FirstOf, FirstIsLeast
  <2>2. NextOf(f) = s[Min(later)] /\ Min(later) \in DOMAIN s /\ NextOf(f) \in rest
    <3>1. NextOf(f) = s[Min(later)] /\ Min(later) \in DOMAIN s
      BY <1>2, <1>8, <1>10, <2>1
    <3> HIDE DEF rest
    <3> QED BY <1>7, <2>1, <3>1
  <2>3. ASSUME NEW p \in rest PROVE Before(reg, NextOf(f), p)
    <3>1. PICK i \in DOMAIN s : s[i] = p
      BY <1>3
    <3>2. Min(later) <= i
      BY <1>7, <2>1, <3>1
    <3> QED BY <1>5, <2>2, <3>1, <3>2
  <2>4. NextOf(f) # NoObject
    BY <1>4, <2>2
  <2> QED BY <2>2, <2>3, <2>4, Zenon
<1> QED
  <2> HIDE DEF rest
  <2> QED BY <1>9, <1>10

-----------------------------------------------------------------------------
(* What a step does to the frames                                          *)

Rest == ToSet(Below)

LEMMA FramesPushed ==
  ASSUME NEW st \in Seq(Frame), NEW f \in Frame
  PROVE  /\ <<f>> \o st \in Seq(Frame)
         /\ ToSet(<<f>> \o st) = {f} \cup ToSet(st)
         /\ Nesting(st) /\ (\A g \in ToSet(st) : Nested(f, g)) => Nesting(<<f>> \o st)
<1> DEFINE nx == <<f>> \o st
<1>1. /\ nx \in Seq(Frame) /\ Len(nx) = Len(st) + 1
      /\ \A k \in 1..Len(st) + 1 : nx[k] = IF k = 1 THEN f ELSE st[k - 1]
  BY PushIs
<1> HIDE DEF nx
<1>2. DOMAIN nx = 1..Len(st) + 1 /\ DOMAIN st = 1..Len(st) /\ Len(st) \in Nat
  BY <1>1
<1>3. 1 \in DOMAIN nx /\ nx[1] = f
  BY <1>1, <1>2
<1>4. \A k \in DOMAIN nx : k # 1 => k - 1 \in DOMAIN st /\ nx[k] = st[k - 1]
  BY <1>1, <1>2
<1>5. \A k \in DOMAIN st : k + 1 \in DOMAIN nx /\ nx[k + 1] = st[k]
  BY <1>1, <1>2
<1>6. ToSet(nx) = {f} \cup ToSet(st)
  <2>1. ToSet(nx) \subseteq {f} \cup ToSet(st)
    BY <1>3, <1>4 DEF ToSet
  <2>2. {f} \cup ToSet(st) \subseteq ToSet(nx)
    BY <1>3, <1>5 DEF ToSet
  <2> QED BY <2>1, <2>2
<1>7. ASSUME Nesting(st), \A g \in ToSet(st) : Nested(f, g),
             NEW i \in DOMAIN nx, NEW j \in DOMAIN nx, i < j
      PROVE  Nested(nx[i], nx[j])
  <2>1. j # 1 /\ j - 1 \in DOMAIN st /\ nx[j] = st[j - 1]
    BY <1>2, <1>4, <1>7
  <2>2. CASE i = 1
    BY <1>3, <1>7, <2>1, <2>2 DEF ToSet
  <2>3. CASE i # 1
    <3>1. i - 1 \in DOMAIN st /\ nx[i] = st[i - 1] /\ i - 1 < j - 1
      BY <1>2, <1>4, <1>7, <2>3
    <3> QED BY <1>7, <2>1, <3>1 DEF Nesting
  <2> QED BY <2>2, <2>3
<1>8. Nesting(st) /\ (\A g \in ToSet(st) : Nested(f, g)) => Nesting(nx)
  BY <1>7 DEF Nesting
<1> QED BY <1>1, <1>6, <1>8 DEF nx

LEMMA FramesPopped ==
  ASSUME NEW st \in Seq(Frame), st # <<>>
  PROVE  /\ Tail(st) \in Seq(Frame) /\ ToSet(st) = {Head(st)} \cup ToSet(Tail(st))
         /\ Nesting(st) => Nesting(Tail(st)) /\ \A g \in ToSet(Tail(st)) : Nested(Head(st), g)
<1> DEFINE nx == Tail(st)
<1>1. /\ Head(st) = st[1] /\ nx \in Seq(Frame) /\ Len(nx) = Len(st) - 1 /\ 1 \in DOMAIN st
      /\ \A k \in 1..Len(st) - 1 : nx[k] = st[k + 1]
  BY PopIs
<1> HIDE DEF nx
<1>2. DOMAIN nx = 1..Len(st) - 1 /\ DOMAIN st = 1..Len(st) /\ Len(st) \in Nat
  BY <1>1
<1>3. \A k \in DOMAIN nx : k + 1 \in DOMAIN st /\ k + 1 > 1 /\ nx[k] = st[k + 1]
  BY <1>1, <1>2
<1>4. \A k \in DOMAIN st : k # 1 => k - 1 \in DOMAIN nx /\ nx[k - 1] = st[k]
  BY <1>1, <1>2
<1>5. ToSet(st) = {st[1]} \cup ToSet(nx)
  <2>1. ToSet(st) \subseteq {st[1]} \cup ToSet(nx)
    BY <1>4 DEF ToSet
  <2>2. {st[1]} \cup ToSet(nx) \subseteq ToSet(st)
    BY <1>1, <1>3 DEF ToSet
  <2> QED BY <2>1, <2>2
<1>6. Nesting(st) => \A g \in ToSet(nx) : Nested(st[1], g)
  BY <1>1, <1>3 DEF Nesting, ToSet
<1>7. ASSUME Nesting(st), NEW i \in DOMAIN nx, NEW j \in DOMAIN nx, i < j
      PROVE  Nested(nx[i], nx[j])
  <2>1. i + 1 < j + 1
    BY <1>2, <1>7
  <2> QED BY <1>3, <1>7, <2>1 DEF Nesting
<1>8. Nesting(st) => Nesting(nx)
  BY <1>7 DEF Nesting
<1> QED BY <1>1, <1>5, <1>6, <1>8 DEF nx

\* The frames, and what they are.
LEMMA FramesAre ==
  ASSUME IInv
  PROVE  /\ stack \in Seq(Frame)
         /\ \A f \in Frames : f \in Frame /\ One(f, life, model, reg) /\ (Begun(f) => locked)
         /\ stack = <<>> => Frames = {}
         /\ stack # <<>> =>
              /\ Below \in Seq(Frame) /\ Frames = {Top} \cup Rest /\ Top \in Frame
              /\ \A g \in Rest : Apart(Top, g)
              /\ Nesting(stack) => Nesting(Below) /\ \A g \in Rest : Nested(Top, g)
<1>1. stack \in Seq(Frame)
  BY DEF IInv, Calls
<1>2. \A f \in Frames : f \in Frame /\ One(f, life, model, reg) /\ (Begun(f) => locked)
  BY DEF IInv, Calls, Frames, ToSet
<1>3. stack = <<>> => Frames = {}
  BY DEF Frames, ToSet
<1>4. ASSUME stack # <<>>
      PROVE  /\ Below \in Seq(Frame) /\ Frames = {Top} \cup Rest /\ Top \in Frame
             /\ \A g \in Rest : Apart(Top, g)
             /\ Nesting(stack) => Nesting(Below) /\ \A g \in Rest : Nested(Top, g)
  <2>1. \A g \in Rest : Apart(Top, g)
    BY <1>4, TopIs DEF Rest, ToSet
  <2>2. Top \in Frame
    BY <1>4, TopIs
  <2> QED BY <1>1, <1>4, <2>1, <2>2, FramesPopped DEF Top, Below, Frames, Rest
<1> QED BY <1>1, <1>2, <1>3, <1>4

\* A step that pushes a frame, changes the innermost one, or leaves it.
LEMMA PushTurns ==
  ASSUME IInv, Nesting(stack), NEW f \in Frame, stack' = <<f>> \o stack,
         \A g \in Frames : Nested(f, g)
  PROVE  Nesting(stack') /\ Frames' = {f} \cup Frames
BY FramesAre, FramesPushed DEF Frames

LEMMA SwapTurns ==
  ASSUME IInv, Nesting(stack), stack # <<>>, NEW f \in Frame, stack' = <<f>> \o Below,
         \A g \in Rest : Nested(f, g)
  PROVE  Nesting(stack') /\ Frames' = {f} \cup Rest
BY FramesAre, FramesPushed DEF Frames, Rest

LEMMA PopTurns ==
  ASSUME IInv, Nesting(stack), stack # <<>>, stack' = Below
  PROVE  Nesting(stack') /\ Frames' = Rest
BY FramesAre DEF Frames, Rest

LEMMA TwoTurns ==
  ASSUME NEW st \in Seq(Frame), Nesting(st), NEW f \in Frame, NEW g \in Frame,
         stack' = <<f, g>> \o st, Nested(f, g),
         \A h \in ToSet(st) : Nested(f, h) /\ Nested(g, h)
  PROVE  Nesting(stack') /\ Frames' = {f, g} \cup ToSet(st)
<1> DEFINE nx == <<g>> \o st
<1>1. nx \in Seq(Frame) /\ ToSet(nx) = {g} \cup ToSet(st) /\ Nesting(nx)
  BY FramesPushed
<1>2. stack' = <<f>> \o nx
  BY TwoPushed
<1> HIDE DEF nx
<1>3. Nesting(<<f>> \o nx) /\ ToSet(<<f>> \o nx) = {f} \cup ToSet(nx)
  BY <1>1, FramesPushed
<1> QED BY <1>1, <1>2, <1>3 DEF Frames

\* Calls of the engine and of the main loop alone are nested.
LEMMA Mild ==
  ASSUME NEW st, \A f \in ToSet(st) : f.at \notin Own \cup {"OnCreate"}
  PROVE  Nesting(st)
BY DEF Nesting, Nested, ToSet

-----------------------------------------------------------------------------
(* Steps aside from the walks that start, stop and pause the game          *)

OwnWalks(fs) == {f \in fs : f.at \in {"StartGame", "StopGame", "PauseGame"}}

\* Objects are made and registered, and none is lost ...
Grows ==
  /\ frozen' = frozen /\ starts' = starts /\ late \subseteq late'
  /\ \A o \in late' \ late : o \notin Registered(reg)
  /\ \A o \in Registered(reg) : o \in Registered(reg') /\ model'[o] = model[o]
  /\ \A o, p \in Registered(reg) : Before(reg', o, p) <=> Before(reg, o, p)

\* ... or the engine deletes one, outside of every walk.
Loses(o) ==
  /\ frozen' = frozen \ {o} /\ starts' = [starts EXCEPT ![o] = 0] /\ late' = late \ {o}
  /\ Registered(reg') = Registered(reg) \ {o}
  /\ \A p \in Registered(reg') : model'[p] = model[p]
  /\ \A f \in Frames' : f.at # "engine" => f.obj # o
  /\ \A f \in Frames : ~Begun(f)

Aside ==
  /\ OwnWalks(Frames') = OwnWalks(Frames)
  /\ UNCHANGED <<running, paused>>
  /\ Grows \/ \E o \in Object : Loses(o)

\* What such a step does to the creations in progress.
Newly ==
  /\ phase' = "init" =>
       phase = "init" /\ \A f \in Frames' \ Frames : f.at \notin Walks \cup {"Run", "Update", "CameraUpdate"}
  /\ \A o \in Registered(reg') \ Registered(reg) : Starting(Frames', o)
  /\ \A o \in Object : Starting(Frames, o) /\ ~Starting(Frames', o) => ~running
  /\ \A f \in Frames' \ Frames :
       /\ f.at = "OnCreate" => f.obj \in Registered(reg') /\ f.obj \notin Registered(reg)
       /\ f.at # "OnStartGame"
       /\ f.at \in Creating /\ Walkers(Frames, {"StartGame", "StopGame"}) # {} => f.obj \in late'

LEMMA PauseAside ==
  ASSUME IInv, PauseInv, Aside PROVE PauseInv'
<1>1. \A f : f.at \in {"StartGame", "StopGame", "PauseGame"} => (f \in Frames <=> f \in Frames')
  BY DEF Aside, OwnWalks
<1>2. Walkers(Frames', {"PauseGame"}) = Walkers(Frames, {"PauseGame"})
  BY <1>1 DEF Walkers
<1>3. paused' = paused
  BY DEF Aside
<1>4. CASE Grows
  <2>1. frozen' = frozen /\ \A o \in frozen : o \in Registered(reg) /\ o \in Registered(reg') /\ model'[o] = model[o]
    BY <1>4 DEF PauseInv, Grows
  <2>2. ASSUME NEW f \in Walkers(Frames, {"PauseGame"}), NEW o \in frozen
        PROVE  Passed(reg', f, o) <=> Passed(reg, f, o)
    <3>1. f.obj # NoObject => f.obj \in Registered(reg)
      BY FramesAre DEF Walkers, One, Walks
    <3> QED BY <1>4, <2>1, <3>1 DEF Passed, Grows
  <2>3. \A f \in Frames : f.at = "PauseGame" /\ f.obj # NoObject => model'[f.obj] \in Pausable
    <3>1. \A f \in Frames : f.at = "PauseGame" /\ f.obj # NoObject => f.obj \in Registered(reg)
      BY FramesAre DEF One, Walks
    <3> QED BY <1>4, <3>1 DEF PauseInv, Grows
  <2> QED BY <1>1, <1>2, <1>3, <2>1, <2>2, <2>3 DEF PauseInv
<1>5. CASE \E o \in Object : Loses(o)
  <2>1. Walkers(Frames, {"PauseGame"}) = {}
    BY <1>5 DEF Loses, Walkers, Begun, Walks
  <2>2. \A o \in frozen' : o \in frozen /\ o \in Registered(reg') /\ model'[o] = model[o]
    BY <1>5 DEF PauseInv, Loses
  <2>3. \A f \in Frames : f.at = "PauseGame" => f.obj = NoObject
    BY <1>5, FramesAre DEF Loses, One, Begun, Walks
  <2> QED BY <1>1, <1>2, <1>3, <2>1, <2>2, <2>3 DEF PauseInv
<1> QED BY <1>4, <1>5 DEF Aside

LEMMA StartAside ==
  ASSUME IInv, StartInv, Aside, Newly PROVE StartInv'
<1> DEFINE SW == {"StartGame", "StopGame"}
<1>1. \A f : f.at \in {"StartGame", "StopGame", "PauseGame"} => (f \in Frames <=> f \in Frames')
  BY DEF Aside, OwnWalks
<1>2. Walkers(Frames', SW) = Walkers(Frames, SW)
  BY <1>1 DEF Walkers
<1>3. running' = running
  BY DEF Aside
<1>4. phase' = "init" => ~running' /\ \A f \in Frames' : f.at \notin Walks \cup {"Run", "Update", "CameraUpdate"}
  BY <1>3 DEF Newly, StartInv
<1>5. \A f \in Frames' : (f.at = "StartGame" => ~running') /\ (f.at = "StopGame" => running')
  BY <1>1, <1>3 DEF StartInv
<1>6. \A o : Starting(Frames', o) => Starting(Frames, o) \/ o \notin Registered(reg)
  BY DEF Newly, Starting
<1>7. CASE Grows
  <2>1. starts' = starts /\ late \subseteq late' /\ Registered(reg) \subseteq Registered(reg')
    BY <1>7 DEF Grows
  <2>2. \A o \in Object : o \in late' \/ o \notin Registered(reg') \/ Starting(Frames', o) => starts[o] = 0
    BY <1>6, <1>7, <2>1 DEF Grows, StartInv
  <2>3. \A f \in Frames' : f.at \in {"OnCreate", "OnStartGame"} => f.obj \in Registered(reg')
    BY <2>1 DEF StartInv, Newly
  <2>4. Walkers(Frames, SW) # {} => \A f \in Frames' : f.at \in Creating => f.obj \in late'
    BY <2>1 DEF StartInv, Newly
  <2>5. ASSUME NEW o \in Registered(reg') \ late', ~Starting(Frames', o)
        PROVE  /\ Walkers(Frames, SW) = {} => starts[o] = IF running THEN 1 ELSE 0
               /\ \A f \in Walkers(Frames, SW) :
                    starts[o] = IF Passed(reg', f, o) <=> f.at = "StartGame" THEN 1 ELSE 0
    <3>1. o \in Registered(reg) /\ o \notin late /\ o \in Object
      BY <2>1, <2>5 DEF Newly, IInv, Objects
    <3>2. CASE Starting(Frames, o)
      <4>1. ~running /\ starts[o] = 0
        BY <2>5, <3>1, <3>2 DEF Newly, StartInv
      <4>2. Walkers(Frames, SW) = {}
        BY <3>1, <3>2 DEF StartInv, Starting, Creating
      <4> QED BY <4>1, <4>2
    <3>3. CASE ~Starting(Frames, o)
      <4>1. ASSUME NEW f \in Walkers(Frames, SW) PROVE Passed(reg', f, o) <=> Passed(reg, f, o)
        <5>1. f.obj # NoObject => f.obj \in Registered(reg)
          BY FramesAre DEF Walkers, One, Walks
        <5> QED BY <1>7, <3>1, <5>1 DEF Passed, Grows
      <4> QED BY <3>1, <3>3, <4>1 DEF StartInv
    <3> QED BY <3>2, <3>3
  <2> QED BY <1>2, <1>3, <1>4, <1>5, <2>1, <2>2, <2>3, <2>4, <2>5 DEF StartInv
<1>8. CASE \E o \in Object : Loses(o)
  <2>1. PICK o \in Object : Loses(o)
    BY <1>8
  <2>2. Walkers(Frames, SW) = {}
    BY <2>1 DEF Loses, Walkers, Begun, Walks
  <2>3. /\ starts \in [Object -> 0..1] /\ starts' \in [Object -> 0..1] /\ starts'[o] = 0
        /\ \A p \in Object : p # o => starts'[p] = starts[p]
    BY <2>1 DEF StartInv, Loses
  <2>4. \A p \in Object : p \in late' \/ p \notin Registered(reg') \/ Starting(Frames', p) => starts'[p] = 0
    BY <1>6, <2>1, <2>3 DEF Loses, StartInv
  <2>5. \A f \in Frames' : f.at \in {"OnCreate", "OnStartGame"} => f.obj \in Registered(reg')
    <3>1. \A f \in Frames' : f.at \in {"OnCreate", "OnStartGame"} => f.obj # o
      BY <2>1 DEF Loses
    <3> QED BY <2>1, <3>1 DEF StartInv, Newly, Loses
  <2>6. ASSUME NEW p \in Registered(reg') \ late', ~Starting(Frames', p)
        PROVE  starts'[p] = IF running THEN 1 ELSE 0
    <3>1. p \in Registered(reg) /\ p \notin late /\ p \in Object /\ p # o
      BY <2>1, <2>6 DEF Loses, IInv, Objects
    <3>2. CASE Starting(Frames, p)
      BY <2>3, <2>6, <3>1, <3>2 DEF Newly, StartInv
    <3>3. CASE ~Starting(Frames, p)
      BY <2>2, <2>3, <3>1, <3>3 DEF StartInv
    <3> QED BY <3>2, <3>3
  <2> QED BY <1>2, <1>3, <1>4, <1>5, <2>2, <2>3, <2>4, <2>5, <2>6 DEF StartInv
<1> QED BY <1>7, <1>8 DEF Aside

LEMMA MadeGrows ==
  ASSUME IInv, NEW m \in Models, NEW p, EngineObject(m, p), UNCHANGED <<reg, starts>>
  PROVE  /\ Grows
         /\ Walkers(Frames, {"StartGame", "StopGame"}) # {} => NewObject \in late'
<1>1. /\ NewObject \notin Registered(reg)
      /\ \A o \in Object : o # NewObject => life'[o] = life[o] /\ model'[o] = model[o]
  BY MadeKeeps
<1>2. \A o \in Registered(reg) : o \in Object /\ o # NewObject
  BY <1>1 DEF IInv, Objects
<1>3. /\ late' = IF Walking({"StartGame", "StopGame"}) THEN late \cup {NewObject} ELSE late
      /\ frozen' = frozen
  BY DEF EngineObject
<1>4. Walkers(Frames, {"StartGame", "StopGame"}) # {} <=> Walking({"StartGame", "StopGame"})
  BY DEF Walkers, Walking
<1> QED BY <1>1, <1>2, <1>3, <1>4 DEF Grows

LEMMA LinkGrows ==
  ASSUME IInv, NEW o \in Object, life[o] \in Alive, o \notin Registered(reg),
         reg' = Link(reg, GetBinder(model[o], TRUE), o),
         UNCHANGED <<life, model, frozen, starts>>, late' \in {late, late \cup {o}}
  PROVE  Grows /\ Registered(reg') = Registered(reg) \cup {o}
<1>1. /\ Registered(reg') = Registered(reg) \cup {o}
      /\ \E p \in 1..Len(reg.list) + 1 : Inserted(reg.list, reg'.list, p, o)
  BY LinkStep
<1>2. \A x, y \in Registered(reg) : Before(reg', x, y) <=> Before(reg, x, y)
  BY <1>1, LinkedOrder
<1> QED BY <1>1, <1>2 DEF Grows

\* A step that leaves the objects as they are.
LEMMA StillGrows ==
  ASSUME IInv, UNCHANGED <<model, frozen, reg, starts, late>>
  PROVE  Grows
BY DEF Grows

-----------------------------------------------------------------------------
(* The steps *)

LEMMA CreationIs ==
  ASSUME NEW m \in Models, NEW asked \in BOOLEAN, NEW mark \in Models \cup {NoModel},
         NewObject \in Object
  PROVE  LET f == Creation(m, asked, mark)
         IN  /\ f \in Frame /\ f.at \in {"children", "event"} /\ f.obj = NewObject
             /\ f.asked = asked /\ f.mark = mark /\ ~f.lock
BY DEF Creation, Frame, Creating

\* A creation that a callback asks for, from Scroll or from the engine.
LEMMA CallCreateAside ==
  ASSUME IInv, Nesting(stack), NEW m \in Models, NEW asked \in BOOLEAN, NEW mark \in Models \cup {NoModel},
         EngineObject(m, NoObject), stack' = Push(Creation(m, asked, mark)),
         UNCHANGED <<phase, reg, starts, running, paused>>
  PROVE  Nesting(stack') /\ Aside /\ Newly
<1> DEFINE f == Creation(m, asked, mark)
<1>1. /\ EngineObject(m, NoObject) /\ stack' = <<f>> \o stack
      /\ UNCHANGED <<phase, reg, starts, running, paused>>
  BY DEF Push
<1>2. f \in Frame /\ f.at \in {"children", "event"} /\ f.obj = NewObject
  BY <1>1, CreationIs DEF IInv, EngineObject
<1> HIDE DEF f
<1>3. Nesting(stack') /\ Frames' = {f} \cup Frames
  <2>1. \A g : Nested(f, g)
    BY <1>2 DEF Nested, Loop, Own
  <2> QED BY <1>1, <1>2, <2>1, PushTurns
<1>4. Grows /\ (Walkers(Frames, {"StartGame", "StopGame"}) # {} => f.obj \in late')
  BY <1>1, <1>2, MadeGrows
<1>5. Aside
  BY <1>1, <1>2, <1>3, <1>4 DEF Aside, OwnWalks
<1>6. Newly
  BY <1>1, <1>2, <1>3, <1>4 DEF Newly, Walks, Starting
<1> QED BY <1>3, <1>5, <1>6

LEMMA CallAdoptAside ==
  ASSUME IInv, Nesting(stack), NEW o \in Object, CallAdopt(o)
  PROVE  Nesting(stack') /\ Aside /\ Newly
<1> DEFINE f == [Calling("OnCreate", o) EXCEPT !.asked = TRUE, !.mark = createMark]
<1>1. /\ life[o] \in Alive /\ o \notin Registered(reg) /\ o \notin Busy
      /\ reg' = Link(reg, GetBinder(model[o], TRUE), o)
      /\ late' = IF Walking({"StartGame", "StopGame"}) THEN late \cup {o} ELSE late
      /\ stack' = <<f>> \o stack
      /\ UNCHANGED <<phase, life, model, frozen, starts, running, paused>>
  BY DEF CallAdopt, Live, Alive, Bound, Push, engineVars, stateVars
<1>2. f.at = "OnCreate" /\ f.obj = o /\ f \in Frame
  BY DEF IInv, Calling, Frame, Creating
<1> HIDE DEF f
<1>3. Nesting(stack') /\ Frames' = {f} \cup Frames
  <2>1. ASSUME NEW g \in Frames PROVE Nested(f, g)
    <3>1. g.at = "OnCreate" => g.obj # o
      BY <1>1 DEF Busy, Creating
    <3> QED BY <1>2, <3>1 DEF Nested, Loop, Own
  <2> QED BY <1>1, <1>2, <2>1, PushTurns
<1>4. Grows /\ Registered(reg') = Registered(reg) \cup {o}
  BY <1>1, LinkGrows
<1>5. Walkers(Frames, {"StartGame", "StopGame"}) # {} => o \in late'
  BY <1>1 DEF Walkers, Walking
<1>6. Aside
  BY <1>1, <1>2, <1>3, <1>4 DEF Aside, OwnWalks
<1>7. Newly
  BY <1>1, <1>2, <1>3, <1>4, <1>5 DEF Newly, Walks, Starting
<1> QED BY <1>3, <1>6, <1>7

LEMMA CreateChildAside ==
  ASSUME IInv, Nesting(stack), StartInv, CreateChild
  PROVE  Nesting(stack') /\ Aside /\ Newly
<1> DEFINE m == Child[model[Top.obj]]
           f == Creation(m, FALSE, NoModel)
           g == [Top EXCEPT !.at = "event"]
<1>1. /\ stack # <<>> /\ Top.at = "children" /\ EngineObject(m, Top.obj)
      /\ stack' = <<f, g>> \o Below
      /\ UNCHANGED <<phase, reg, starts, running, paused>>
  BY DEF CreateChild, At, stateVars
<1>2. /\ Top \in Frame /\ Below \in Seq(Frame) /\ Frames = {Top} \cup Rest
      /\ One(Top, life, model, reg) /\ Nesting(Below)
  BY <1>1, FramesAre
<1>3. m \in Models
  BY <1>1, <1>2 DEF One
<1>4. g \in Frame /\ g.at = "event" /\ g.obj = Top.obj
  BY <1>2 DEF Frame, Creating
<1> HIDE DEF g, m
<1>5. f \in Frame /\ f.at \in {"children", "event"} /\ f.obj = NewObject
  <2>1. NewObject \in Object
    BY <1>1 DEF EngineObject
  <2> QED BY <1>3, <2>1, CreationIs
<1> HIDE DEF f
<1>6. Nesting(stack') /\ Frames' = {f, g} \cup Rest
  <2>1. \A h : Nested(f, h) /\ Nested(g, h)
    BY <1>4, <1>5 DEF Nested, Loop, Own
  <2> QED BY <1>1, <1>2, <1>4, <1>5, <2>1, TwoTurns DEF Rest
<1>7. Grows /\ (Walkers(Frames, {"StartGame", "StopGame"}) # {} => f.obj \in late')
  BY <1>1, <1>3, <1>5, MadeGrows
<1>8. Walkers(Frames, {"StartGame", "StopGame"}) # {} => g.obj \in late'
  BY <1>1, <1>2, <1>4, <1>7 DEF StartInv, Grows, Creating
<1>9. Aside
  BY <1>1, <1>2, <1>4, <1>5, <1>6, <1>7 DEF Aside, OwnWalks
<1>10. Newly
  BY <1>1, <1>2, <1>4, <1>5, <1>6, <1>7, <1>8 DEF Newly, Walks, Starting
<1> QED BY <1>6, <1>9, <1>10

LEMMA SendCreateAside ==
  ASSUME IInv, Nesting(stack), StartInv, SendCreate
  PROVE  Nesting(stack') /\ Aside /\ Newly
<1> DEFINE o == Top.obj
           f == [Top EXCEPT !.at = "OnCreate"]
<1>1. /\ stack # <<>> /\ Top.at = "event"
      /\ UNCHANGED <<phase, life, model, frozen, starts, late, running, paused>>
  BY DEF SendCreate, At, engineVars, stateVars, startVars
<1>2. /\ Top \in Frame /\ Below \in Seq(Frame) /\ Frames = {Top} \cup Rest
      /\ One(Top, life, model, reg) /\ \A g \in Rest : Apart(Top, g) /\ Nested(Top, g)
  BY <1>1, FramesAre
<1>3. CASE MakerOf(o) = NoBinder
  <2>1. stack' = Below /\ reg' = reg
    BY <1>3 DEF SendCreate
  <2>2. Nesting(stack') /\ Frames' = Rest
    BY <1>1, <2>1, PopTurns
  <2>3. Aside
    BY <1>1, <1>2, <2>1, <2>2, StillGrows DEF Aside, OwnWalks
  <2>4. Newly
    BY <1>1, <1>2, <2>1, <2>2 DEF Newly, Starting
  <2> QED BY <2>2, <2>3, <2>4
<1>4. CASE MakerOf(o) # NoBinder
  <2>1. stack' = <<f>> \o Below /\ reg' = Link(reg, MakerOf(o), o)
    BY <1>4 DEF SendCreate, Swap
  <2>2. o \in Object /\ life[o] \in Alive /\ o \notin Registered(reg)
    BY <1>1, <1>2 DEF One, Frame, Creating
  <2>3. MakerOf(o) = GetBinder(model[o], TRUE)
    <3>1. model[o] \in Models /\ (createMark # NoModel) \in BOOLEAN
      BY <2>2 DEF IInv, Objects
    <3> HIDE DEF o
    <3> QED BY <1>4, <3>1, BinderIs DEF MakerOf
  <2>4. f \in Frame /\ f.at = "OnCreate" /\ f.obj = o
    BY <1>2 DEF Frame, Creating
  <2>5. Grows /\ Registered(reg') = Registered(reg) \cup {o}
    <3> HIDE DEF o
    <3> QED BY <1>1, <2>1, <2>2, <2>3, LinkGrows
  <2>6. Walkers(Frames, {"StartGame", "StopGame"}) # {} => o \in late'
    BY <1>1, <1>2 DEF StartInv, Creating
  <2> HIDE DEF f
  <2>7. \A g \in Rest : Nested(f, g)
    <3>1. \A g \in Rest : g.at = "OnCreate" => g.obj # o
      BY <1>1, <1>2 DEF Apart, Alone
    <3> QED BY <2>4, <3>1 DEF Nested, Loop, Own
  <2>8. Nesting(stack') /\ Frames' = {f} \cup Rest
    BY <1>1, <2>1, <2>4, <2>7, SwapTurns
  <2> HIDE DEF o
  <2>9. Aside
    BY <1>1, <1>2, <2>4, <2>5, <2>8 DEF Aside, OwnWalks
  <2>10. Newly
    BY <1>1, <1>2, <2>2, <2>4, <2>5, <2>6, <2>8 DEF Newly, Starting, Walks
  <2> QED BY <2>8, <2>9, <2>10
<1> QED BY <1>3, <1>4

LEMMA EndCreateAside ==
  ASSUME IInv, Nesting(stack), EndCreate
  PROVE  Nesting(stack') /\ Aside /\ Newly
<1> DEFINE f == Calling("OnObjectCreate", Top.obj)
<1>1. /\ stack # <<>>
      /\ Top.at = "OnStartGame" \/ (Top.at = "OnCreate" /\ ~running)
      /\ stack' = Below \/ stack' = <<f>> \o Below
      /\ UNCHANGED <<phase, model, reg, frozen, starts, late, running, paused>>
  BY DEF EndCreate, At, Swap, engineVars, stateVars, startVars
<1>2. Top \in Frame /\ Frames = {Top} \cup Rest
  BY <1>1, FramesAre
<1>3. f \in Frame /\ f.at = "OnObjectCreate"
  BY <1>2 DEF Calling, Frame, Handling
<1> HIDE DEF f
<1>4. Nesting(stack') /\ (Frames' = Rest \/ Frames' = {f} \cup Rest)
  <2>1. \A g : Nested(f, g)
    BY <1>3 DEF Nested, Loop, Own
  <2> QED BY <1>1, <1>3, <2>1, PopTurns, SwapTurns
<1>5. Aside
  BY <1>1, <1>2, <1>3, <1>4, StillGrows DEF Aside, OwnWalks
<1>6. Newly
  BY <1>1, <1>2, <1>3, <1>4 DEF Newly, Starting, Walks, Creating
<1> QED BY <1>4, <1>5, <1>6

LEMMA DeletionIs ==
  ASSUME NEW o \in Object, NEW asked \in BOOLEAN, NEW mark \in Models \cup {NoModel}
  PROVE  LET f == Deletion(o, asked, mark)
         IN  /\ f \in Frame /\ f.at = "OnObjectDelete" /\ f.obj = o
             /\ f.asked = asked /\ f.mark = mark /\ ~f.lock
BY DEF Deletion, Calling, Frame, Deleting

LEMMA DeleteObjectAside ==
  ASSUME IInv, Nesting(stack), NEW o \in Registered(reg), DeleteObject(o),
         phase' = "init" => phase = "init"
  PROVE  Nesting(stack') /\ Aside /\ Newly
<1> DEFINE f == Deletion(o, TRUE, deleteMark)
<1>1. /\ UNCHANGED <<model, reg, frozen, starts, late, running, paused>>
      /\ stack' = stack \/ stack' = <<f>> \o stack
  BY DEF DeleteObject, Push, stateVars, startVars
<1>2. f \in Frame /\ f.at = "OnObjectDelete"
  <2>1. o \in Object /\ deleteMark \in Models \cup {NoModel}
    BY DEF IInv, Objects
  <2> QED BY <2>1, DeletionIs
<1> HIDE DEF f
<1>3. Nesting(stack') /\ (Frames' = Frames \/ Frames' = {f} \cup Frames)
  <2>1. \A g : Nested(f, g)
    BY <1>2 DEF Nested, Loop, Own
  <2>2. CASE stack' = stack
    BY <2>2 DEF Frames
  <2>3. CASE stack' = <<f>> \o stack
    BY <1>2, <2>1, <2>3, PushTurns
  <2> QED BY <1>1, <2>2, <2>3
<1>4. Aside
  BY <1>1, <1>2, <1>3, StillGrows DEF Aside, OwnWalks
<1>5. Newly
  BY <1>1, <1>2, <1>3 DEF Newly, Starting, Walks, Creating
<1> QED BY <1>3, <1>4, <1>5

LEMMA SetLifeTimeAside ==
  ASSUME IInv, Nesting(stack), NEW o, CallSetLifeTime(o)
  PROVE  Nesting(stack') /\ Aside /\ Newly
<1>1. UNCHANGED <<phase, stack, model, reg, frozen, starts, late, running, paused>>
  BY DEF CallSetLifeTime, stateVars, startVars
<1>2. Nesting(stack') /\ Frames' = Frames
  BY <1>1 DEF Frames
<1>3. Aside
  BY <1>1, <1>2, StillGrows DEF Aside, OwnWalks
<1>4. Newly
  BY <1>1, <1>2 DEF Newly, Starting
<1> QED BY <1>2, <1>3, <1>4

LEMMA EndOnObjectDeleteAside ==
  ASSUME IInv, Nesting(stack), EndOnObjectDelete
  PROVE  Nesting(stack') /\ Aside /\ Newly
<1> DEFINE f == [Top EXCEPT !.at = "OnDelete", !.lock = locked]
<1>1. /\ stack # <<>> /\ Top.at = "OnObjectDelete" /\ stack' = <<f>> \o Below
      /\ UNCHANGED <<phase, model, reg, frozen, starts, late, running, paused>>
  BY DEF EndOnObjectDelete, At, Swap, engineVars, startVars
<1>2. Top \in Frame /\ Frames = {Top} \cup Rest
  BY <1>1, FramesAre
<1>3. f \in Frame /\ f.at = "OnDelete"
  BY <1>2 DEF Frame, Deleting, IInv
<1> HIDE DEF f
<1>4. Nesting(stack') /\ Frames' = {f} \cup Rest
  <2>1. \A g : Nested(f, g)
    BY <1>3 DEF Nested, Loop, Own
  <2> QED BY <1>1, <1>3, <2>1, SwapTurns
<1>5. Aside
  BY <1>1, <1>2, <1>3, <1>4, StillGrows DEF Aside, OwnWalks
<1>6. Newly
  BY <1>1, <1>2, <1>3, <1>4 DEF Newly, Starting, Walks, Creating
<1> QED BY <1>4, <1>5, <1>6

LEMMA EndDeleteAside ==
  ASSUME IInv, Nesting(stack), EndDelete
  PROVE  Nesting(stack') /\ Aside /\ Newly
<1> DEFINE o == Top.obj
           cl == Classes(model)
<1>1. /\ stack # <<>> /\ Top.at = "OnDelete" /\ stack' = Below
      /\ reg' = Unlink(reg, GetBinder(model[o], TRUE), o) /\ Kill(o)
      /\ UNCHANGED <<phase, running, paused>>
  BY DEF EndDelete, At
<1>2. /\ Top \in Frame /\ Frames = {Top} \cup Rest /\ One(Top, life, model, reg)
      /\ \A g \in Rest : Apart(Top, g)
  BY <1>1, FramesAre
<1>3. o \in Registered(reg) /\ o \in Object /\ life[o] \in Alive /\ model[o] \in Models
  BY <1>1, <1>2 DEF One, Deleting, IInv, Objects
<1>4. Registered(reg') = Registered(reg) \ {o}
  <2>1. cl[o] = GetBinder(model[o], TRUE) /\ cl[o] \in Binders
    BY <1>3, BinderIs DEF Classes
  <2>2. Registry(reg, cl) /\ reg' = Unlink(reg, cl[o], o)
    BY <1>1, <2>1 DEF IInv
  <2> HIDE DEF cl, o
  <2> QED BY <1>3, <2>1, <2>2, UnlinkKeeps
<1>5. Nesting(stack') /\ Frames' = Rest
  BY <1>1, PopTurns
<1>6. Loses(o)
  <2>1. \A f \in Rest : ~Begun(f) /\ (f.at # "engine" => f.obj # o)
    BY <1>1, <1>2 DEF Apart, Alone, Deleting
  <2>2. ~Begun(Top)
    BY <1>1 DEF Begun, Walks
  <2> HIDE DEF o
  <2>3. frozen' = frozen \ {o} /\ starts' = [starts EXCEPT ![o] = 0] /\ late' = late \ {o}
    BY <1>1 DEF Kill
  <2>4. \A p \in Registered(reg') : model'[p] = model[p]
    BY <1>1, <1>4 DEF Kill, IInv, Objects
  <2> QED BY <1>2, <1>4, <1>5, <2>1, <2>2, <2>3, <2>4 DEF Loses
<1>7. Aside
  BY <1>1, <1>2, <1>3, <1>5, <1>6 DEF Aside, OwnWalks
<1>8. Newly
  BY <1>1, <1>2, <1>4, <1>5 DEF Newly, Starting
<1> QED BY <1>5, <1>7, <1>8

LEMMA ReturnAside ==
  ASSUME IInv, Nesting(stack), Return \/ EnginePassed
  PROVE  Nesting(stack') /\ Aside /\ Newly
<1>1. /\ stack # <<>> /\ Top.at \in GameCalls \cup Handling \cup {"engine"} /\ stack' = Below
      /\ UNCHANGED <<phase, model, reg, frozen, starts, late, running, paused>>
  BY DEF Return, EnginePassed, At, engineVars, stateVars, startVars
<1>2. Frames = {Top} \cup Rest
  BY <1>1, FramesAre
<1>3. Nesting(stack') /\ Frames' = Rest
  BY <1>1, PopTurns
<1>4. Aside
  BY <1>1, <1>2, <1>3, StillGrows DEF Aside, OwnWalks, GameCalls, Handling
<1>5. Newly
  BY <1>1, <1>2, <1>3 DEF Newly, Starting, GameCalls, Handling
<1> QED BY <1>3, <1>4, <1>5

\* The walk of BaseUpdate.
LEMMA UpdateAside ==
  ASSUME IInv, Nesting(stack), StartInv, Visit, Top.at = "BaseUpdate"
  PROVE  Nesting(stack') /\ Aside /\ Newly
<1> DEFINE f1 == [Top EXCEPT !.lock = TRUE]
           f2 == [Top EXCEPT !.obj = NextOf(Top)]
           f3 == Calling("Update", NoObject)
<1>1. stack # <<>> /\ UNCHANGED <<phase, model, reg>>
  BY DEF Visit, WalkBegin, WalkNext, WalkEnd, engineVars
<1>2. UNCHANGED <<starts, late, running, paused, frozen>>
  BY DEF Visit, WalkBegin, WalkNext, WalkEnd, FrozenAfter, engineVars, startVars, stateVars
<1>3. /\ Top \in Frame /\ Frames = {Top} \cup Rest /\ \A g \in Rest : Nested(Top, g)
      /\ One(Top, life, model, reg)
  BY <1>1, FramesAre
<1>4. \/ stack' = <<f1>> \o Below
      \/ stack' = <<f2>> \o Below /\ NextOf(Top) # NoObject
      \/ stack' = <<f3>> \o Below
  BY DEF Visit, WalkBegin, WalkNext, WalkEnd, Swap
<1>5. \E f \in Frame : f.at \in {"BaseUpdate", "Update"} /\ stack' = <<f>> \o Below
  <2>1. f1 \in Frame /\ f1.at = "BaseUpdate"
    BY <1>3 DEF Frame
  <2>2. NextOf(Top) # NoObject => f2 \in Frame /\ f2.at = "BaseUpdate"
    <3>1. NextOf(Top) # NoObject => NextOf(Top) \in Object
      BY <1>3, NextIs DEF Walks
    <3> QED BY <1>3, <3>1 DEF Frame
  <2>3. f3 \in Frame /\ f3.at = "Update"
    BY DEF Calling, Frame, GameCalls
  <2> HIDE DEF f1, f2, f3
  <2> QED BY <1>4, <2>1, <2>2, <2>3
<1>6. PICK f \in Frame : f.at \in {"BaseUpdate", "Update"} /\ stack' = <<f>> \o Below
  BY <1>5
<1>7. Nesting(stack') /\ Frames' = {f} \cup Rest
  <2>1. \A g \in Rest : Nested(f, g)
    BY <1>3, <1>6 DEF Nested, Loop, Own
  <2> QED BY <1>1, <1>6, <2>1, SwapTurns
<1>8. Aside
  BY <1>1, <1>2, <1>3, <1>6, <1>7, StillGrows DEF Aside, OwnWalks
<1>9. Newly
  <2>1. phase # "init"
    BY <1>3 DEF StartInv, Walks
  <2> QED BY <1>1, <1>3, <1>6, <1>7, <2>1 DEF Newly, Starting, Creating
<1> QED BY <1>7, <1>8, <1>9

\* The main loop starts a step with the calls of the game and of the engine.
LEMMA FreshAside ==
  ASSUME IInv, stack = <<>>, phase' # "init", UNCHANGED <<running, paused>>,
         Grows, Registered(reg') = Registered(reg),
         \A f \in Frames' : f.at \notin Own \cup {"OnCreate", "OnStartGame"}
  PROVE  Nesting(stack') /\ Aside /\ Newly
<1>1. Frames = {}
  BY FramesAre
<1>2. Nesting(stack')
  BY Mild DEF Frames
<1>3. Aside
  BY <1>1 DEF Aside, OwnWalks, Own
<1>4. Newly
  BY <1>1 DEF Newly, Starting, Walkers
<1> QED BY <1>2, <1>3, <1>4

LEMMA OneFrame ==
  ASSUME NEW f \in Frame
  PROVE  ToSet(<<f>>) = {f} /\ <<f>> \in Seq(Frame)
BY DEF ToSet

LEMMA ElementsOf ==
  ASSUME NEW s \in Seq(Frame), NEW t \in Seq(Frame)
  PROVE  s \o t \in Seq(Frame) /\ ToSet(s \o t) \subseteq ToSet(s) \cup ToSet(t)
<1> DEFINE u == s \o t
<1>1. /\ u \in Seq(Frame) /\ Len(u) = Len(s) + Len(t) /\ Len(s) \in Nat /\ Len(t) \in Nat
      /\ \A k \in 1..Len(s) + Len(t) : u[k] = IF k <= Len(s) THEN s[k] ELSE t[k - Len(s)]
  BY ConcatProperties
<1> HIDE DEF u
<1>2. /\ DOMAIN u = 1..Len(s) + Len(t) /\ DOMAIN s = 1..Len(s) /\ DOMAIN t = 1..Len(t)
  BY <1>1
<1>3. ASSUME NEW k \in DOMAIN u PROVE u[k] \in ToSet(s) \cup ToSet(t)
  <2>1. CASE k <= Len(s)
    BY <1>1, <1>2, <2>1 DEF ToSet
  <2>2. CASE ~(k <= Len(s))
    <3>1. k - Len(s) \in DOMAIN t /\ u[k] = t[k - Len(s)]
      BY <1>1, <1>2, <2>2
    <3> QED BY <3>1 DEF ToSet
  <2> QED BY <2>1, <2>2
<1>4. ToSet(u) \subseteq ToSet(s) \cup ToSet(t)
  BY <1>3 DEF ToSet
<1> QED BY <1>1, <1>4 DEF u

LEMMA NoFrame == ToSet(<<>>) = {} /\ <<>> \in Seq(Frame)
BY DEF ToSet

LEMMA ToldIs ==
  ASSUME IInv, NEW o
  PROVE  Told(o) \in Seq(Frame) /\ \A f \in ToSet(Told(o)) : f.at = "OnEvent"
<1>1. CASE ~Bound(o)
  BY <1>1, NoFrame DEF Told
<1>2. CASE Bound(o)
  <2> DEFINE f == Calling("OnEvent", o)
  <2>1. o \in Object
    BY <1>2 DEF Bound, IInv, Objects
  <2>2. f \in Frame /\ f.at = "OnEvent"
    BY <2>1 DEF Calling, Frame, Handling
  <2>3. Told(o) = <<f>>
    BY <1>2 DEF Told
  <2> HIDE DEF f
  <2> QED BY <2>2, <2>3, OneFrame
<1> QED BY <1>1, <1>2

\* The steps of the main loop that make no object and start no walk of the game's own.
LEMMA LoopAside ==
  ASSUME IInv, Tick \/ NextFrame \/ Close \/ Clear \/ Done
                 \/ (\E s, r \in Live : Contact(s, r)) \/ (\E o \in Live \cup {NoObject} : Notice(o))
  PROVE  Nesting(stack') /\ Aside /\ Newly /\ \A f \in Frames' : f.at \notin Creating
<1> DEFINE c == Calling("CameraUpdate", NoObject)
           u == Calling("Update", NoObject)
           w == Walk("BaseUpdate", FALSE)
           x == Calling("Exit", NoObject)
           n == Calling("Run", NoObject)
           e == Calling("engine", NoObject)
<1>1. /\ stack = <<>> /\ phase' # "init"
      /\ UNCHANGED <<model, reg, frozen, starts, late, running, paused>>
  BY DEF Tick, NextFrame, Close, Clear, Done, Contact, Notice, EngineStep, Step,
         engineVars, stateVars, startVars
<1>2. /\ c \in Frame /\ c.at = "CameraUpdate" /\ u \in Frame /\ u.at = "Update"
      /\ x \in Frame /\ x.at = "Exit" /\ n \in Frame /\ n.at = "Run"
  BY GameCallIs DEF GameCalls
<1>3. w \in Frame /\ w.at = "BaseUpdate"
  BY WalkIs DEF Walks
<1>4. e \in Frame /\ e.at = "engine"
  BY EngineIs
<1>5. \/ stack' \in {<<>>, <<x>>, <<n>>, <<>> \o <<c>>, <<u>> \o <<c>>, <<w>> \o <<c>>}
      \/ \E s, r : stack' = (Told(s) \o Told(r)) \o <<e>>
      \/ \E o : stack' = Told(o) \o <<e>>
  BY DEF Tick, NextFrame, Close, Clear, Done, Contact, Notice, EngineStep, Step
<1> HIDE DEF c, u, w, x, n, e
<1>6. \A f \in Frames' : f.at \notin Own \cup Creating
  <2>1. CASE stack' \in {<<>>, <<x>>, <<n>>, <<>> \o <<c>>, <<u>> \o <<c>>, <<w>> \o <<c>>}
    <3>1. Frames' \subseteq {c, u, w, x, n}
      <4>1. \A f \in {c, u, w, x, n} : f \in Frame /\ <<f>> \in Seq(Frame) /\ ToSet(<<f>>) = {f}
        BY <1>2, <1>3, OneFrame
      <4>2. ASSUME NEW f \in {c, u, w, x, n} PROVE ToSet(<<f>> \o <<c>>) \subseteq {f, c}
        <5>1. ToSet(<<f>> \o <<c>>) \subseteq ToSet(<<f>>) \cup ToSet(<<c>>)
          BY <4>1, ElementsOf
        <5> QED BY <4>1, <5>1
      <4>3. ToSet(<<>> \o <<c>>) \subseteq {c}
        BY <4>1, NoFrame, ElementsOf
      <4>4. ToSet(stack') \subseteq {c, u, w, x, n}
        <5>1. CASE stack' \in {<<>>, <<x>>, <<n>>}
          BY <4>1, <5>1, NoFrame
        <5>2. CASE stack' \in {<<>> \o <<c>>, <<u>> \o <<c>>, <<w>> \o <<c>>}
          <6>1. ToSet(<<u>> \o <<c>>) \subseteq {u, c} /\ ToSet(<<w>> \o <<c>>) \subseteq {w, c}
            BY <4>2
          <6> DEFINE U(st) == ToSet(st) \subseteq {c, u, w, x, n}
          <6>2. U(<<>> \o <<c>>) /\ U(<<u>> \o <<c>>) /\ U(<<w>> \o <<c>>)
            BY <4>3, <6>1
          <6>3. U(stack')
            <7> HIDE DEF U
            <7> QED BY <5>2, <6>2, Zenon
          <6> QED BY <6>3
        <5> QED BY <2>1, <5>1, <5>2
      <4> QED BY <4>4 DEF Frames
    <3> QED BY <1>2, <1>3, <3>1 DEF Own, Creating
  <2>2. CASE \E s, r : stack' = (Told(s) \o Told(r)) \o <<e>>
    <3>1. PICK s, r : stack' = (Told(s) \o Told(r)) \o <<e>>
      BY <2>2
    <3>2. /\ Told(s) \o Told(r) \in Seq(Frame)
          /\ \A f \in ToSet(Told(s) \o Told(r)) : f.at = "OnEvent"
      BY ToldIs, ElementsOf
    <3>3. \A f \in Frames' : f.at \in {"OnEvent", "engine"}
      <4>1. <<e>> \in Seq(Frame) /\ ToSet(<<e>>) = {e}
        BY <1>4, OneFrame
      <4>2. Frames' \subseteq ToSet(Told(s) \o Told(r)) \cup {e}
        BY <3>1, <3>2, <4>1, ElementsOf DEF Frames
      <4> QED BY <1>4, <3>2, <4>2
    <3> QED BY <3>3 DEF Own, Creating
  <2>3. CASE \E o : stack' = Told(o) \o <<e>>
    <3>1. PICK o : stack' = Told(o) \o <<e>>
      BY <2>3
    <3>2. \A f \in Frames' : f.at \in {"OnEvent", "engine"}
      <4>1. <<e>> \in Seq(Frame) /\ ToSet(<<e>>) = {e}
        BY <1>4, OneFrame
      <4>2. Frames' \subseteq ToSet(Told(o)) \cup {e}
        BY <3>1, <4>1, ToldIs, ElementsOf DEF Frames
      <4> QED BY <1>4, <4>2, ToldIs
    <3> QED BY <3>2 DEF Own, Creating
  <2> QED BY <1>5, <2>1, <2>2, <2>3
<1> QED BY <1>1, <1>6, StillGrows, FreshAside DEF Creating

LEMMA SpawnAside ==
  ASSUME IInv, NEW m \in Models, Spawn(m)
  PROVE  Nesting(stack') /\ Aside /\ Newly
<1> DEFINE f == Creation(m, FALSE, NoModel)
           e == Calling("engine", NoObject)
<1>1. /\ stack = <<>> /\ phase' # "init" /\ stack' = <<f>> \o <<e>> /\ EngineObject(m, NoObject)
      /\ UNCHANGED <<reg, starts, running, paused>>
  BY DEF Spawn, EngineStep, Step, stateVars
<1>2. f \in Frame /\ f.at \in {"children", "event"}
  <2>1. NewObject \in Object
    BY <1>1 DEF EngineObject
  <2> QED BY <2>1, CreationIs
<1>3. e \in Frame /\ e.at = "engine"
  BY EngineIs
<1> HIDE DEF e, f
<1>4. \A g \in Frames' : g.at \notin Own \cup {"OnCreate", "OnStartGame"}
  <2>1. Frames' \subseteq {e, f}
    BY <1>1, <1>2, <1>3, OneFrame, ElementsOf DEF Frames
  <2> QED BY <1>2, <1>3, <2>1 DEF Own
<1> QED BY <1>1, <1>4, MadeGrows, FreshAside

LEMMA ClearObjectAside ==
  ASSUME IInv, Nesting(stack), ClearObject
  PROVE  Nesting(stack') /\ Aside /\ Newly
<1> DEFINE o == GetNextObject(reg.chrono, NoObject)
<1>1. o # NoObject /\ DeleteObject(o) /\ phase' # "init"
  BY DEF ClearObject, Step
<1>2. o \in Registered(reg)
  <2>1. reg.chrono # <<>> /\ o = Head(reg.chrono) /\ reg.chrono \in Seq(Object)
    BY <1>1 DEF GetNextObject, IInv, Registry, RegistryState
  <2>2. o = reg.chrono[1] /\ 1 \in DOMAIN reg.chrono
    BY <2>1, PopIs
  <2> QED BY <2>2 DEF Registered, ToSet
<1> QED BY <1>1, <1>2, DeleteObjectAside

LEMMA EngineDeletesAside ==
  ASSUME IInv, Nesting(stack), EngineDeletes
  PROVE  Nesting(stack') /\ Aside /\ Newly /\ \A f \in Frames' : f.at \notin Creating
<1> DEFINE o == NextToDelete(Top.obj)
           e == [Top EXCEPT !.obj = o]
           f == Deletion(o, FALSE, NoModel)
<1>1. /\ stack # <<>> /\ Top.at = "engine" /\ o # NoObject
      /\ UNCHANGED <<phase, reg, running, paused>>
  BY DEF EngineDeletes, At, stateVars
<1>2. /\ Top \in Frame /\ Frames = {Top} \cup Rest /\ \A g \in Rest : Apart(Top, g)
      /\ Below \in Seq(Frame) /\ Nesting(Below)
  BY <1>1, FramesAre
<1>3. Rest = {} /\ Below = <<>>
  <2>1. Rest = {}
    BY <1>1, <1>2 DEF Apart
  <2>2. DOMAIN Below = {}
    BY <2>1 DEF Rest, ToSet
  <2> QED BY <1>2, <2>1, <2>2, EmptySeq
<1>4. deleteMark = NoModel
  <2>1. Marks(<<>>, deleteMark) /\ DOMAIN <<>> = {}
    BY <1>1, <1>3, TopIs DEF Calls, Asked, Deleting
  <2> QED BY <2>1 DEF Marks
<1>5. o \in Object /\ model[o] \in Models
  <2> DEFINE S == {p \in Live : p > Top.obj /\ life[p] = "zero"}
  <2>1. o = Lowest(S)
    BY DEF NextToDelete
  <2>2. S \in SUBSET Object /\ \A p \in S : life[p] \in Alive
    BY DEF Live, Alive
  <2> HIDE DEF S, o
  <2> QED BY <1>1, <2>1, <2>2, LowestIs DEF IInv, Objects
<1>6. e \in Frame /\ e.at = "engine"
  <2> HIDE DEF o
  <2> QED BY <1>1, <1>2, <1>5 DEF Frame
<1>7. f \in Frame /\ f.at = "OnObjectDelete"
  <2> HIDE DEF o
  <2> QED BY <1>5 DEF Deletion, Calling, Frame, Deleting
<1>8. \A g, h : Nested(f, h) /\ Nested(e, h)
  BY <1>6, <1>7 DEF Nested, Loop, Own
<1>9. CASE Bound(o) /\ deleteMark # model[o]
  <2>1. stack' = <<f, e>> \o Below /\ UNCHANGED <<model, frozen, starts, late>>
    BY <1>9 DEF EngineDeletes, engineVars, startVars
  <2> HIDE DEF o, e, f
  <2>2. Nesting(stack') /\ Frames' = {f, e} \cup Rest
    BY <1>2, <1>6, <1>7, <1>8, <2>1, TwoTurns DEF Rest
  <2>3. Aside
    BY <1>1, <1>2, <1>6, <1>7, <2>1, <2>2, StillGrows DEF Aside, OwnWalks
  <2>4. Newly
    BY <1>1, <1>2, <1>6, <1>7, <2>1, <2>2 DEF Newly, Starting, Creating, Walks
  <2> QED BY <1>3, <1>6, <1>7, <2>2, <2>3, <2>4 DEF Creating
<1>10. CASE ~(Bound(o) /\ deleteMark # model[o])
  <2>1. stack' = <<e>> \o Below /\ Kill(o)
    BY <1>10 DEF EngineDeletes, Swap
  <2>2. o \notin Registered(reg)
    BY <1>4, <1>5, <1>10, LoopAssumption DEF Bound
  <2> HIDE DEF o, e, f
  <2>3. Nesting(stack') /\ Frames' = {e} \cup Rest
    BY <1>1, <1>6, <1>8, <2>1, SwapTurns
  <2>4. Loses(o)
    <3>1. frozen' = frozen \ {o} /\ starts' = [starts EXCEPT ![o] = 0] /\ late' = late \ {o}
      BY <2>1 DEF Kill
    <3>2. \A p \in Registered(reg') : model'[p] = model[p]
      BY <1>1, <2>1, <2>2 DEF Kill, IInv, Objects
    <3>3. ~Begun(Top)
      BY <1>1 DEF Begun, Walks
    <3> QED BY <1>1, <1>2, <1>3, <1>6, <2>2, <2>3, <3>1, <3>2, <3>3 DEF Loses
  <2>5. Aside
    BY <1>1, <1>2, <1>5, <1>6, <2>3, <2>4 DEF Aside, OwnWalks
  <2>6. Newly
    BY <1>1, <1>2, <1>6, <2>3 DEF Newly, Starting, Creating, Walks
  <2> QED BY <1>3, <1>6, <2>3, <2>5, <2>6 DEF Creating
<1> QED BY <1>9, <1>10

-----------------------------------------------------------------------------
(* The walks of the game's own                                             *)

LEMMA PauseSame ==
  ASSUME PauseInv, UNCHANGED <<frozen, reg, model, paused>>, OwnWalks(Frames') = OwnWalks(Frames)
  PROVE  PauseInv'
<1>1. \A f : f.at \in {"StartGame", "StopGame", "PauseGame"} => (f \in Frames <=> f \in Frames')
  BY DEF OwnWalks
<1>2. Walkers(Frames', {"PauseGame"}) = Walkers(Frames, {"PauseGame"})
  BY <1>1 DEF Walkers
<1> QED BY <1>1, <1>2 DEF PauseInv

LEMMA CreatedRunningKeeps ==
  ASSUME IInv, Nesting(stack), PauseInv, StartInv, CreatedRunning
  PROVE  Nesting(stack') /\ PauseInv' /\ StartInv'
<1> DEFINE o == Top.obj
           f == [Top EXCEPT !.at = "OnStartGame"]
           SW == {"StartGame", "StopGame"}
<1>1. /\ stack # <<>> /\ Top.at = "OnCreate" /\ running /\ stack' = <<f>> \o Below
      /\ starts' = IF o \in late THEN starts ELSE [starts EXCEPT ![o] = @ + 1]
      /\ UNCHANGED <<phase, model, frozen, reg, running, paused, late>>
  BY DEF CreatedRunning, Counted, At, Swap, engineVars, stateVars
<1>2. /\ Top \in Frame /\ Frames = {Top} \cup Rest /\ \A g \in Rest : Nested(Top, g)
  BY <1>1, FramesAre
<1>3. f \in Frame /\ f.at = "OnStartGame" /\ f.obj = o
  BY <1>2 DEF Frame, Creating
<1> HIDE DEF f
<1>4. Nesting(stack') /\ Frames' = {f} \cup Rest
  <2>1. \A g : Nested(f, g)
    BY <1>3 DEF Nested, Loop, Own
  <2> QED BY <1>1, <1>3, <2>1, SwapTurns
<1>5. OwnWalks(Frames') = OwnWalks(Frames) /\ Walkers(Frames', SW) = Walkers(Frames, SW)
  BY <1>1, <1>2, <1>3, <1>4 DEF OwnWalks, Walkers
<1>6. PauseInv'
  BY <1>1, <1>5, PauseSame
<1>7. o \in Registered(reg) /\ o \in Object /\ starts[o] = 0
  <2>1. o \in Registered(reg) /\ Starting(Frames, o)
    BY <1>1, <1>2 DEF StartInv, Starting
  <2> QED BY <2>1 DEF IInv, Objects, StartInv
<1> HIDE DEF o
<1>8. /\ starts' \in [Object -> 0..1] /\ \A p \in Object : p # o => starts'[p] = starts[p]
      /\ o \in late => starts'[o] = 0
      /\ o \notin late => starts'[o] = 1
  BY <1>1, <1>7 DEF StartInv
<1>9. /\ ~Starting(Frames', o)
      /\ \A p : p # o => (Starting(Frames', p) <=> Starting(Frames, p))
  BY <1>1, <1>2, <1>3, <1>4 DEF Starting, Nested, o
<1>10. /\ phase' # "init"
       /\ \A g \in Frames' : (g.at = "StartGame" => ~running') /\ (g.at = "StopGame" => running')
  BY <1>1, <1>2, <1>3, <1>4 DEF StartInv
<1>11. \A p \in Object : p \in late' \/ p \notin Registered(reg') \/ Starting(Frames', p) => starts'[p] = 0
  BY <1>1, <1>7, <1>8, <1>9 DEF StartInv
<1>12. /\ \A g \in Frames' : g.at \in {"OnCreate", "OnStartGame"} => g.obj \in Registered(reg')
       /\ Walkers(Frames', SW) # {} => \A g \in Frames' : g.at \in Creating => g.obj \in late'
  BY <1>1, <1>2, <1>3, <1>4, <1>5 DEF StartInv, Creating, o
<1>13. ASSUME NEW p \in Registered(reg') \ late', ~Starting(Frames', p)
       PROVE  /\ Walkers(Frames', SW) = {} => starts'[p] = IF running' THEN 1 ELSE 0
              /\ \A g \in Walkers(Frames', SW) :
                   starts'[p] = IF Passed(reg', g, p) <=> g.at = "StartGame" THEN 1 ELSE 0
  <2>1. p \in Object
    BY <1>1, <1>13 DEF IInv, Objects
  <2>2. CASE p = o
    <3>1. Walkers(Frames, SW) = {}
      BY <1>1, <1>2, <1>13, <2>2 DEF StartInv, Creating, o
    <3> QED BY <1>1, <1>5, <1>8, <1>13, <2>2, <3>1
  <2>3. CASE p # o
    <3>1. starts'[p] = starts[p] /\ ~Starting(Frames, p) /\ p \in Registered(reg) \ late
      BY <1>1, <1>8, <1>9, <1>13, <2>1, <2>3
    <3> QED BY <1>1, <1>5, <3>1 DEF StartInv
  <2> QED BY <2>2, <2>3
<1> HIDE DEF SW
<1>14. StartInv'
  BY <1>8, <1>10, <1>11, <1>12, <1>13 DEF StartInv, SW
<1> QED BY <1>4, <1>6, <1>14

\* In the game's own callbacks of a frame no walk of its own is in progress.
LEMMA NoOwn ==
  ASSUME IInv, Nesting(stack), stack # <<>>, Top.at \in Loop
  PROVE  \A f \in Frames : f.at \notin Own
BY FramesAre DEF Nested, Loop, Own

LEMMA CallWalkKeeps ==
  ASSUME IInv, Nesting(stack), PauseInv, StartInv, ~NestedWalks,
         CallStartGame \/ CallStopGame \/ CallPauseGame
  PROVE  Nesting(stack') /\ PauseInv' /\ StartInv'
<1> DEFINE w(at, on) == Walk(at, on)
           SW == {"StartGame", "StopGame"}
           Fits(new) == \A f \in new :
             /\ f.at \in {"StartGame", "StopGame", "PauseGame"} /\ f.lock = FALSE /\ f.obj = NoObject
             /\ f.at = "StartGame" => ~running
             /\ f.at = "StopGame" => running /\ (paused <=> \E g \in new : g.at = "PauseGame")
             /\ f.at = "PauseGame" => f.asked = ~paused
<1>1. /\ stack # <<>> /\ Top.at \in {"Run", "Update", "CameraUpdate"}
      /\ UNCHANGED <<phase, model, frozen, reg, running, paused, late, starts>>
  BY DEF CallStartGame, CallStopGame, CallPauseGame, MayWalk, engineVars, stateVars, startVars, MayCall
<1>2. \A f \in Frames : f.at \notin Own
  BY <1>1, NoOwn DEF Loop
<1>4. phase # "init" /\ Frames = {Top} \cup Rest /\ stack \in Seq(Frame)
  <2>1. Frames = {Top} \cup Rest /\ stack \in Seq(Frame)
    BY <1>1, FramesAre
  <2> QED BY <1>1, <2>1 DEF StartInv
<1>5. ASSUME NEW new, Frames' = new \cup Frames, Fits(new)
      PROVE  StartInv'
  <2>1. Walkers(Frames, SW) = {} /\ Walkers(Frames', SW) = {}
    BY <1>2, <1>5 DEF Walkers, Own
  <2>2. \A o : Starting(Frames', o) <=> Starting(Frames, o)
    BY <1>5 DEF Starting
  <2>3. \A f \in Frames' : f.at \in {"OnCreate", "OnStartGame"} => f \in Frames
    BY <1>5
  <2>4. \A f \in Frames' : (f.at = "StartGame" => ~running') /\ (f.at = "StopGame" => running')
    BY <1>1, <1>5 DEF StartInv
  <2> QED BY <1>1, <1>4, <2>1, <2>2, <2>3, <2>4 DEF StartInv
<1>6. ASSUME NEW new, Frames' = new \cup Frames, Fits(new)
      PROVE  PauseInv'
  <2>1. Walkers(Frames, {"PauseGame"}) = {} /\ Walkers(Frames', {"PauseGame"}) = {}
    BY <1>2, <1>6 DEF Walkers, Own
  <2>2. \A f \in Frames' : f.at \in {"StopGame", "PauseGame"} <=> f \in new /\ f.at # "StartGame"
    BY <1>2, <1>6 DEF Own
  <2> QED BY <1>1, <1>6, <2>1, <2>2 DEF PauseInv
<1>7. ASSUME NEW at \in Walks, NEW on \in BOOLEAN
      PROVE  w(at, on) \in Frame /\ w(at, on).at = at /\ w(at, on).asked = on
             /\ w(at, on).lock = FALSE /\ w(at, on).obj = NoObject
  BY DEF Walk, Calling, Frame
<1> DEFINE S == w("StartGame", FALSE)
           T == w("StopGame", FALSE)
           P(on) == w("PauseGame", on)
<1>8. /\ S \in Frame /\ S.at = "StartGame" /\ S.lock = FALSE /\ S.obj = NoObject
      /\ T \in Frame /\ T.at = "StopGame" /\ T.lock = FALSE /\ T.obj = NoObject
  BY <1>7 DEF Walks
<1>9. ASSUME NEW on \in BOOLEAN
      PROVE  /\ P(on) \in Frame /\ P(on).at = "PauseGame" /\ P(on).asked = on
             /\ P(on).lock = FALSE /\ P(on).obj = NoObject
  BY <1>7 DEF Walks
<1>10. \A f, g : f.at \in {"StartGame", "StopGame", "PauseGame"} /\ g.at \notin Own => Nested(f, g)
  BY DEF Nested, Loop
<1>11. CASE CallStartGame
  <2>1. ~running /\ stack' = <<S>> \o stack
    BY <1>11 DEF CallStartGame, Push
  <2> HIDE DEF S
  <2>2. Nesting(stack') /\ Frames' = {S} \cup Frames
    BY <1>2, <1>8, <1>10, <2>1, PushTurns
  <2>3. Fits({S})
    BY <1>8, <2>1
  <2> HIDE DEF Fits
  <2> QED BY <1>5, <1>6, <2>2, <2>3
<1>12. CASE CallPauseGame
  <2> DEFINE f == P(~paused)
  <2>1. stack' = <<f>> \o stack
    BY <1>12 DEF CallPauseGame, Push
  <2>2. f \in Frame /\ f.at = "PauseGame" /\ f.asked = ~paused /\ f.lock = FALSE /\ f.obj = NoObject
    BY <1>9
  <2> HIDE DEF f
  <2>3. Nesting(stack') /\ Frames' = {f} \cup Frames
    BY <1>2, <1>10, <2>1, <2>2, PushTurns
  <2>4. Fits({f})
    BY <2>2
  <2> HIDE DEF Fits
  <2> QED BY <1>5, <1>6, <2>3, <2>4
<1>13. CASE CallStopGame
  <2> DEFINE f == P(FALSE)
  <2>1. f \in Frame /\ f.at = "PauseGame" /\ f.asked = FALSE /\ f.lock = FALSE /\ f.obj = NoObject
    BY <1>9
  <2>2. running /\ stack' = (IF paused THEN <<f, T>> ELSE <<T>>) \o stack
    BY <1>13 DEF CallStopGame, StopWalks
  <2> HIDE DEF f, T
  <2>3. CASE paused
    <3>1. stack' = <<f, T>> \o stack
      BY <2>2, <2>3
    <3>2. Nested(f, T)
      BY <1>8, <2>1 DEF Nested, Loop
    <3>3. Nesting(stack') /\ Frames' = {f, T} \cup Frames
      BY <1>2, <1>4, <1>8, <1>10, <2>1, <3>1, <3>2, TwoTurns DEF Frames
    <3>4. Fits({f, T})
      BY <1>8, <2>1, <2>2, <2>3
    <3> HIDE DEF Fits
    <3> QED BY <1>5, <1>6, <3>3, <3>4
  <2>4. CASE ~paused
    <3>1. stack' = <<T>> \o stack
      BY <2>2, <2>4
    <3>2. Nesting(stack') /\ Frames' = {T} \cup Frames
      BY <1>2, <1>8, <1>10, <3>1, PushTurns
    <3>3. Fits({T})
      BY <1>8, <2>2, <2>4
    <3> HIDE DEF Fits
    <3> QED BY <1>5, <1>6, <3>2, <3>3
  <2> QED BY <2>3, <2>4
<1> QED BY <1>11, <1>12, <1>13

LEMMA StartedKeeps ==
  ASSUME IInv, PauseInv, StartInv, Started
  PROVE  Nesting(stack') /\ PauseInv' /\ StartInv'
<1> DEFINE f == Walk("StartGame", FALSE)
<1>1. /\ stack = <<>> /\ phase = "init" /\ phase' = "update" /\ stack' = <<f>> /\ running' = FALSE
      /\ UNCHANGED <<model, frozen, reg, paused, late, starts>>
  BY DEF Started, Step, engineVars, startVars
<1>2. f \in Frame /\ f.at = "StartGame" /\ f.lock = FALSE
  BY DEF Walk, Calling, Frame, Walks
<1> HIDE DEF f
<1>3. Frames = {} /\ Frames' = {f} /\ Nesting(stack')
  <2>1. DOMAIN <<f>> = {1}
    OBVIOUS
  <2> QED BY <1>1, <1>2, <2>1, FramesAre, OneFrame DEF Frames, Nesting
<1>4. running = FALSE
  BY <1>1 DEF StartInv
<1>5. PauseInv'
  <2>1. Walkers(Frames, {"PauseGame"}) = {} /\ Walkers(Frames', {"PauseGame"}) = {}
    BY <1>2, <1>3 DEF Walkers
  <2> QED BY <1>1, <1>2, <1>3, <2>1 DEF PauseInv
<1>6. StartInv'
  <2>1. Walkers(Frames, {"StartGame", "StopGame"}) = {} /\ Walkers(Frames', {"StartGame", "StopGame"}) = {}
    BY <1>2, <1>3 DEF Walkers
  <2>2. \A o : ~Starting(Frames', o) /\ ~Starting(Frames, o)
    BY <1>2, <1>3 DEF Starting
  <2> QED BY <1>1, <1>2, <1>3, <1>4, <2>1, <2>2 DEF StartInv, Creating
<1> QED BY <1>3, <1>5, <1>6

\* Where a walk of the game's own is the innermost call.
WalkTop(f) ==
  /\ stack # <<>> /\ Top.at \in {"StartGame", "StopGame", "PauseGame"}
  /\ f \in Frame /\ stack' = <<f>> \o Below
  /\ UNCHANGED <<phase, model, reg>>

LEMMA WalkTopIs ==
  ASSUME IInv, Nesting(stack), StartInv, NEW f, WalkTop(f)
  PROVE  /\ Frames = {Top} \cup Rest /\ Top \in Frame /\ phase # "init"
         /\ One(Top, life, model, reg)
         /\ \A g \in Rest : /\ g.at \in Walks \cup GameCalls /\ ~Begun(g)
                            /\ g.at \in Own => Top.at = "PauseGame" /\ g.at = "StopGame"
         /\ f.at \in {Top.at, "OnGame"} => Nesting(stack') /\ Frames' = {f} \cup Rest
<1>1. /\ Frames = {Top} \cup Rest /\ Top \in Frame /\ One(Top, life, model, reg)
      /\ \A g \in Rest : Apart(Top, g) /\ Nested(Top, g)
  BY FramesAre DEF WalkTop
<1>2. phase # "init"
  BY <1>1 DEF StartInv, WalkTop, Walks
<1>3. \A g \in Rest : /\ g.at \in Walks \cup GameCalls /\ ~Begun(g)
                      /\ g.at \in Own => Top.at = "PauseGame" /\ g.at = "StopGame"
  BY <1>1 DEF WalkTop, Apart, Nested, Walks, Own
<1>4. ASSUME f.at \in {Top.at, "OnGame"}
      PROVE  Nesting(stack') /\ Frames' = {f} \cup Rest
  <2>1. \A g \in Rest : Nested(f, g)
    BY <1>3, <1>4 DEF WalkTop, Nested, Loop, Own
  <2> QED BY <2>1, SwapTurns DEF WalkTop
<1> QED BY <1>1, <1>2, <1>3, <1>4

LEMMA WalkBeginKeeps ==
  ASSUME IInv, Nesting(stack), PauseInv, StartInv, WalkBegin,
         Top.at \in {"StartGame", "StopGame", "PauseGame"}
  PROVE  Nesting(stack') /\ PauseInv' /\ StartInv'
<1> DEFINE f == [Top EXCEPT !.lock = TRUE]
           SW == {"StartGame", "StopGame"}
<1>1. /\ stack # <<>> /\ ~Top.lock /\ stack' = <<f>> \o Below
      /\ UNCHANGED <<phase, model, frozen, reg, running, paused, late, starts>>
  BY DEF WalkBegin, Swap, engineVars, startVars
<1>2. f \in Frame /\ f.at = Top.at /\ f.obj = Top.obj /\ f.asked = Top.asked /\ f.lock
  BY <1>1, FramesAre DEF Frame
<1> HIDE DEF f
<1>3. WalkTop(f)
  BY <1>1, <1>2 DEF WalkTop
<1>4. /\ Frames = {Top} \cup Rest /\ Top \in Frame /\ phase # "init" /\ One(Top, life, model, reg)
      /\ \A g \in Rest : g.at \in Walks \cup GameCalls /\ ~Begun(g)
      /\ Nesting(stack') /\ Frames' = {f} \cup Rest
  BY <1>2, <1>3, WalkTopIs
<1>5. f.obj = NoObject /\ \A o : ~Passed(reg, f, o)
  BY <1>1, <1>2, <1>4 DEF One, Walks, Passed
<1>6. ASSUME NEW kinds \in SUBSET Walks
      PROVE  Walkers(Frames, kinds) = {} /\ Walkers(Frames', kinds) = (IF f.at \in kinds THEN {f} ELSE {})
  BY <1>1, <1>2, <1>4 DEF Walkers, Begun
<1>7. PauseInv'
  <2>1. /\ Walkers(Frames, {"PauseGame"}) = {}
        /\ Walkers(Frames', {"PauseGame"}) = (IF f.at = "PauseGame" THEN {f} ELSE {})
    BY <1>6 DEF Walks
  <2>2. \A g \in Frames' : \E h \in Frames : h.at = g.at /\ h.asked = g.asked /\ h.obj = g.obj
    BY <1>2, <1>4
  <2>3. \A h \in Frames : \E g \in Frames' : h.at = g.at
    BY <1>2, <1>4
  <2> QED BY <1>1, <1>5, <2>1, <2>2, <2>3 DEF PauseInv
<1>8. StartInv'
  <2>1. Walkers(Frames, SW) = {} /\ Walkers(Frames', SW) = (IF f.at \in SW THEN {f} ELSE {})
    BY <1>6 DEF Walks
  <2>2. \A g \in Frames \cup Frames' : g.at \notin Creating
    BY <1>2, <1>3, <1>4 DEF WalkTop, Creating, Walks, GameCalls
  <2>3. \A o : ~Starting(Frames, o) /\ ~Starting(Frames', o)
    BY <2>2 DEF Starting, Creating
  <2>4. \A g \in Frames' : (g.at = "StartGame" => ~running) /\ (g.at = "StopGame" => running)
    BY <1>2, <1>4 DEF StartInv
  <2>5. ASSUME NEW o \in Registered(reg) \ late, NEW g \in Walkers(Frames', SW)
        PROVE  starts[o] = IF Passed(reg, g, o) <=> g.at = "StartGame" THEN 1 ELSE 0
    <3>1. g = f /\ f.at \in SW /\ f \in Frames'
      BY <1>4, <2>1, <2>5
    <3>2. starts[o] = IF running THEN 1 ELSE 0
      BY <2>1, <2>3 DEF StartInv
    <3> QED BY <1>5, <2>4, <3>1, <3>2
  <2> QED BY <1>1, <1>4, <2>1, <2>2, <2>3, <2>4, <2>5 DEF StartInv, Creating
<1> QED BY <1>4, <1>7, <1>8

LEMMA WalkNextKeeps ==
  ASSUME IInv, Nesting(stack), PauseInv, StartInv, WalkNext,
         Top.at \in {"StartGame", "StopGame", "PauseGame"}
  PROVE  Nesting(stack') /\ PauseInv' /\ StartInv'
<1> DEFINE o == NextOf(Top)
           f == [Top EXCEPT !.obj = o]
           SW == {"StartGame", "StopGame"}
<1>1. /\ stack # <<>> /\ Top.lock /\ stack' = <<f>> \o Below /\ o # NoObject
      /\ frozen' = FrozenAfter(Top)
      /\ starts' = CASE Top.at = "StartGame" -> Counted(o, 1)
                     [] Top.at = "StopGame"  -> Counted(o, -1)
                     [] OTHER -> starts
      /\ UNCHANGED <<phase, model, reg, running, paused, late>>
  BY DEF WalkNext, Swap, stateVars
<1>2. Top \in Frame /\ One(Top, life, model, reg)
  BY <1>1, FramesAre
<1>3. o \in Registered(reg) /\ o \in Object
  BY <1>1, <1>2, NextIs DEF Walks
<1> HIDE DEF o
<1>4. f \in Frame /\ f.at = Top.at /\ f.obj = o /\ f.asked = Top.asked /\ f.lock
  BY <1>1, <1>2, <1>3 DEF Frame
<1> HIDE DEF f
<1>5. WalkTop(f)
  BY <1>1, <1>4 DEF WalkTop
<1>6. /\ Frames = {Top} \cup Rest /\ phase # "init"
      /\ \A g \in Rest : /\ g.at \in Walks \cup GameCalls /\ ~Begun(g)
                         /\ g.at \in Own => Top.at = "PauseGame" /\ g.at = "StopGame"
      /\ Nesting(stack') /\ Frames' = {f} \cup Rest
  BY <1>4, <1>5, WalkTopIs
<1>7. ASSUME NEW kinds \in SUBSET Walks
      PROVE  /\ Walkers(Frames, kinds) = (IF Top.at \in kinds THEN {Top} ELSE {})
             /\ Walkers(Frames', kinds) = (IF Top.at \in kinds THEN {f} ELSE {})
  BY <1>1, <1>4, <1>6 DEF Walkers, Begun
<1>8. Top.obj # NoObject => Top.obj \in Registered(reg)
  BY <1>2 DEF One, Walks
<1>9. PauseInv'
  <2>1. CASE Top.at # "PauseGame"
    <3>1. UNCHANGED <<frozen, reg, model, paused>>
      BY <1>1, <2>1 DEF FrozenAfter
    <3>2. Walkers(Frames, {"PauseGame"}) = {} /\ Walkers(Frames', {"PauseGame"}) = {}
      BY <1>7, <2>1 DEF Walks
    <3>3. \A g \in Frames \cup Frames' : g.at # "PauseGame"
      BY <1>4, <1>6, <2>1 DEF Own
    <3>4. \A g \in Frames' : g.at = "StopGame" => \E h \in Frames : h.at = "StopGame"
      BY <1>4, <1>6
    <3> QED BY <3>1, <3>2, <3>3, <3>4 DEF PauseInv
  <2>2. CASE Top.at = "PauseGame"
    <3>1. /\ Walkers(Frames, {"PauseGame"}) = {Top} /\ Walkers(Frames', {"PauseGame"}) = {f}
          /\ Top \in Frames /\ f \in Frames'
      BY <1>6, <1>7, <2>2 DEF Walks
    <3>2. /\ Top.asked = ~paused
          /\ Top.obj # NoObject => model[Top.obj] \in Pausable
      BY <2>2, <3>1 DEF PauseInv
    <3> DEFINE rest == {p \in Registered(reg) : model[p] \in Pausable /\ ~Passed(reg, Top, p)}
    <3>3. o \in rest /\ \A p \in rest : Before(reg, o, p)
      BY <1>1, <1>8, <2>2, NextPausable DEF o
    <3>4. frozen' = IF Top.obj = NoObject THEN frozen
                    ELSE IF Top.asked THEN frozen \cup {Top.obj} ELSE frozen \ {Top.obj}
      BY <1>1, <2>2 DEF FrozenAfter
    <3>5. \A p \in frozen' : p \in Registered(reg) /\ model[p] \in Pausable
      BY <1>8, <3>2, <3>4 DEF PauseInv
    <3>6. ASSUME ~f.asked, NEW p \in frozen', Passed(reg, f, p) PROVE p = o
      <4>1. p \in frozen /\ (Top.obj # NoObject => p # Top.obj)
        BY <1>4, <3>4, <3>6
      <4>2. ~Passed(reg, Top, p)
        <5>1. Passed(reg, Top, p) => p = Top.obj
          BY <1>4, <3>1, <3>6, <4>1 DEF PauseInv
        <5> QED BY <4>1, <5>1 DEF Passed
      <4>3. Before(reg, o, p) /\ Before(reg, p, o)
        BY <1>4, <3>3, <3>5, <3>6, <4>2 DEF Passed
      <4> QED BY <1>3, <3>5, <4>3, InOrder
    <3>7. model[o] \in Pausable
      BY <3>3
    <3>8. \A g \in Frames' : g.at = "PauseGame" => g = f
      BY <1>6 DEF Own
    <3>9. \A g \in Frames' : g.at = "StopGame" => paused /\ \E h \in Frames' : h.at = "PauseGame"
      BY <1>4, <1>6, <2>2 DEF PauseInv
    <3> HIDE DEF rest
    <3> QED BY <1>1, <1>4, <3>1, <3>2, <3>5, <3>6, <3>7, <3>8, <3>9 DEF PauseInv
  <2> QED BY <2>1, <2>2
<1>10. StartInv'
  <2>1. /\ Walkers(Frames, SW) = (IF Top.at \in SW THEN {Top} ELSE {})
        /\ Walkers(Frames', SW) = (IF Top.at \in SW THEN {f} ELSE {})
    BY <1>7 DEF Walks
  <2>2. \A g \in Frames \cup Frames' : g.at \notin Creating
    BY <1>4, <1>5, <1>6 DEF WalkTop, Creating, Walks, GameCalls
  <2>3. \A p : ~Starting(Frames, p) /\ ~Starting(Frames', p)
    BY <2>2 DEF Starting, Creating
  <2>4. \A g \in Frames' : (g.at = "StartGame" => ~running) /\ (g.at = "StopGame" => running)
    BY <1>4, <1>6 DEF StartInv
  <2>5. CASE Top.at = "PauseGame"
    <3>1. starts' = starts /\ Walkers(Frames, SW) = {} /\ Walkers(Frames', SW) = {}
      BY <1>1, <2>1, <2>5
    <3> QED BY <1>1, <1>6, <2>2, <2>3, <2>4, <3>1 DEF StartInv, Creating
  <2>6. CASE Top.at \in SW
    <3> DEFINE by == IF Top.at = "StartGame" THEN 1 ELSE -1
    <3>1. /\ Walkers(Frames, SW) = {Top} /\ Walkers(Frames', SW) = {f}
          /\ starts' = IF o \in late THEN starts ELSE [starts EXCEPT ![o] = @ + by]
      BY <1>1, <2>1, <2>6 DEF Counted
    <3>2. /\ ~Passed(reg, Top, o)
          /\ \A p \in Registered(reg) : Before(reg, p, o) <=> Passed(reg, Top, p) \/ p = o
      BY <1>1, <1>8, <2>6, NextInList DEF o
    <3>3. \A p \in Registered(reg) : Passed(reg, f, p) <=> Passed(reg, Top, p) \/ p = o
      BY <1>1, <1>4, <3>2 DEF Passed
    <3>4. \A p \in Registered(reg) \ late :
            starts[p] = IF Passed(reg, Top, p) <=> Top.at = "StartGame" THEN 1 ELSE 0
      BY <2>3, <3>1 DEF StartInv
    <3>5. o \notin late => starts[o] + by = IF f.at = "StartGame" THEN 1 ELSE 0
      BY <1>3, <1>4, <2>6, <3>2, <3>4
    <3>6. /\ starts' \in [Object -> 0..1] /\ \A p \in Object : p # o \/ o \in late => starts'[p] = starts[p]
          /\ o \notin late => starts'[o] = IF f.at = "StartGame" THEN 1 ELSE 0
      <4>1. starts \in [Object -> 0..1]
        BY DEF StartInv
      <4> HIDE DEF by
      <4> QED BY <1>3, <3>1, <3>5, <4>1
    <3>7. \A p \in Object : p \in late \/ p \notin Registered(reg) => starts'[p] = 0
      BY <1>3, <3>6 DEF StartInv
    <3>8. ASSUME NEW p \in Registered(reg) \ late
          PROVE  starts'[p] = IF Passed(reg, f, p) <=> f.at = "StartGame" THEN 1 ELSE 0
      <4>1. p \in Object
        BY DEF IInv, Objects
      <4> QED BY <1>4, <3>3, <3>4, <3>6, <4>1
    <3>9. UNCHANGED <<phase, reg, running, late>>
      BY <1>1
    <3>10. \A g \in Walkers(Frames', SW) : g = f
      BY <3>1
    <3>11. Walkers(Frames', SW) # {}
      BY <3>1
    <3>12. /\ phase' # "init" /\ starts' \in [Object -> 0..1]
           /\ \A g \in Frames' : (g.at = "StartGame" => ~running') /\ (g.at = "StopGame" => running')
           /\ \A g \in Frames' : g.at \notin Creating
      BY <1>6, <2>2, <2>4, <3>6, <3>9
    <3>13. \A p \in Object : p \in late' \/ p \notin Registered(reg') \/ Starting(Frames', p) => starts'[p] = 0
      BY <2>3, <3>7, <3>9
    <3>14. \A p \in Registered(reg') \ late' : \A g \in Walkers(Frames', SW) :
             starts'[p] = IF Passed(reg', g, p) <=> g.at = "StartGame" THEN 1 ELSE 0
      BY <3>8, <3>9, <3>10
    <3> QED BY <3>11, <3>12, <3>13, <3>14 DEF StartInv, Creating
  <2> QED BY <1>5, <2>5, <2>6 DEF WalkTop
<1> QED BY <1>6, <1>9, <1>10

LEMMA WalkEndKeeps ==
  ASSUME IInv, Nesting(stack), PauseInv, StartInv, WalkEnd,
         Top.at \in {"StartGame", "StopGame", "PauseGame"}
  PROVE  Nesting(stack') /\ PauseInv' /\ StartInv'
<1> DEFINE f == Calling("OnGame", NoObject)
           SW == {"StartGame", "StopGame"}
<1>1. /\ stack # <<>> /\ Top.lock /\ stack' = <<f>> \o Below /\ NextOf(Top) = NoObject
      /\ frozen' = FrozenAfter(Top)
      /\ running' = CASE Top.at = "StartGame" -> TRUE [] Top.at = "StopGame" -> FALSE [] OTHER -> running
      /\ paused' = IF Top.at = "PauseGame" THEN Top.asked ELSE paused
      /\ late' = IF Top.at = "StopGame" THEN {} ELSE late
      /\ UNCHANGED <<phase, model, reg, starts>>
  BY DEF WalkEnd, Swap
<1>2. Top \in Frame /\ One(Top, life, model, reg)
  BY <1>1, FramesAre
<1>3. f \in Frame /\ f.at = "OnGame"
  BY DEF Calling, Frame, GameCalls
<1> HIDE DEF f
<1>4. WalkTop(f)
  BY <1>1, <1>3 DEF WalkTop
<1>5. /\ Frames = {Top} \cup Rest /\ phase # "init"
      /\ \A g \in Rest : /\ g.at \in Walks \cup GameCalls /\ ~Begun(g)
                         /\ g.at \in Own => Top.at = "PauseGame" /\ g.at = "StopGame"
      /\ Nesting(stack') /\ Frames' = {f} \cup Rest
  BY <1>3, <1>4, WalkTopIs
<1>6. ASSUME NEW kinds \in SUBSET Walks
      PROVE  /\ Walkers(Frames, kinds) = (IF Top.at \in kinds THEN {Top} ELSE {})
             /\ Walkers(Frames', kinds) = {}
  BY <1>1, <1>3, <1>5 DEF Walkers, Begun, Walks
<1>7. Top.obj # NoObject => Top.obj \in Registered(reg)
  BY <1>2 DEF One, Walks
<1>8. PauseInv'
  <2>1. Walkers(Frames', {"PauseGame"}) = {} /\ \A g \in Frames' : g.at # "PauseGame"
    BY <1>3, <1>5, <1>6 DEF Walks, Own
  <2>2. CASE Top.at # "PauseGame"
    <3>1. UNCHANGED <<frozen, reg, model, paused>>
      BY <1>1, <2>2 DEF FrozenAfter
    <3>2. Walkers(Frames, {"PauseGame"}) = {}
      BY <1>6, <2>2 DEF Walks
    <3>3. \A g \in Frames' : g.at # "StopGame"
      BY <1>3, <1>5, <2>2 DEF Own
    <3> QED BY <2>1, <3>1, <3>2, <3>3 DEF PauseInv
  <2>3. CASE Top.at = "PauseGame"
    <3>1. Walkers(Frames, {"PauseGame"}) = {Top} /\ Top \in Frames
      BY <1>5, <1>6, <2>3 DEF Walks
    <3>2. /\ Top.asked = ~paused
          /\ Top.obj # NoObject => model[Top.obj] \in Pausable
      BY <2>3, <3>1 DEF PauseInv
    <3>3. \A p \in Registered(reg) : model[p] \in Pausable => Passed(reg, Top, p)
      BY <1>1, <1>7, <2>3, NextPausable
    <3>4. frozen' = IF Top.obj = NoObject THEN frozen
                    ELSE IF Top.asked THEN frozen \cup {Top.obj} ELSE frozen \ {Top.obj}
      BY <1>1, <2>3 DEF FrozenAfter
    <3>5. \A p \in frozen' : p \in Registered(reg) /\ model[p] \in Pausable
      BY <1>7, <3>2, <3>4 DEF PauseInv
    <3>6. ~paused' => frozen' = {}
      <4>1. SUFFICES ASSUME ~paused', NEW p \in frozen' PROVE FALSE
        OBVIOUS
      <4>2. ~Top.asked
        BY <1>1, <2>3, <4>1
      <4>3. p \in frozen /\ (Top.obj # NoObject => p # Top.obj)
        BY <3>4, <4>2
      <4>4. Passed(reg, Top, p)
        BY <3>3, <3>5
      <4>5. p = Top.obj
        BY <3>1, <4>2, <4>3, <4>4 DEF PauseInv
      <4> QED BY <4>3, <4>4, <4>5 DEF Passed
    <3>7. \A g \in Frames' : g.at = "StopGame" => ~paused'
      <4>1. \A g \in Frames' : g.at = "StopGame" => g \in Frames
        BY <1>3, <1>5
      <4>2. \A g \in Frames : g.at = "StopGame" => paused
        BY <2>3, <3>1 DEF PauseInv
      <4> QED BY <1>1, <2>3, <3>2, <4>1, <4>2
    <3> QED BY <1>1, <2>1, <3>5, <3>6, <3>7 DEF PauseInv
  <2> QED BY <2>2, <2>3
<1>9. StartInv'
  <2>1. Walkers(Frames, SW) = (IF Top.at \in SW THEN {Top} ELSE {}) /\ Walkers(Frames', SW) = {}
    BY <1>6 DEF Walks
  <2>2. \A g \in Frames \cup Frames' : g.at \notin Creating
    BY <1>3, <1>4, <1>5 DEF WalkTop, Creating, Walks, GameCalls
  <2>3. \A p : ~Starting(Frames, p) /\ ~Starting(Frames', p)
    BY <2>2 DEF Starting, Creating
  <2>4. \A p \in Object : p \in late' \/ p \notin Registered(reg) => starts[p] = 0
    BY <1>1 DEF StartInv
  <2>5. CASE Top.at = "PauseGame"
    <3>1. running' = running /\ late' = late /\ Walkers(Frames, SW) = {}
      BY <1>1, <2>1, <2>5
    <3>2. \A g \in Frames' : (g.at = "StartGame" => ~running) /\ (g.at = "StopGame" => running)
      BY <1>3, <1>5 DEF StartInv
    <3>3. UNCHANGED <<phase, reg, starts>>
      BY <1>1
    <3> QED BY <1>5, <2>1, <2>2, <2>3, <3>1, <3>2, <3>3 DEF StartInv, Creating
  <2>6. CASE Top.at \in SW
    <3>1. Walkers(Frames, SW) = {Top}
      BY <2>1, <2>6
    <3>2. \A g \in Frames' : g.at \notin SW
      BY <1>3, <1>5, <2>6 DEF Own
    <3>3. \A p \in Registered(reg) : Passed(reg, Top, p)
      BY <1>1, <1>7, <2>6, NextInList
    <3>4. \A p \in Registered(reg) \ late : starts[p] = IF Top.at = "StartGame" THEN 1 ELSE 0
      BY <2>3, <2>6, <3>1, <3>3 DEF StartInv
    <3>5. \A p \in Registered(reg) \ late' : starts[p] = IF running' THEN 1 ELSE 0
      <4>1. \A p \in Registered(reg) : p \in Object
        BY DEF IInv, Objects
      <4> QED BY <1>1, <2>6, <3>4, <4>1 DEF StartInv
    <3>6. starts \in [Object -> 0..1]
      BY DEF StartInv
    <3> QED BY <1>1, <1>5, <2>1, <2>2, <2>3, <2>4, <3>2, <3>5, <3>6 DEF StartInv, Creating
  <2> QED BY <1>4, <2>5, <2>6 DEF WalkTop
<1> QED BY <1>5, <1>8, <1>9

-----------------------------------------------------------------------------
WalkInv == IInv /\ Nesting(stack) /\ PauseInv /\ StartInv

LEMMA WalkInvInit == Init => WalkInv
<1> SUFFICES ASSUME Init PROVE WalkInv
  OBVIOUS
<1> DEFINE f == Calling("Init", NoObject)
<1>1. IInv
  BY IInvInit
<1>2. stack = <<f>> /\ f.at = "Init" /\ f \in Frame
  BY DEF Init, Calling, Frame, GameCalls
<1> HIDE DEF f
<1>3. Frames = {f}
  BY <1>2, OneFrame DEF Frames
<1>4. Nesting(stack)
  BY <1>2, <1>3, Mild DEF Frames, Own
<1>5. Registered(reg) = {} /\ frozen = {} /\ ~running /\ ~paused
  BY DEF Init, EmptyRegistry, Registered, ToSet
<1>6. PauseInv
  BY <1>2, <1>3, <1>5 DEF PauseInv, Walkers
<1>7. StartInv
  BY <1>2, <1>3, <1>5 DEF Init, StartInv, Walkers, Walks, Starting
<1> QED BY <1>1, <1>4, <1>6, <1>7 DEF WalkInv

LEMMA AsideKeeps ==
  ASSUME WalkInv, Nesting(stack'), Aside, Newly, IInv'
  PROVE  WalkInv'
BY PauseAside, StartAside DEF WalkInv

LEMMA WalkInvNext ==
  ASSUME ~NestedWalks, WalkInv, [Next]_vars
  PROVE  WalkInv'
<1>1. IInv' /\ IInv /\ Nesting(stack) /\ PauseInv /\ StartInv
  BY IInvNext DEF WalkInv
<1>2. ASSUME Nesting(stack') /\ PauseInv' /\ StartInv' PROVE WalkInv'
  BY <1>1, <1>2 DEF WalkInv
<1>3. ASSUME Nesting(stack') /\ Aside /\ Newly PROVE WalkInv'
  BY <1>1, <1>3, AsideKeeps
<1>4. CASE Call
  <2>1. CASE \E m \in Models : CallCreate(m) \/ CallEngineCreate(m)
    <3>1. PICK m \in Models : CallCreate(m) \/ CallEngineCreate(m)
      BY <2>1
    <3>2. PICK asked \in BOOLEAN, mark \in Models \cup {NoModel} : stack' = Push(Creation(m, asked, mark))
      BY <1>1, <3>1 DEF CallCreate, CallEngineCreate, IInv
    <3>3. EngineObject(m, NoObject) /\ UNCHANGED <<phase, reg, starts, running, paused>>
      BY <3>1 DEF CallCreate, CallEngineCreate, stateVars
    <3> QED BY <1>1, <1>3, <3>2, <3>3, CallCreateAside
  <2>2. CASE \E o \in Object : CallAdopt(o)
    BY <1>1, <1>3, <2>2, CallAdoptAside
  <2>3. CASE \E o \in Object : CallDelete(o)
    BY <1>1, <1>3, <2>3, DeleteObjectAside DEF CallDelete, Bound
  <2>4. CASE \E o \in Object : CallSetLifeTime(o)
    BY <1>1, <1>3, <2>4, SetLifeTimeAside
  <2>5. CASE CallStartGame \/ CallStopGame \/ CallPauseGame
    BY <1>1, <1>2, <2>5, CallWalkKeeps
  <2> QED BY <1>4, <2>1, <2>2, <2>3, <2>4, <2>5 DEF Call
<1>5. CASE Create
  BY <1>1, <1>2, <1>3, <1>5, CreateChildAside, SendCreateAside, CreatedRunningKeeps, EndCreateAside DEF Create
<1>6. CASE Delete
  BY <1>1, <1>3, <1>6, EndOnObjectDeleteAside, EndDeleteAside DEF Delete
<1>7. CASE Visit
  <2>1. Top.at \in Walks
    BY <1>7 DEF Visit, WalkBegin, WalkNext, WalkEnd
  <2>2. CASE Top.at = "BaseUpdate"
    BY <1>1, <1>3, <1>7, <2>2, UpdateAside
  <2>3. CASE Top.at \in {"StartGame", "StopGame", "PauseGame"}
    BY <1>1, <1>2, <1>7, <2>3, WalkBeginKeeps, WalkNextKeeps, WalkEndKeeps DEF Visit
  <2> QED BY <2>1, <2>2, <2>3 DEF Walks
<1>8. CASE Return
  BY <1>1, <1>3, <1>8, ReturnAside
<1>9. CASE MainLoop
  <2>1. CASE Started
    BY <1>1, <1>2, <2>1, StartedKeeps
  <2>2. CASE Tick \/ NextFrame \/ Close \/ Clear \/ Done
               \/ (\E s, r \in Live : Contact(s, r)) \/ (\E o \in Live \cup {NoObject} : Notice(o))
    BY <1>1, <1>3, <2>2, LoopAside
  <2>3. CASE \E m \in Models : Spawn(m)
    BY <1>1, <1>3, <2>3, SpawnAside
  <2>4. CASE EngineDeletes \/ EnginePassed \/ ClearObject
    BY <1>1, <1>3, <2>4, EngineDeletesAside, ReturnAside, ClearObjectAside
  <2> QED BY <1>9, <2>1, <2>2, <2>3, <2>4 DEF MainLoop
<1>10. CASE UNCHANGED vars
  <2>1. UNCHANGED <<phase, stack, model, reg, frozen, starts, late, running, paused>>
    BY <1>10 DEF vars, engineVars, stateVars, startVars
  <2>2. Nesting(stack') /\ Frames' = Frames
    BY <1>1, <2>1 DEF Frames
  <2>3. Aside
    BY <1>1, <2>1, <2>2, StillGrows DEF Aside, OwnWalks
  <2>4. Newly
    BY <2>1, <2>2 DEF Newly, Starting, StartInv
  <2> QED BY <1>3, <2>2, <2>3, <2>4
<1> QED BY <1>4, <1>5, <1>6, <1>7, <1>8, <1>9, <1>10 DEF Next, Ended

\* If callbacks inside a walk start, stop or pause no walk, the game's idea of a pause
\* and the engine's agree: outside of the walk of PauseGame no object of a game that is
\* not paused is paused in the engine, and no walk of StopGame runs in a paused game.
THEOREM PausedWithTheGame ==
  ASSUME ~NestedWalks
  PROVE  Spec => []PausedTogether
<1>1. WalkInv => PausedTogether
  <2> SUFFICES ASSUME WalkInv PROVE PausedTogether
    OBVIOUS
  <2>1. ~paused /\ ~Walking({"PauseGame"}) => frozen = {}
    BY DEF WalkInv, PauseInv, Walkers, Walking
  <2>2. ASSUME NEW f \in Frames, f.at = "StopGame", f.lock, paused PROVE FALSE
    <3>1. PICK g \in Frames : g.at = "PauseGame"
      BY <2>2 DEF WalkInv, PauseInv
    <3>2. PICK i, j \in DOMAIN stack : stack[i] = f /\ stack[j] = g
      BY <2>2, <3>1 DEF Frames, ToSet
    <3>3. DOMAIN stack = 1..Len(stack) /\ Len(stack) \in Nat /\ i # j
      BY <2>2, <3>1, <3>2 DEF WalkInv, IInv, Calls
    <3>4. CASE i < j
      <4>1. Nested(f, g)
        BY <3>2, <3>4 DEF WalkInv, Nesting
      <4> QED BY <2>2, <3>1, <4>1 DEF Nested, Own
    <3>5. CASE j < i
      <4>1. Apart(g, f)
        BY <3>2, <3>5 DEF WalkInv, IInv, Calls
      <4> QED BY <2>2, <3>1, <4>1 DEF Apart, Begun, Walks
    <3> QED BY <3>3, <3>4, <3>5
  <2> QED BY <2>1, <2>2 DEF PausedTogether, Walking
<1>2. WalkInv /\ [Next]_vars => WalkInv'
  BY WalkInvNext
<1> QED BY <1>1, <1>2, WalkInvInit, PTL DEF Spec

\* Under the same condition OnStartGame and OnStopGame come in turns: between the walks
\* each object of a running game has had one more OnStartGame than OnStopGame, and each
\* object of a game that does not run as many, but for the objects made inside one of
\* those walks, whatever callbacks create and delete meanwhile.
THEOREM EachStartedOnce ==
  ASSUME ~NestedWalks
  PROVE  Spec => []StartedOnce
<1>1. WalkInv => StartedOnce
  <2> SUFFICES ASSUME WalkInv, ~Walking({"StartGame", "StopGame"}),
                      NEW o \in Registered(reg) \ late, ~Starting(Frames, o)
               PROVE  starts[o] = IF running THEN 1 ELSE 0
    BY DEF StartedOnce, Starting
  <2>1. Walkers(Frames, {"StartGame", "StopGame"}) = {}
    BY DEF Walkers, Walking
  <2> QED BY <2>1 DEF WalkInv, StartInv
<1>2. WalkInv /\ [Next]_vars => WalkInv'
  BY WalkInvNext
<1> QED BY <1>1, <1>2, WalkInvInit, PTL DEF Spec

-----------------------------------------------------------------------------
(* Types *)

TypeInv ==
  /\ phase \in Phase /\ calls \in 0..MaxCalls
  /\ owner \in [Object -> Object \cup {NoObject}]
  /\ running \in BOOLEAN /\ paused \in BOOLEAN
  /\ late \subseteq Created

LEMMA CallsSpent ==
  ASSUME calls \in 0..MaxCalls, calls > 0, Spend
  PROVE  calls' \in 0..MaxCalls
BY LoopAssumption DEF Spend

LEMMA TypeInvNext ==
  ASSUME IInv, TypeInv, [Next]_vars
  PROVE  TypeInv'
<1>1. ASSUME UNCHANGED <<owner, running, paused, late>>, Created \subseteq Created',
             phase' \in Phase, calls' \in 0..MaxCalls
      PROVE  TypeInv'
  BY <1>1 DEF TypeInv
<1>2. ASSUME NEW m, NEW p \in Object \cup {NoObject}, EngineObject(m, p), UNCHANGED <<running, paused>>,
             phase' \in Phase, calls' \in 0..MaxCalls
      PROVE  TypeInv'
  <2>1. owner' \in [Object -> Object \cup {NoObject}]
    BY <1>2 DEF EngineObject, TypeInv
  <2>2. life \in [Object -> Life] /\ NewObject \in Object /\ life' = [life EXCEPT ![NewObject] = "forever"]
    BY <1>2 DEF EngineObject, IInv, Objects
  <2>3. Created' = Created \cup {NewObject}
    <3> DEFINE w == NewObject
    <3>1. life \in [Object -> Life] /\ w \in Object /\ life' = [life EXCEPT ![w] = "forever"]
      BY <2>2
    <3> HIDE DEF w
    <3>2. Created' = Created \cup {w}
      BY <3>1 DEF Created
    <3> QED BY <3>2 DEF w
  <2>4. late' \subseteq Created'
    BY <1>2, <2>3 DEF EngineObject, TypeInv
  <2> QED BY <1>2, <2>1, <2>4 DEF TypeInv
<1>3. ASSUME NEW o \in Object, Kill(o), UNCHANGED <<phase, calls>>, UNCHANGED <<running, paused>>
      PROVE  TypeInv'
  <2>1. owner' \in [Object -> Object \cup {NoObject}]
    BY <1>3 DEF Kill, TypeInv
  <2>2. Created \subseteq Created'
    BY <1>3 DEF Kill, Created
  <2>3. late' \subseteq late
    BY <1>3 DEF Kill
  <2> QED BY <1>3, <2>1, <2>2, <2>3 DEF TypeInv
<1>4. ASSUME NEW o \in Object, life' = [life EXCEPT ![o] = "zero"] \/ life' = life
      PROVE  Created \subseteq Created'
  BY <1>4 DEF Created, IInv, Objects
<1>5. CASE Call
  <2>1. phase' = phase /\ calls' \in 0..MaxCalls
    BY <1>5, CallsSpent DEF Call, CallCreate, CallEngineCreate, CallAdopt, CallDelete, CallSetLifeTime, CallStartGame,
       CallStopGame, CallPauseGame, MayWalk, MayCall, TypeInv
  <2>2. CASE \E m \in Models : CallCreate(m) \/ CallEngineCreate(m)
    BY <1>2, <2>1, <2>2 DEF CallCreate, CallEngineCreate, stateVars, TypeInv
  <2>3. CASE \E o \in Object : CallAdopt(o)
    <3>1. PICK o \in Object : CallAdopt(o)
      BY <2>3
    <3>2. late' \subseteq late \cup {o} /\ o \in Created /\ UNCHANGED <<life, owner, running, paused>>
      BY <3>1 DEF CallAdopt, Live, Created, engineVars, stateVars
    <3> QED BY <2>1, <3>2 DEF TypeInv, Created
  <2>4. CASE \E o \in Object : CallDelete(o) \/ CallSetLifeTime(o)
    <3>1. PICK o \in Object : CallDelete(o) \/ CallSetLifeTime(o)
      BY <2>4
    <3>2. /\ UNCHANGED <<owner, running, paused, late>>
          /\ life' = [life EXCEPT ![o] = "zero"] \/ life' = life
      BY <3>1 DEF CallDelete, CallSetLifeTime, DeleteObject, stateVars, startVars
    <3> QED BY <1>1, <1>4, <2>1, <3>2 DEF TypeInv
  <2>5. CASE CallStartGame \/ CallStopGame \/ CallPauseGame
    <3>1. UNCHANGED <<owner, running, paused, late, life>>
      BY <2>5 DEF CallStartGame, CallStopGame, CallPauseGame, engineVars, stateVars, startVars
    <3> QED BY <1>1, <2>1, <3>1 DEF TypeInv, Created
  <2> QED BY <1>5, <2>2, <2>3, <2>4, <2>5 DEF Call
<1>6. CASE Create
  <2>1. CASE CreateChild
    <3>1. Top.obj \in Object \cup {NoObject}
      BY <2>1, FramesAre DEF CreateChild, At, Frame
    <3> QED BY <1>2, <2>1, <3>1 DEF CreateChild, stateVars, TypeInv
  <2>2. CASE SendCreate \/ CreatedRunning \/ EndCreate
    <3>1. UNCHANGED <<phase, calls, owner, running, paused, late, life>>
      BY <2>2 DEF SendCreate, CreatedRunning, EndCreate, engineVars, stateVars, startVars
    <3> QED BY <1>1, <3>1 DEF TypeInv, Created
  <2> QED BY <1>6, <2>1, <2>2 DEF Create
<1>7. CASE Delete
  <2>1. CASE EndOnObjectDelete
    <3>1. UNCHANGED <<phase, calls, owner, running, paused, late, life>>
      BY <2>1 DEF EndOnObjectDelete, engineVars, startVars
    <3> QED BY <1>1, <3>1 DEF TypeInv, Created
  <2>2. CASE EndDelete
    <3>1. Top.obj \in Object
      BY <2>2, FramesAre DEF EndDelete, At, Frame, One, Deleting
    <3> QED BY <1>3, <2>2, <3>1 DEF EndDelete
  <2> QED BY <1>7, <2>1, <2>2 DEF Delete
<1>8. CASE Visit
  <2>1. UNCHANGED <<phase, calls, owner, life>> /\ late' \subseteq late
    BY <1>8 DEF Visit, WalkBegin, WalkNext, WalkEnd, engineVars, startVars
  <2>2. Top.asked \in BOOLEAN
    BY <1>8, FramesAre DEF Visit, WalkBegin, WalkNext, WalkEnd, Frame
  <2>3. running' \in BOOLEAN /\ paused' \in BOOLEAN
    BY <1>8, <2>2 DEF Visit, WalkBegin, WalkNext, WalkEnd, stateVars, TypeInv
  <2> QED BY <2>1, <2>3 DEF TypeInv, Created
<1>9. CASE Return
  <2>1. UNCHANGED <<phase, calls, owner, running, paused, late, life>>
    BY <1>9 DEF Return, engineVars, stateVars, startVars
  <2> QED BY <1>1, <2>1 DEF TypeInv, Created
<1>10. CASE MainLoop
  <2>1. phase' \in Phase /\ calls' \in 0..MaxCalls
    <3>1. \A from : \A to \in Phase : Step(from, to) => phase' \in Phase /\ calls' \in 0..MaxCalls
      BY LoopAssumption DEF Step
    <3>2. CASE EngineDeletes \/ EnginePassed
      BY <3>2 DEF EngineDeletes, EnginePassed, TypeInv
    <3>3. CASE Started \/ Tick \/ NextFrame \/ Close \/ Clear \/ Done \/ ClearObject
      BY <3>1, <3>3 DEF Started, Tick, NextFrame, Close, Clear, ClearObject, Done, Phase
    <3>4. CASE \E events : EngineStep(events)
      BY <3>1, <3>4 DEF EngineStep, Phase
    <3>5. ASSUME (\E s, r \in Live : Contact(s, r)) \/ (\E o \in Live \cup {NoObject} : Notice(o))
                   \/ (\E m \in Models : Spawn(m))
          PROVE  \E events : EngineStep(events)
      BY <3>5 DEF Contact, Notice, Spawn
    <3> QED BY <1>10, <3>2, <3>3, <3>4, <3>5 DEF MainLoop
  <2>2. CASE \E m \in Models : Spawn(m)
    BY <1>2, <2>1, <2>2 DEF Spawn, stateVars, TypeInv
  <2>3. CASE Started
    <3>1. UNCHANGED <<owner, paused, late, life>> /\ running' = FALSE
      BY <2>3 DEF Started, engineVars, startVars
    <3> QED BY <2>1, <3>1 DEF TypeInv, Created
  <2>4. CASE EngineDeletes
    <3>1. PICK o : Kill(o) \/ UNCHANGED <<life, owner, late>>
      BY <2>4 DEF EngineDeletes, engineVars, startVars
    <3>2. UNCHANGED <<phase, calls, running, paused>>
      BY <2>4 DEF EngineDeletes, stateVars
    <3>3. CASE UNCHANGED <<life, owner, late>>
      BY <1>1, <2>1, <3>2, <3>3 DEF TypeInv, Created
    <3>4. CASE Kill(o)
      <4>1. owner' \in [Object -> Object \cup {NoObject}] /\ late' \subseteq late /\ Created \subseteq Created'
        BY <3>4 DEF Kill, TypeInv, Created
      <4> QED BY <2>1, <3>2, <4>1 DEF TypeInv
    <3> QED BY <3>1, <3>3, <3>4
  <2>5. CASE ClearObject
    <3>1. PICK o : DeleteObject(o)
      BY <2>5 DEF ClearObject
    <3>2. UNCHANGED <<owner, running, paused, late>> /\ Created \subseteq Created'
      BY <3>1 DEF DeleteObject, stateVars, startVars, Created, IInv, Objects
    <3> QED BY <1>1, <2>1, <3>2
  <2>6. CASE Tick \/ EnginePassed \/ NextFrame \/ Close \/ Clear \/ Done
               \/ (\E s, r \in Live : Contact(s, r)) \/ (\E o \in Live \cup {NoObject} : Notice(o))
    <3>1. UNCHANGED <<owner, running, paused, late, life>>
      BY <2>6 DEF Tick, EnginePassed, NextFrame, Close, Clear, Done, Contact, Notice, engineVars, stateVars, startVars
    <3> QED BY <1>1, <2>1, <3>1 DEF Created
  <2> QED BY <1>10, <2>2, <2>3, <2>4, <2>5, <2>6 DEF MainLoop
<1>11. CASE UNCHANGED vars
  BY <1>11 DEF vars, engineVars, stateVars, startVars, TypeInv, Created
<1> QED BY <1>5, <1>6, <1>7, <1>8, <1>9, <1>10, <1>11 DEF Next, Ended

\* The variables of the loop have their types in every reachable state, under the same
\* condition; so no object is paused in the engine that it no longer has.
THEOREM ScrollTypes ==
  ASSUME ~NestedWalks
  PROVE  Spec => []TypeOK
<1>1. WalkInv /\ TypeInv => TypeOK
  <2> SUFFICES ASSUME WalkInv, TypeInv PROVE TypeOK
    OBVIOUS
  <2>1. frozen \subseteq Live
    BY DEF WalkInv, PauseInv, IInv, Objects, Live, Alive
  <2> QED BY <2>1 DEF WalkInv, TypeInv, TypeOK, StartInv, IInv, Objects, Calls, Registry, RegistryState
<1>2. Init => TypeInv
  <2> SUFFICES ASSUME Init PROVE TypeInv
    OBVIOUS
  <2>1. calls \in 0..MaxCalls
    BY LoopAssumption DEF Init
  <2>2. owner \in [Object -> Object \cup {NoObject}]
    BY DEF Init
  <2> QED BY <2>1, <2>2 DEF Init, TypeInv, Phase
<1>3. WalkInv /\ TypeInv /\ [Next]_vars => WalkInv' /\ TypeInv'
  BY WalkInvNext, TypeInvNext DEF WalkInv
<1> QED BY <1>1, <1>2, <1>3, WalkInvInit, PTL DEF Spec

-----------------------------------------------------------------------------
(* Which creations the game asked for                                      *)

Made(f)  == f.at \in Creating /\ f.asked
Waits(f) == f.at \in {"children", "event"}

\* The next creation the game asked for, further in than j.
Nearest(st, i, j) == Made(st[i]) /\ \A k \in DOMAIN st : i < k /\ k < j => ~Made(st[k])

\* A creation of the engine's own further in than j, with none the game asked for between.
Unasked(st, i, j) ==
  /\ Waits(st[i]) /\ ~st[i].asked
  /\ \A k \in DOMAIN st : i < k /\ k < j => ~Made(st[k])

\* The next creation the game asked for, if it waits, is not of m.
Other(st, md, m) ==
  \A j \in DOMAIN st :
    Made(st[j]) /\ Waits(st[j]) /\ (\A k \in DOMAIN st : k < j => ~Made(st[k])) => md[st[j].obj] # m

\* A creation with a call within it: while its children are made.
Parent(md, f) == Waits(f) => Child[md[f.obj]] # NoModel

\* The mark of a creation that the game asked for and that waits for its event is with
\* the next creation asked for, or it is the current one; and a creation of the engine's
\* own within it, of a child, by a spawner or by a callback, has another name.
Marked(st, md, cm) ==
  /\ \A j \in DOMAIN st : Made(st[j]) /\ Waits(st[j]) =>
       /\ (\A k \in DOMAIN st : k < j => ~Made(st[k])) => cm = md[st[j].obj]
       /\ \A i \in DOMAIN st : i < j /\ Nearest(st, i, j) => st[i].mark = md[st[j].obj]
       /\ \A i \in DOMAIN st : i < j /\ Unasked(st, i, j) => md[st[i].obj] # md[st[j].obj]
  /\ \A i \in DOMAIN st : i # 1 => Parent(md, st[i])

LEMMA MarkedNone ==
  ASSUME NEW st, NEW md, NEW cm, \A f \in ToSet(st) : f.at \notin Creating
  PROVE  Marked(st, md, cm)
BY DEF Marked, Made, Waits, Parent, Creating, ToSet

LEMMA MarkedObjects ==
  ASSUME NEW st, NEW md, NEW md2, NEW cm, Marked(st, md, cm),
         \A f \in ToSet(st) : Waits(f) => md2[f.obj] = md[f.obj]
  PROVE  Marked(st, md2, cm)
<1>1. \A i \in DOMAIN st : Waits(st[i]) => md2[st[i].obj] = md[st[i].obj]
  BY DEF ToSet
<1>2. \A j \in DOMAIN st : Made(st[j]) /\ Waits(st[j]) =>
        /\ (\A k \in DOMAIN st : k < j => ~Made(st[k])) => cm = md2[st[j].obj]
        /\ \A i \in DOMAIN st : i < j /\ Nearest(st, i, j) => st[i].mark = md2[st[j].obj]
        /\ \A i \in DOMAIN st : i < j /\ Unasked(st, i, j) => md2[st[i].obj] # md2[st[j].obj]
  BY <1>1 DEF Marked, Unasked
<1>3. \A i \in DOMAIN st : i # 1 => Parent(md2, st[i])
  BY <1>1 DEF Marked, Parent
<1> QED BY <1>2, <1>3 DEF Marked

LEMMA MarkedPushed ==
  ASSUME NEW st \in Seq(Frame), NEW md, NEW cm, Marked(st, md, cm), NEW f \in Frame, NEW cm2,
         Made(f) => f.mark = cm /\ (Waits(f) => cm2 = md[f.obj]),
         ~Made(f) => cm2 = cm,
         Waits(f) /\ ~f.asked => Other(st, md, md[f.obj]),
         st # <<>> => Parent(md, Head(st))
  PROVE  Marked(<<f>> \o st, md, cm2)
<1> DEFINE nx == <<f>> \o st
<1>1. /\ nx \in Seq(Frame) /\ Len(nx) = Len(st) + 1
      /\ \A k \in 1..Len(st) + 1 : nx[k] = IF k = 1 THEN f ELSE st[k - 1]
  BY PushIs
<1> HIDE DEF nx
<1>2. DOMAIN nx = 1..Len(st) + 1 /\ DOMAIN st = 1..Len(st) /\ Len(st) \in Nat
  BY <1>1
<1>3. 1 \in DOMAIN nx /\ nx[1] = f
  BY <1>1, <1>2
<1>4. \A k \in DOMAIN nx : k # 1 => k - 1 \in DOMAIN st /\ nx[k] = st[k - 1]
  BY <1>1, <1>2
<1>5. \A k \in DOMAIN st : k + 1 \in DOMAIN nx /\ nx[k + 1] = st[k] /\ k \in Nat /\ k >= 1
  BY <1>1, <1>2
<1>6. ASSUME NEW j \in DOMAIN nx, Made(nx[j]), Waits(nx[j])
      PROVE  /\ (\A k \in DOMAIN nx : k < j => ~Made(nx[k])) => cm2 = md[nx[j].obj]
             /\ \A i \in DOMAIN nx : i < j /\ Nearest(nx, i, j) => nx[i].mark = md[nx[j].obj]
             /\ \A i \in DOMAIN nx : i < j /\ Unasked(nx, i, j) => md[nx[i].obj] # md[nx[j].obj]
  <2>1. CASE j = 1
    BY <1>2, <1>3, <1>6, <2>1
  <2>2. CASE j # 1
    <3> DEFINE q == j - 1
    <3>1. q \in DOMAIN st /\ nx[j] = st[q] /\ q \in Nat /\ j = q + 1
      BY <1>2, <1>4, <2>2
    <3> HIDE DEF q
    <3>2. (\A k \in DOMAIN st : k < q => ~Made(st[k])) => cm = md[st[q].obj]
      BY <1>6, <3>1 DEF Marked
    <3>3. ASSUME \A k \in DOMAIN nx : k < j => ~Made(nx[k])
          PROVE  cm2 = md[nx[j].obj]
      <4>1. \A k \in DOMAIN st : k < q => ~Made(st[k])
        BY <1>5, <3>1, <3>3
      <4>2. ~Made(f)
        BY <1>2, <1>3, <2>2, <3>3
      <4> QED BY <3>1, <3>2, <4>1, <4>2
    <3>4. ASSUME NEW i \in DOMAIN nx, i < j, Nearest(nx, i, j)
          PROVE  nx[i].mark = md[nx[j].obj]
      <4>1. CASE i = 1
        <5>1. \A k \in DOMAIN st : k < q => ~Made(st[k])
          BY <1>5, <3>1, <3>4, <4>1 DEF Nearest
        <5> QED BY <1>3, <3>1, <3>2, <3>4, <4>1, <5>1 DEF Nearest
      <4>2. CASE i # 1
        <5> DEFINE p == i - 1
        <5>1. p \in DOMAIN st /\ nx[i] = st[p] /\ p \in Nat /\ i = p + 1 /\ p < q
          BY <1>2, <1>4, <3>1, <3>4, <4>2
        <5> HIDE DEF p
        <5>2. Nearest(st, p, q)
          <6>1. ASSUME NEW k \in DOMAIN st, p < k, k < q PROVE ~Made(st[k])
            <7>1. k + 1 \in DOMAIN nx /\ nx[k + 1] = st[k] /\ i < k + 1 /\ k + 1 < j
              BY <1>2, <1>5, <3>1, <5>1, <6>1
            <7> QED BY <3>4, <7>1 DEF Nearest
          <6> QED BY <3>4, <5>1, <6>1 DEF Nearest
        <5> QED BY <1>6, <3>1, <5>1, <5>2 DEF Marked
      <4> QED BY <4>1, <4>2
    <3>5. ASSUME NEW i \in DOMAIN nx, i < j, Unasked(nx, i, j)
          PROVE  md[nx[i].obj] # md[nx[j].obj]
      <4>1. CASE i = 1
        <5>1. \A k \in DOMAIN st : k < q => ~Made(st[k])
          BY <1>5, <3>1, <3>5, <4>1 DEF Unasked
        <5>2. Other(st, md, md[f.obj])
          BY <1>3, <3>5, <4>1 DEF Unasked
        <5> QED BY <1>3, <1>6, <3>1, <4>1, <5>1, <5>2 DEF Other
      <4>2. CASE i # 1
        <5> DEFINE p == i - 1
        <5>1. p \in DOMAIN st /\ nx[i] = st[p] /\ p \in Nat /\ i = p + 1 /\ p < q
          BY <1>2, <1>4, <3>1, <3>5, <4>2
        <5> HIDE DEF p
        <5>2. Unasked(st, p, q)
          <6>1. ASSUME NEW k \in DOMAIN st, p < k, k < q PROVE ~Made(st[k])
            <7>1. k + 1 \in DOMAIN nx /\ nx[k + 1] = st[k] /\ i < k + 1 /\ k + 1 < j
              BY <1>2, <1>5, <3>1, <5>1, <6>1
            <7> QED BY <3>5, <7>1 DEF Unasked
          <6> QED BY <3>5, <5>1, <6>1 DEF Unasked
        <5> QED BY <1>6, <3>1, <5>1, <5>2 DEF Marked
      <4> QED BY <4>1, <4>2
    <3> QED BY <3>3, <3>4, <3>5
  <2> QED BY <2>1, <2>2
<1>7. ASSUME NEW i \in DOMAIN nx, i # 1 PROVE Parent(md, nx[i])
  <2> DEFINE q == i - 1
  <2>1. q \in DOMAIN st /\ nx[i] = st[q] /\ q \in Nat
    BY <1>2, <1>4, <1>7
  <2> HIDE DEF q
  <2>2. CASE q = 1
    <3>1. st # <<>> /\ Head(st) = st[1]
      BY <1>2, <2>1, PopIs
    <3> QED BY <2>1, <2>2, <3>1
  <2>3. CASE q # 1
    BY <2>1, <2>3 DEF Marked
  <2> QED BY <2>2, <2>3
<1>8. Marked(nx, md, cm2)
  BY <1>6, <1>7 DEF Marked
<1> QED BY <1>8 DEF nx

LEMMA MarkedPopped ==
  ASSUME NEW st \in Seq(Frame), st # <<>>, NEW md, NEW cm, Marked(st, md, cm)
  PROVE  LET f == Head(st)
         IN  /\ Marked(Tail(st), md, IF Made(f) THEN f.mark ELSE cm)
             /\ Made(f) /\ Waits(f) => cm = md[f.obj]
             /\ Waits(f) /\ ~f.asked => Other(Tail(st), md, md[f.obj])
             /\ \A g \in ToSet(Tail(st)) : Parent(md, g)
<1> DEFINE f == Head(st)
           nx == Tail(st)
           cm2 == IF Made(f) THEN f.mark ELSE cm
<1>1. /\ f = st[1] /\ nx \in Seq(Frame) /\ Len(nx) = Len(st) - 1 /\ 1 \in DOMAIN st
      /\ \A k \in 1..Len(st) - 1 : nx[k] = st[k + 1]
  BY PopIs
<1> HIDE DEF f, nx
<1>2. DOMAIN nx = 1..Len(st) - 1 /\ DOMAIN st = 1..Len(st) /\ Len(st) \in Nat
  BY <1>1
<1>3. \A k \in DOMAIN nx : k + 1 \in DOMAIN st /\ k \in Nat /\ k >= 1 /\ nx[k] = st[k + 1]
  BY <1>1, <1>2
<1>4. \A k \in DOMAIN st : k # 1 => k - 1 \in DOMAIN nx /\ nx[k - 1] = st[k]
  BY <1>1, <1>2
<1>5. Made(f) /\ Waits(f) => cm = md[f.obj]
  BY <1>1, <1>2 DEF Marked
<1>6. ASSUME Waits(f), ~f.asked PROVE Other(nx, md, md[f.obj])
  <2> SUFFICES ASSUME NEW j \in DOMAIN nx, Made(nx[j]), Waits(nx[j]),
                      \A k \in DOMAIN nx : k < j => ~Made(nx[k])
               PROVE  md[nx[j].obj] # md[f.obj]
    BY DEF Other
  <2> DEFINE q == j + 1
  <2>1. q \in DOMAIN st /\ nx[j] = st[q] /\ q > 1 /\ q \in Nat /\ j = q - 1
    BY <1>3
  <2> HIDE DEF q
  <2>2. \A k \in DOMAIN st : 1 < k /\ k < q => ~Made(st[k])
    BY <1>2, <1>4, <2>1
  <2>3. Unasked(st, 1, q)
    BY <1>1, <1>6, <2>2 DEF Unasked
  <2> QED BY <1>1, <2>1, <2>3 DEF Marked
<1>7. ASSUME NEW j \in DOMAIN nx, Made(nx[j]), Waits(nx[j])
      PROVE  /\ (\A k \in DOMAIN nx : k < j => ~Made(nx[k])) => cm2 = md[nx[j].obj]
             /\ \A i \in DOMAIN nx : i < j /\ Nearest(nx, i, j) => nx[i].mark = md[nx[j].obj]
             /\ \A i \in DOMAIN nx : i < j /\ Unasked(nx, i, j) => md[nx[i].obj] # md[nx[j].obj]
  <2> DEFINE q == j + 1
  <2>1. q \in DOMAIN st /\ nx[j] = st[q] /\ q > 1 /\ q \in Nat /\ j = q - 1
    BY <1>3
  <2> HIDE DEF q
  <2>2. /\ (\A k \in DOMAIN st : k < q => ~Made(st[k])) => cm = md[st[q].obj]
        /\ \A i \in DOMAIN st : i < q /\ Nearest(st, i, q) => st[i].mark = md[st[q].obj]
        /\ \A i \in DOMAIN st : i < q /\ Unasked(st, i, q) => md[st[i].obj] # md[st[q].obj]
    BY <1>7, <2>1 DEF Marked
  <2>3. ASSUME \A k \in DOMAIN nx : k < j => ~Made(nx[k])
        PROVE  cm2 = md[nx[j].obj]
    <3>1. \A k \in DOMAIN st : 1 < k /\ k < q => ~Made(st[k])
      BY <1>2, <1>4, <2>1, <2>3
    <3>2. CASE Made(f)
      <4>1. Nearest(st, 1, q)
        BY <1>1, <3>1, <3>2 DEF Nearest
      <4> QED BY <1>1, <2>1, <2>2, <3>2, <4>1
    <3>3. CASE ~Made(f)
      <4>1. \A k \in DOMAIN st : k < q => ~Made(st[k])
        BY <1>1, <1>2, <3>1, <3>3
      <4> QED BY <2>1, <2>2, <3>3, <4>1
    <3> QED BY <3>2, <3>3
  <2>4. ASSUME NEW i \in DOMAIN nx, i < j, Nearest(nx, i, j)
        PROVE  nx[i].mark = md[nx[j].obj]
    <3> DEFINE p == i + 1
    <3>1. p \in DOMAIN st /\ nx[i] = st[p] /\ p \in Nat /\ i = p - 1 /\ p < q /\ p > 1
      BY <1>2, <1>3, <2>1, <2>4
    <3> HIDE DEF p
    <3>2. Nearest(st, p, q)
      <4>1. ASSUME NEW k \in DOMAIN st, p < k, k < q PROVE ~Made(st[k])
        <5>1. k - 1 \in DOMAIN nx /\ nx[k - 1] = st[k] /\ i < k - 1 /\ k - 1 < j
          BY <1>2, <1>4, <2>1, <3>1, <4>1
        <5> QED BY <2>4, <5>1 DEF Nearest
      <4> QED BY <2>4, <3>1, <4>1 DEF Nearest
    <3> QED BY <2>1, <2>2, <3>1, <3>2
  <2>5. ASSUME NEW i \in DOMAIN nx, i < j, Unasked(nx, i, j)
        PROVE  md[nx[i].obj] # md[nx[j].obj]
    <3> DEFINE p == i + 1
    <3>1. p \in DOMAIN st /\ nx[i] = st[p] /\ p \in Nat /\ i = p - 1 /\ p < q /\ p > 1
      BY <1>2, <1>3, <2>1, <2>5
    <3> HIDE DEF p
    <3>2. Unasked(st, p, q)
      <4>1. ASSUME NEW k \in DOMAIN st, p < k, k < q PROVE ~Made(st[k])
        <5>1. k - 1 \in DOMAIN nx /\ nx[k - 1] = st[k] /\ i < k - 1 /\ k - 1 < j
          BY <1>2, <1>4, <2>1, <3>1, <4>1
        <5> QED BY <2>5, <5>1 DEF Unasked
      <4> QED BY <2>5, <3>1, <4>1 DEF Unasked
    <3> QED BY <2>1, <2>2, <3>1, <3>2
  <2> QED BY <2>3, <2>4, <2>5
<1>8. \A i \in DOMAIN nx : Parent(md, nx[i])
  <2> TAKE i \in DOMAIN nx
  <2>1. i + 1 \in DOMAIN st /\ nx[i] = st[i + 1] /\ i + 1 # 1
    BY <1>3
  <2> QED BY <2>1 DEF Marked
<1>9. Marked(nx, md, cm2) /\ \A g \in ToSet(nx) : Parent(md, g)
  BY <1>7, <1>8 DEF Marked, ToSet
<1> QED BY <1>5, <1>6, <1>9 DEF f, nx

LEMMA MarkedCalm ==
  ASSUME NEW st \in Seq(Frame), NEW md, NEW cm, Marked(st, md, cm),
         NEW f \in Frame, f.at \notin Creating, st # <<>> => Parent(md, Head(st))
  PROVE  Marked(<<f>> \o st, md, cm)
<1>1. ~Made(f) /\ ~Waits(f)
  BY DEF Made, Waits, Creating
<1> QED BY <1>1, MarkedPushed

LEMMA MarkedBelow ==
  ASSUME IInv, stack # <<>>, Marked(stack, model, createMark)
  PROVE  /\ Below \in Seq(Frame)
         /\ Made(Top) => Marked(Below, model, Top.mark)
         /\ ~Made(Top) => Marked(Below, model, createMark)
         /\ Made(Top) /\ Waits(Top) => createMark = model[Top.obj]
         /\ Waits(Top) /\ ~Top.asked => Other(Below, model, model[Top.obj])
         /\ \A g \in Rest : Parent(model, g)
         /\ Below # <<>> => Parent(model, Head(Below))
<1>1. stack \in Seq(Frame)
  BY FramesAre
<1>2. /\ Below \in Seq(Frame)
      /\ Marked(Below, model, IF Made(Top) THEN Top.mark ELSE createMark)
      /\ Made(Top) /\ Waits(Top) => createMark = model[Top.obj]
      /\ Waits(Top) /\ ~Top.asked => Other(Below, model, model[Top.obj])
      /\ \A g \in Rest : Parent(model, g)
  BY <1>1, FramesAre, MarkedPopped DEF Top, Below, Rest
<1>3. Below # <<>> => Head(Below) \in Rest
  BY <1>2, FramesPopped DEF Rest
<1> QED BY <1>2, <1>3

\* The innermost call, where callbacks run, waits for no event.
LEMMA AtCallback ==
  ASSUME MayCall
  PROVE  stack # <<>> /\ ~Waits(Top) /\ \A md : Parent(md, Head(stack))
BY DEF MayCall, Callbacks, GameCalls, Deleting, Handling, Walks, Waits, Parent, Top

\* The engine's pass over its objects is the outermost frame.
LEMMA EngineLast ==
  ASSUME NEW st \in Seq(Frame), st # <<>>, Head(st).at = "engine",
         \A i, j \in DOMAIN st : i < j => Apart(st[i], st[j])
  PROVE  Tail(st) = <<>>
<1>1. DOMAIN st = 1..Len(st) /\ Len(st) \in Nat /\ Head(st) = st[1]
  BY PopIs
<1>2. ~(2 \in DOMAIN st)
  BY <1>1 DEF Apart
<1>3. Len(st) <= 1
  BY <1>1, <1>2
<1>4. Len(Tail(st)) = Len(st) - 1 /\ Tail(st) \in Seq(Frame)
  BY PopIs
<1> QED BY <1>1, <1>3, <1>4, EmptySeq

\* The engine makes an object, which no creation in progress is about.
LEMMA MarkedMade ==
  ASSUME IInv, NEW m \in Models, NEW p, EngineObject(m, p),
         NEW st \in Seq(Frame), ToSet(st) \subseteq Frames, NEW cm, Marked(st, model, cm)
  PROVE  /\ Marked(st, model', cm) /\ model'[NewObject] = m
         /\ \A f \in Frames : Waits(f) => model'[f.obj] = model[f.obj]
<1>1. ASSUME NEW f \in Frames, Waits(f) PROVE model'[f.obj] = model[f.obj]
  <2>1. f.obj \in Object /\ f.obj # NewObject
    BY <1>1, FramesAre, MadeKeeps DEF One, Waits, Creating, Frame
  <2> QED BY <2>1, MadeKeeps
<1>2. Marked(st, model', cm)
  BY <1>1, MarkedObjects
<1> QED BY <1>1, <1>2, MadeKeeps

LEMMA CallCreateMarked ==
  ASSUME IInv, Marked(stack, model, createMark), NEW m \in Models, CallCreate(m)
  PROVE  Marked(stack', model', createMark')
<1> DEFINE f == Creation(m, TRUE, createMark)
<1>1. /\ EngineObject(m, NoObject) /\ stack' = <<f>> \o stack
      /\ UNCHANGED <<reg, starts>> /\ createMark' = m
  BY DEF CallCreate, Push
<1>2. /\ f \in Frame /\ f.at \in {"children", "event"} /\ f.obj = NewObject
      /\ f.asked /\ f.mark = createMark
  BY <1>1, CreationIs DEF IInv, EngineObject
<1> HIDE DEF f
<1>3. stack \in Seq(Frame) /\ Marked(stack, model', createMark) /\ model'[NewObject] = m
  BY <1>1, FramesAre, MarkedMade DEF Frames
<1>4. Made(f) => f.mark = createMark /\ (Waits(f) => createMark' = model'[f.obj])
  BY <1>1, <1>2, <1>3
<1>5. Made(f) /\ Parent(model', Head(stack))
  BY <1>2, AtCallback DEF CallCreate, Made, Creating
<1> QED BY <1>1, <1>2, <1>3, <1>4, <1>5, MarkedPushed

LEMMA CallEngineCreateMarked ==
  ASSUME ~TakesMark, IInv, Marked(stack, model, createMark), NEW m \in Models, CallEngineCreate(m)
  PROVE  Marked(stack', model', createMark')
<1> DEFINE f == Creation(m, FALSE, NoModel)
<1>1. /\ EngineObject(m, NoObject) /\ stack' = <<f>> \o stack
      /\ UNCHANGED <<reg, starts, createMark>> /\ m # createMark
  BY DEF CallEngineCreate, Push, markVars
<1>2. f \in Frame /\ f.obj = NewObject /\ ~f.asked
  BY <1>1, CreationIs DEF EngineObject
<1> HIDE DEF f
<1>3. stack \in Seq(Frame) /\ Marked(stack, model', createMark) /\ model'[NewObject] = m
  BY <1>1, FramesAre, MarkedMade DEF Frames
<1>4. Other(stack, model', model'[f.obj])
  BY <1>1, <1>2, <1>3 DEF Marked, Other
<1>5. ~Made(f) /\ Parent(model', Head(stack))
  BY <1>2, AtCallback DEF CallEngineCreate, Made
<1> QED BY <1>1, <1>2, <1>3, <1>4, <1>5, MarkedPushed

LEMMA CallAdoptMarked ==
  ASSUME IInv, Marked(stack, model, createMark), NEW o \in Object, CallAdopt(o)
  PROVE  Marked(stack', model', createMark')
<1> DEFINE f == [Calling("OnCreate", o) EXCEPT !.asked = TRUE, !.mark = createMark]
<1>1. stack' = <<f>> \o stack /\ UNCHANGED <<model, createMark>>
  BY DEF CallAdopt, Push, engineVars, markVars
<1>2. f.at = "OnCreate" /\ f.asked /\ f.mark = createMark /\ f \in Frame
  BY DEF IInv, Calling, Frame, Creating
<1> HIDE DEF f
<1>3. Made(f) /\ ~Waits(f) /\ stack \in Seq(Frame) /\ Parent(model, Head(stack))
  BY <1>2, FramesAre, AtCallback DEF CallAdopt, Made, Waits, Creating
<1> QED BY <1>1, <1>2, <1>3, MarkedPushed

LEMMA CreateChildMarked ==
  ASSUME IInv, Marked(stack, model, createMark), CreateChild
  PROVE  Marked(stack', model', createMark')
<1> DEFINE m == Child[model[Top.obj]]
           f == Creation(m, FALSE, NoModel)
           g == [Top EXCEPT !.at = "event"]
<1>1. /\ stack # <<>> /\ Top.at = "children" /\ EngineObject(m, Top.obj)
      /\ stack' = <<f, g>> \o Below
      /\ UNCHANGED <<reg, starts, createMark>>
  BY DEF CreateChild, At, markVars
<1>2. /\ Top \in Frame /\ Below \in Seq(Frame) /\ Frames = {Top} \cup Rest
      /\ One(Top, life, model, reg)
  BY <1>1, FramesAre
<1>3. m \in Models /\ Top.obj \in Object /\ life[Top.obj] \in Alive
  BY <1>1, <1>2 DEF One, Frame, Creating
<1>4. /\ g \in Frame /\ g.at = "event" /\ g.obj = Top.obj /\ g.asked = Top.asked /\ g.mark = Top.mark
      /\ Made(g) = Made(Top) /\ Waits(g) /\ Waits(Top)
  BY <1>1, <1>2 DEF Frame, Creating, Made, Waits
<1>5. model[Top.obj] \in Models
  BY <1>3 DEF IInv, Objects
<1>6. Child[m] = NoModel
  BY <1>3, <1>5, LoopAssumption
<1>7. NewObject \in Object
  BY <1>1 DEF EngineObject
<1>8. f \in Frame /\ f.at = "event" /\ f.obj = NewObject /\ ~f.asked
  BY <1>3, <1>6, <1>7, CreationIs DEF Creation
<1>9. f.at \notin {"children"} /\ Waits(f) /\ ~Made(f)
  BY <1>8 DEF Waits, Made
<1> DEFINE cm == IF Made(Top) THEN Top.mark ELSE createMark
<1>10. Marked(Below, model, cm)
  BY <1>1, MarkedBelow
<1> HIDE DEF f, g, cm
<1>11. /\ Marked(Below, model', cm) /\ model'[NewObject] = m
       /\ model'[Top.obj] = model[Top.obj]
       /\ \A h \in Rest : Waits(h) => model'[h.obj] = model[h.obj]
  <2>1. ToSet(Below) \subseteq Frames
    BY <1>2 DEF Rest
  <2> HIDE DEF m
  <2> QED BY <1>1, <1>2, <1>3, <1>4, <1>10, <2>1, MarkedMade
<1>12. /\ \A h \in ToSet(<<g>> \o Below) : Parent(model', h)
       /\ Below # <<>> => Parent(model', Head(Below))
  <2>1. \A h \in Rest : Parent(model', h)
    <3>1. \A h \in Rest : Parent(model, h)
      BY <1>1, MarkedBelow
    <3>2. \A h \in Rest : Waits(h) => model'[h.obj] = model[h.obj]
      BY <1>11
    <3> QED BY <3>1, <3>2 DEF Parent
  <2>2. Parent(model', g)
    BY <1>3, <1>4, <1>11, LoopAssumption DEF Parent
  <2>3. ToSet(<<g>> \o Below) \subseteq {g} \cup Rest
    BY <1>2, <1>4, OneFrame, ElementsOf DEF Rest
  <2>4. Below # <<>> => Head(Below) \in Rest
    BY <1>2, FramesPopped DEF Rest
  <2> QED BY <2>1, <2>2, <2>3, <2>4
<1>13. Marked(<<g>> \o Below, model', createMark)
  <2>1. Made(g) => g.mark = cm /\ (Waits(g) => createMark = model'[g.obj])
    BY <1>1, <1>4, <1>11, MarkedBelow DEF cm
  <2>2. ~Made(g) => createMark = cm
    BY <1>4 DEF cm
  <2>3. Waits(g) /\ ~g.asked => Other(Below, model', model'[g.obj])
    <3>1. ASSUME ~Top.asked PROVE Other(Below, model, model[Top.obj])
      BY <1>1, <1>4, <3>1, MarkedBelow
    <3>2. \A j \in DOMAIN Below : Waits(Below[j]) => model'[Below[j].obj] = model[Below[j].obj]
      BY <1>11 DEF Rest, ToSet
    <3> QED BY <1>4, <1>11, <3>1, <3>2 DEF Other
  <2> QED BY <1>2, <1>4, <1>11, <1>12, <2>1, <2>2, <2>3, MarkedPushed
<1> DEFINE st == <<g>> \o Below
<1>14. st \in Seq(Frame) /\ st # <<>> /\ Head(st) = g /\ Parent(model', g)
  <2>1. st \in Seq(Frame) /\ st # <<>> /\ Head(st) = g
    BY <1>2, <1>4
  <2>2. g \in ToSet(st)
    BY <2>1, FramesPopped
  <2> QED BY <1>12, <2>1, <2>2
<1>15. Marked(<<f>> \o st, model', createMark)
  <2> HIDE DEF st
  <2>1. Other(st, model', model'[f.obj])
    <3>1. \A j \in DOMAIN st : Waits(st[j]) => Child[model'[st[j].obj]] # NoModel
      BY <1>12 DEF Parent, ToSet, st
    <3>2. Child[model'[f.obj]] = NoModel
      BY <1>6, <1>8, <1>11
    <3> QED BY <3>1, <3>2 DEF Other
  <2> QED BY <1>8, <1>9, <1>13, <1>14, <2>1, MarkedPushed DEF st
<1> QED BY <1>1, <1>2, <1>4, <1>8, <1>15, TwoPushed

\* The event of an object that the engine made of its own may take the mark only when
\* no creation that the game asked for waits for its own.
LEMMA MarkTaken ==
  ASSUME IInv, Marked(stack, model, createMark), At("event"), ~Top.asked,
         createMark = model[Top.obj], NEW cm
  PROVE  Marked(Below, model, cm)
<1>1. stack # <<>> /\ ~Made(Top) /\ Waits(Top)
  BY DEF At, Made, Waits
<1>2. Marked(Below, model, createMark) /\ Other(Below, model, createMark)
  BY <1>1, MarkedBelow
<1> QED BY <1>2 DEF Marked, Other

LEMMA SendCreateMarked ==
  ASSUME IInv, Marked(stack, model, createMark), SendCreate
  PROVE  Marked(stack', model', createMark')
<1> DEFINE f == [Top EXCEPT !.at = "OnCreate"]
<1>1. /\ stack # <<>> /\ Top.at = "event" /\ At("event") /\ model' = model
      /\ stack' = Below \/ stack' = <<f>> \o Below
      /\ createMark' = MarkAfterEvent(Top.obj)
      /\ Top.asked => stack' = <<f>> \o Below
  <2>1. Top.asked => MakerOf(Top.obj) # NoBinder
    <3>1. ASSUME Top.asked, At("event") PROVE MakerOf(Top.obj) # NoBinder
      <4>1. stack # <<>> /\ Top.at = "event" /\ One(Top, life, model, reg) /\ Top \in Frame
        BY <3>1, FramesAre DEF At
      <4>2. model[Top.obj] \in Models
        BY <4>1 DEF One, Creating, Frame, IInv, Objects
      <4>3. MakerOf(Top.obj) = GetBinder(model[Top.obj], TRUE)
        BY <3>1 DEF MakerOf
      <4> QED BY <4>2, <4>3, BinderIs, RegistryAssumption
    <3> QED BY <3>1 DEF SendCreate
  <2> QED BY <2>1 DEF SendCreate, At, Swap, engineVars
<1>2. Top \in Frame /\ Below \in Seq(Frame) /\ Top.asked \in BOOLEAN
  BY <1>1, FramesAre DEF Frame
<1>3. f \in Frame /\ f.at = "OnCreate" /\ f.asked = Top.asked /\ f.mark = Top.mark /\ ~Waits(f)
  BY <1>2 DEF Frame, Creating, Waits
<1> HIDE DEF f
<1>4. /\ Made(f) <=> Made(Top)
      /\ Below # <<>> => Parent(model, Head(Below))
  BY <1>1, <1>3, MarkedBelow DEF Made, Creating
<1>5. CASE Top.asked
  <2>1. Made(Top) /\ Marked(Below, model, Top.mark)
    BY <1>1, <1>5, MarkedBelow DEF Made, Creating
  <2> QED BY <1>1, <1>2, <1>3, <1>4, <1>5, <2>1, MarkedPushed
<1>6. CASE ~Top.asked
  <2>1. ~Made(Top) /\ Marked(Below, model, createMark)
    BY <1>1, <1>6, MarkedBelow DEF Made
  <2>2. Marked(Below, model, createMark')
    <3>1. CASE createMark' = createMark
      BY <2>1, <3>1
    <3>2. CASE createMark' # createMark
      <4>1. createMark = model[Top.obj]
        BY <1>1, <3>2 DEF MarkAfterEvent
      <4> QED BY <1>1, <1>6, <4>1, MarkTaken
    <3> QED BY <3>1, <3>2
  <2> QED BY <1>1, <1>2, <1>3, <1>4, <2>1, <2>2, MarkedPushed
<1> QED BY <1>5, <1>6

LEMMA EndCreateMarked ==
  ASSUME IInv, Marked(stack, model, createMark), CreatedRunning \/ EndCreate
  PROVE  Marked(stack', model', createMark')
<1> DEFINE f == [Top EXCEPT !.at = "OnStartGame"]
           g == Calling("OnObjectCreate", Top.obj)
<1>1. stack # <<>> /\ Top.at \in {"OnCreate", "OnStartGame"} /\ model' = model
  BY DEF CreatedRunning, EndCreate, At, engineVars
<1>2. Top \in Frame /\ Below \in Seq(Frame) /\ Top.asked \in BOOLEAN
  BY <1>1, FramesAre DEF Frame
<1>3. Made(Top) <=> Top.asked
  BY <1>1 DEF Made, Creating
<1>4. /\ Top.asked => Marked(Below, model, Top.mark)
      /\ ~Top.asked => Marked(Below, model, createMark)
      /\ Below # <<>> => Parent(model, Head(Below))
  BY <1>1, <1>3, MarkedBelow
<1>5. CASE CreatedRunning
  <2>1. stack' = <<f>> \o Below /\ createMark' = createMark
    BY <1>5 DEF CreatedRunning, Swap, markVars
  <2>2. f \in Frame /\ f.at = "OnStartGame" /\ f.asked = Top.asked /\ f.mark = Top.mark
    BY <1>2 DEF Frame, Creating
  <2> HIDE DEF f
  <2>3. (Made(f) <=> Top.asked) /\ ~Waits(f)
    BY <2>2 DEF Made, Waits, Creating
  <2> QED BY <1>1, <1>2, <1>4, <2>1, <2>2, <2>3, MarkedPushed
<1>6. CASE EndCreate /\ Top.asked
  <2>1. stack' = <<g>> \o Below /\ createMark' = Top.mark
    BY <1>6 DEF EndCreate, Swap, MarkToRestore
  <2>2. g \in Frame /\ g.at = "OnObjectCreate"
    BY <1>2 DEF Calling, Frame, Handling
  <2> HIDE DEF g
  <2>3. g.at \notin Creating
    BY <2>2 DEF Creating
  <2> QED BY <1>1, <1>2, <1>4, <1>6, <2>1, <2>2, <2>3, MarkedCalm
<1>7. CASE EndCreate /\ ~Top.asked
  <2>1. stack' = Below /\ createMark' = createMark
    BY <1>7 DEF EndCreate
  <2> QED BY <1>1, <1>4, <1>7, <2>1
<1> QED BY <1>5, <1>6, <1>7

\* Deletions, walks and the returns of other callbacks.
LEMMA CalmMarked ==
  ASSUME IInv, Marked(stack, model, createMark), UNCHANGED <<model, createMark>>, stack # <<>>,
         \/ Top.at \notin Creating /\ stack' = Below
         \/ Top.at \notin Creating /\ \E f \in Frame : f.at \notin Creating /\ stack' = <<f>> \o Below
  PROVE  Marked(stack', model', createMark')
<1>1. stack \in Seq(Frame) /\ Below \in Seq(Frame)
  BY FramesAre
<1>2. Below # <<>> => Parent(model, Head(Below))
  BY MarkedBelow
<1>3. ASSUME Top.at \notin Creating PROVE Marked(Below, model, createMark)
  BY <1>3, MarkedBelow DEF Made
<1>4. CASE Top.at \notin Creating /\ stack' = Below
  BY <1>3, <1>4
<1>5. CASE Top.at \notin Creating /\ \E f \in Frame : f.at \notin Creating /\ stack' = <<f>> \o Below
  BY <1>1, <1>2, <1>3, <1>5, MarkedCalm
<1> QED BY <1>4, <1>5

LEMMA DeleteMarked ==
  ASSUME IInv, Marked(stack, model, createMark), NEW o \in Registered(reg), DeleteObject(o),
         stack # <<>> => Parent(model, Head(stack))
  PROVE  Marked(stack', model', createMark')
<1> DEFINE f == Deletion(o, TRUE, deleteMark)
<1>1. /\ UNCHANGED <<model, createMark>>
      /\ stack' = stack \/ stack' = <<f>> \o stack
  BY DEF DeleteObject, Push
<1>2. f \in Frame /\ f.at = "OnObjectDelete"
  <2>1. o \in Object /\ deleteMark \in Models \cup {NoModel}
    BY DEF IInv, Objects
  <2> QED BY <2>1, DeletionIs
<1> HIDE DEF f
<1>3. f.at \notin Creating /\ stack \in Seq(Frame)
  BY <1>2, FramesAre DEF Creating
<1> QED BY <1>1, <1>2, <1>3, MarkedCalm

LEMMA EndDeleteMarked ==
  ASSUME IInv, Marked(stack, model, createMark), EndDelete
  PROVE  Marked(stack', model', createMark')
<1> DEFINE o == Top.obj
<1>1. /\ stack # <<>> /\ Top.at = "OnDelete" /\ stack' = Below /\ createMark' = createMark
      /\ model' = [model EXCEPT ![o] = NoModel]
  BY DEF EndDelete, At, Kill
<1>2. \A g \in Rest : Apart(Top, g) /\ g \in Frame /\ One(g, life, model, reg)
  BY <1>1, FramesAre
<1> HIDE DEF o
<1>3. ASSUME NEW g \in Rest, Waits(g) PROVE model'[g.obj] = model[g.obj]
  <2>1. g.obj # o /\ g.obj \in Object
    BY <1>1, <1>2, <1>3 DEF Apart, Alone, Deleting, Waits, One, Creating, Frame, o
  <2>2. model \in [Object -> Models \cup {NoModel}]
    BY DEF IInv, Objects
  <2> QED BY <1>1, <2>1, <2>2
<1>4. Marked(Below, model, createMark)
  BY <1>1, MarkedBelow DEF Made, Creating
<1> QED BY <1>1, <1>3, <1>4, MarkedObjects DEF Rest

LEMMA CallWalkMarked ==
  ASSUME IInv, Marked(stack, model, createMark), CallStartGame \/ CallStopGame \/ CallPauseGame
  PROVE  Marked(stack', model', createMark')
<1> DEFINE s == Walk("StartGame", FALSE)
           t == Walk("StopGame", FALSE)
           p == Walk("PauseGame", FALSE)
           q == Walk("PauseGame", ~paused)
<1>1. UNCHANGED <<model, createMark>> /\ stack \in Seq(Frame) /\ Parent(model, Head(stack))
  BY FramesAre, AtCallback DEF CallStartGame, CallStopGame, CallPauseGame, MayWalk, engineVars, markVars
<1>2. \A f \in {s, t, p, q} : f \in Frame /\ f.at \notin Creating
  <2> DEFINE u(at, on) == Walk(at, on)
  <2>1. \A at \in Walks, on \in BOOLEAN : u(at, on) \in Frame /\ u(at, on).at \notin Creating
    BY DEF Walk, Calling, Frame, Walks, Creating
  <2> QED BY <2>1 DEF Walks
<1>3. stack' = <<s>> \o stack \/ stack' = <<q>> \o stack
        \/ stack' = <<t>> \o stack \/ stack' = <<p, t>> \o stack
  BY DEF CallStartGame, CallStopGame, CallPauseGame, Push, StopWalks
<1> HIDE DEF s, t, p, q
<1>4. ASSUME NEW f \in {s, t, p, q}
      PROVE  Marked(<<f>> \o stack, model, createMark) /\ <<f>> \o stack \in Seq(Frame)
  <2>1. f \in Frame /\ f.at \notin Creating
    BY <1>2
  <2>2. Marked(<<f>> \o stack, model, createMark)
    BY <1>1, <2>1, MarkedCalm
  <2>3. <<f>> \o stack \in Seq(Frame)
    BY <1>1, <2>1, PushIs
  <2> QED BY <2>2, <2>3
<1>5. Marked(<<p, t>> \o stack, model, createMark)
  <2>1. Marked(<<p>> \o (<<t>> \o stack), model, createMark)
    <3> DEFINE u == <<t>> \o stack
    <3>1. u \in Seq(Frame) /\ Marked(u, model, createMark) /\ Parent(model, Head(u))
      BY <1>1, <1>2, <1>4 DEF Parent, Waits, Creating
    <3> HIDE DEF u
    <3>2. Marked(<<p>> \o u, model, createMark)
      BY <1>2, <3>1, MarkedCalm
    <3> QED BY <3>2 DEF u
  <2> QED BY <1>1, <1>2, <2>1, TwoPushed
<1>6. CASE stack' = <<p, t>> \o stack
  BY <1>1, <1>5, <1>6
<1>7. CASE stack' # <<p, t>> \o stack
  BY <1>1, <1>3, <1>4, <1>7
<1> QED BY <1>6, <1>7

LEMMA VisitMarked ==
  ASSUME IInv, Marked(stack, model, createMark), Visit \/ Return \/ EnginePassed \/ EndOnObjectDelete
  PROVE  Marked(stack', model', createMark')
<1>1. /\ UNCHANGED <<model, createMark>> /\ stack # <<>>
      /\ Top.at \in Walks \cup GameCalls \cup Handling \cup {"engine", "OnObjectDelete"}
  BY DEF Visit, WalkBegin, WalkNext, WalkEnd, Return, EnginePassed, EndOnObjectDelete, At,
     engineVars, markVars
<1>2. Top.at \notin Creating
  BY <1>1 DEF Walks, GameCalls, Handling, Creating
<1>3. Top \in Frame /\ One(Top, life, model, reg)
  BY <1>1, FramesAre
<1>4. CASE Return \/ EnginePassed
  <2>1. stack' = Below
    BY <1>4 DEF Return, EnginePassed
  <2> QED BY <1>1, <1>2, <2>1, CalmMarked
<1>5. CASE Visit \/ EndOnObjectDelete
  <2>1. \E f \in Frame : f.at \notin Creating /\ stack' = <<f>> \o Below
    <3> DEFINE f1 == [Top EXCEPT !.lock = TRUE]
               f2 == [Top EXCEPT !.obj = NextOf(Top)]
               f3 == Calling(IF Top.at = "BaseUpdate" THEN "Update" ELSE "OnGame", NoObject)
               f4 == [Top EXCEPT !.at = "OnDelete", !.lock = locked]
    <3>1. \/ stack' = <<f1>> \o Below
          \/ stack' = <<f2>> \o Below /\ NextOf(Top) # NoObject /\ Top.at \in Walks
          \/ stack' = <<f3>> \o Below
          \/ stack' = <<f4>> \o Below
      BY <1>5 DEF Visit, WalkBegin, WalkNext, WalkEnd, EndOnObjectDelete, Swap
    <3>2. f1 \in Frame /\ f1.at \notin Creating
      BY <1>2, <1>3 DEF Frame
    <3>3. NextOf(Top) # NoObject /\ Top.at \in Walks => f2 \in Frame /\ f2.at \notin Creating
      <4>1. NextOf(Top) # NoObject /\ Top.at \in Walks => NextOf(Top) \in Object
        BY <1>3, NextIs
      <4> QED BY <1>2, <1>3, <4>1 DEF Frame
    <3>4. f3 \in Frame /\ f3.at \notin Creating
      BY DEF Calling, Frame, GameCalls, Creating
    <3>5. f4 \in Frame /\ f4.at \notin Creating
      BY <1>3 DEF Frame, Deleting, Creating, IInv
    <3> HIDE DEF f1, f2, f3, f4
    <3> QED BY <3>1, <3>2, <3>3, <3>4, <3>5
  <2> QED BY <1>1, <1>2, <2>1, CalmMarked
<1> QED BY <1>4, <1>5

LEMMA SpawnMarked ==
  ASSUME IInv, NEW m \in Models, Spawn(m)
  PROVE  Marked(stack', model', createMark')
<1> DEFINE f == Creation(m, FALSE, NoModel)
           e == Calling("engine", NoObject)
<1>1. stack' = <<f>> \o <<e>> /\ createMark' = createMark /\ NewObject \in Object
  BY DEF Spawn, EngineStep, markVars, EngineObject
<1>2. f \in Frame /\ ~f.asked
  BY <1>1, CreationIs
<1>3. e \in Frame /\ e.at = "engine"
  BY EngineIs
<1> HIDE DEF e, f
<1>4. <<e>> \in Seq(Frame) /\ ToSet(<<e>>) = {e} /\ <<e>> # <<>> /\ Head(<<e>>) = e
  BY <1>3, OneFrame
<1>5. Marked(<<e>>, model', createMark)
  BY <1>3, <1>4, MarkedNone DEF Creating
<1>6. /\ ~Made(f) /\ Parent(model', e)
      /\ Other(<<e>>, model', model'[f.obj])
  BY <1>2, <1>3 DEF Made, Other, Parent, Waits, Creating
<1> QED BY <1>1, <1>2, <1>4, <1>5, <1>6, MarkedPushed

LEMMA MarkedNext ==
  ASSUME ~NestedWalks, ~TakesMark, WalkInv, Marked(stack, model, createMark), [Next]_vars
  PROVE  Marked(stack', model', createMark')
<1>1. IInv /\ Nesting(stack)
  BY DEF WalkInv
<1>2. CASE Call
  <2>1. CASE \E o \in Object : CallSetLifeTime(o)
    <3>1. UNCHANGED <<stack, model, createMark>>
      BY <2>1 DEF CallSetLifeTime, markVars
    <3> QED BY <3>1
  <2>2. CASE \E o \in Object : CallDelete(o)
    BY <1>1, <2>2, DeleteMarked, AtCallback DEF CallDelete, Bound
  <2> QED BY <1>1, <1>2, <2>1, <2>2, CallCreateMarked, CallEngineCreateMarked, CallAdoptMarked,
         CallWalkMarked DEF Call
<1>3. CASE Create
  BY <1>1, <1>3, CreateChildMarked, SendCreateMarked, EndCreateMarked DEF Create
<1>4. CASE Delete \/ Visit \/ Return \/ EnginePassed
  BY <1>1, <1>4, EndDeleteMarked, VisitMarked DEF Delete
<1>5. CASE MainLoop /\ ~EnginePassed
  <2>1. CASE \E m \in Models : Spawn(m)
    BY <1>1, <2>1, SpawnMarked
  <2>2. CASE ClearObject
    <3> DEFINE o == GetNextObject(reg.chrono, NoObject)
    <3>1. o # NoObject /\ DeleteObject(o)
      BY <2>2 DEF ClearObject
    <3>2. o \in Registered(reg)
      <4>1. reg.chrono # <<>> /\ o = Head(reg.chrono) /\ reg.chrono \in Seq(Object)
        BY <1>1, <3>1 DEF GetNextObject, IInv, Registry, RegistryState
      <4>2. o = reg.chrono[1] /\ 1 \in DOMAIN reg.chrono
        BY <4>1, PopIs
      <4> QED BY <4>2 DEF Registered, ToSet
    <3>3. stack = <<>>
      BY <2>2 DEF ClearObject, Step
    <3> QED BY <1>1, <3>1, <3>2, <3>3, DeleteMarked
  <2>3. CASE Started
    <3> DEFINE f == Walk("StartGame", FALSE)
    <3>1. stack' = <<f>>
      BY <2>3 DEF Started
    <3>2. f \in Frame /\ f.at \notin Creating
      BY DEF Walk, Calling, Frame, Walks, Creating
    <3> HIDE DEF f
    <3> QED BY <3>1, <3>2, OneFrame, MarkedNone
  <2>4. CASE \A f \in Frames' : f.at \notin Creating
    BY <2>4, MarkedNone DEF Frames
  <2> QED BY <1>1, <1>5, <2>1, <2>2, <2>3, <2>4, LoopAside, EngineDeletesAside DEF MainLoop
<1>6. CASE UNCHANGED vars
  BY <1>6 DEF vars, engineVars, markVars
<1> QED BY <1>2, <1>3, <1>4, <1>5, <1>6 DEF Next, Ended, MainLoop

\* Under the same condition, and if no callback has the engine create an object of the
\* very name that a CreateObject in progress waits for (~TakesMark), the mark of a
\* creation that the game asked for is in place when its event comes, whatever children
\* the engine made for it and whatever else their callbacks created meanwhile, by
\* CreateObject or through the engine: the object is left to the call.
THEOREM MarkedForTheCall ==
  ASSUME ~NestedWalks, ~TakesMark
  PROVE  Spec => []BoundOnce
<1> DEFINE Inv == WalkInv /\ Marked(stack, model, createMark)
<1>1. Inv => BoundOnce
  <2> SUFFICES ASSUME Inv, At("event"), Top.asked PROVE createMark = model[Top.obj]
    BY DEF BoundOnce
  <2>1. IInv /\ Made(Top) /\ Waits(Top) /\ stack # <<>>
    BY DEF WalkInv, At, Made, Waits, Creating
  <2> QED BY <2>1, MarkedBelow
<1>2. Init => Inv
  <2> SUFFICES ASSUME Init PROVE Inv
    OBVIOUS
  <2> DEFINE f == Calling("Init", NoObject)
  <2>1. stack = <<f>> /\ f.at = "Init" /\ f \in Frame
    BY DEF Init, Calling, Frame, GameCalls
  <2> HIDE DEF f
  <2>2. Marked(stack, model, createMark)
    BY <2>1, OneFrame, MarkedNone DEF Creating
  <2> QED BY <2>2, WalkInvInit
<1>3. Inv /\ [Next]_vars => Inv'
  BY WalkInvNext, MarkedNext
<1> QED BY <1>1, <1>2, <1>3, PTL DEF Spec

=============================================================================
