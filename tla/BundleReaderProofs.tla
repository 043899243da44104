-------------------------- MODULE BundleReaderProofs --------------------------
(***************************************************************************)
(* Theorems about BundleReader, for any number of threads, handles and     *)
(* entries.                                                                *)
(***************************************************************************)
EXTENDS BundleReader, WellFoundedInduction, TLAPS

\* A thread's unread resource is the only one, and its handle stands at it; a
\* thread about to build the table of contents has none.
HandleStands ==
  /\ \A t \in Thread : \A h \in Unread(t) : at[t] = res[h].entry
  /\ \A t \in Thread : \A h, g \in Unread(t) : h = g
  /\ \A t \in Thread : pc[t] = "entered" => Unread(t) = {}

\* A buffer holds the resource's own bytes or nothing to copy.
OwnBuffer ==
  \A h \in Handle : /\ res[h].buffer \in {NoBuffer, Failed, res[h].entry}
                    /\ res[h].buffer = Failed => res[h].final = 0

Inv == TypeOK /\ HandleStands /\ OwnBuffer /\ OwnContent

OpenResource == [by : Thread, entry : Entry, final : Nat, cursor : Nat,
                 buffer : Entry \cup {NoBuffer, Failed, Garbage}]

\* Copying from a resource whose buffer is its own keeps every part of the invariant
\* that is about resources.
LEMMA CopyKeeps ==
  ASSUME TypeOK, OwnBuffer, NEW h \in Handle, NEW r \in OpenResource, NEW n \in 0 .. MaxRead,
         r.buffer \in {Failed, r.entry}, r.buffer = Failed => r.final = 0,
         Copy(h, r, n)
  PROVE  /\ res' \in [Handle -> {Closed} \cup OpenResource]
         /\ got' \in [of : Entry \cup {0}, content : Entry \cup {NoBuffer, Failed, Garbage},
                      from : Nat, count : Int]
         /\ OwnBuffer'
         /\ OwnContent'
         /\ res'[h] \in OpenResource /\ res'[h].buffer # NoBuffer
         /\ res' = [res EXCEPT ![h] = res'[h]]
<1> DEFINE c == CopySize(r, n)
           q == [r EXCEPT !.cursor = @ + c]
<1>1. c \in Int /\ r.cursor + c \in Nat /\ (r.buffer = Failed => c <= 0)
  BY ReaderAssumption DEF CopySize, OpenResource
<1>2. r.entry # 0 /\ r.entry \in Entry /\ r.buffer # NoBuffer
  BY ReaderAssumption DEF OpenResource, Entry, NoBuffer, Failed
<1>3. /\ res' = [res EXCEPT ![h] = q]
      /\ got' = [of |-> r.entry, content |-> r.buffer, from |-> r.cursor, count |-> c]
  BY DEF Copy
<1> HIDE DEF c
<1>4. /\ q \in OpenResource /\ q.buffer = r.buffer /\ q.entry = r.entry /\ q.final = r.final
  BY <1>1 DEF OpenResource
<1> HIDE DEF q
<1>5. res \in [Handle -> {Closed} \cup OpenResource]
  BY DEF TypeOK, OpenResource
<1>6. res' \in [Handle -> {Closed} \cup OpenResource] /\ res'[h] = q
  BY <1>3, <1>4, <1>5
<1>7. got' \in [of : Entry \cup {0}, content : Entry \cup {NoBuffer, Failed, Garbage},
                from : Nat, count : Int]
  BY <1>1, <1>2, <1>3 DEF OpenResource
<1>8. OwnBuffer'
  BY <1>3, <1>4, <1>5, <1>6 DEF OwnBuffer
<1>9. OwnContent'
  BY <1>1, <1>3 DEF OwnContent
<1> QED BY <1>2, <1>3, <1>4, <1>6, <1>7, <1>8, <1>9

\* A name that is kept in a set of entries has a first entry there.
LEMMA IndexFinds ==
  ASSUME NEW n \in Name, NEW in \in SUBSET Entry, Stored(n, in) # {}
  PROVE  Index(n, in) \in Stored(n, in)
<1> DEFINE R == {ss \in Nat \X Nat : ss[1] < ss[2]}
<1>1. IsWellFoundedOn(R, Nat)
  BY NatLessThanWellFounded DEF OpToRel
<1>2. Stored(n, in) \subseteq Nat
  <2>1. Stored(n, in) \subseteq Entry
    BY DEF Stored
  <2>2. Entry \subseteq Nat
    BY ReaderAssumption DEF Entry
  <2> QED BY <2>1, <2>2
<1>3. \E e \in Stored(n, in) : \A f \in Stored(n, in) : <<f, e>> \notin R
  <2> HIDE DEF R
  <2> QED BY <1>1, <1>2, WFMin
<1>4. PICK e \in Stored(n, in) : \A f \in Stored(n, in) : <<f, e>> \notin R
  BY <1>3
<1>5. \A f \in Stored(n, in) : e <= f
  <2> TAKE f \in Stored(n, in)
  <2>1. e \in Nat /\ f \in Nat
    BY <1>2
  <2>2. ~(f < e)
    BY <1>4, <2>1
  <2> QED BY <2>1, <2>2
<1> QED BY <1>5 DEF Index

\* Inv holds at the start and every step preserves it, if callers read first.
LEMMA InvInductive ==
  ASSUME ReadFirst
  PROVE  /\ Init => Inv
         /\ Inv /\ [Next]_vars => Inv'
<1>1. ASSUME Init PROVE Inv
  <2>1. TypeOK
    <3>1. got \in [of : Entry \cup {0}, content : Entry \cup {NoBuffer, Failed, Garbage},
                   from : Nat, count : Int]
      BY <1>1 DEF Init, Nothing, NoBuffer
    <3>2. at \in [Thread -> Entry \cup {Unopened, Elsewhere}]
      BY <1>1 DEF Init
    <3>3. want \in [Thread -> Name] /\ answer \in [Thread -> Entry \cup {Null}]
      BY <1>1 DEF Init, Name
    <3> QED BY <1>1, <3>1, <3>2, <3>3 DEF Init, TypeOK
  <2>2. \A t \in Thread : Unread(t) = {}
    BY <1>1 DEF Init, Unread
  <2> QED BY <1>1, <2>1, <2>2
          DEF Init, Inv, HandleStands, OwnBuffer, OwnContent, Closed, Nothing
<1>2. ASSUME Inv, [Next]_vars PROVE Inv'
  <2> USE <1>2
  <2>0. /\ TypeOK /\ HandleStands /\ OwnBuffer
        /\ res \in [Handle -> {Closed} \cup OpenResource]
    BY DEF Inv, TypeOK, OpenResource
  <2>n. Nothing \in [of : Entry \cup {0}, content : Entry \cup {NoBuffer, Failed, Garbage},
                     from : Nat, count : Int]
    BY DEF Nothing, NoBuffer
  <2>l. ASSUME got' = Nothing, UNCHANGED res, TypeOK', HandleStands' PROVE Inv'
    BY <2>0, <2>l DEF Inv, OwnBuffer, OwnContent, Nothing
  <2>1. ASSUME NEW t \in Thread, NEW n \in Name, LocateBegin(t, n) PROVE Inv'
    <3>1. TypeOK'
      BY <2>0, <2>1, <2>n DEF LocateBegin, TypeOK, Null
    <3>2. \A u \in Thread : Unread(u)' = Unread(u)
      BY <2>1 DEF LocateBegin, Unread
    <3>3. HandleStands'
      BY <2>0, <2>1, <3>2 DEF LocateBegin, HandleStands, MayMove, Free, TypeOK
    <3> QED BY <2>1, <2>l, <3>1, <3>3 DEF LocateBegin
  <2>2. ASSUME NEW t \in Thread, NEW n \in Name, LocateBuiltIn(t, n) PROVE Inv'
    <3>1. Index(n, BuiltIn) \in Entry
      <4>1. Stored(n, BuiltIn) # {}
        BY <2>2 DEF LocateBuiltIn, Index
      <4> QED BY <4>1, IndexFinds, ReaderAssumption DEF Stored
    <3>2. TypeOK'
      BY <2>0, <2>2, <2>n, <3>1 DEF LocateBuiltIn, TypeOK
    <3>3. \A u \in Thread : Unread(u)' = Unread(u)
      BY <2>2 DEF LocateBuiltIn, Unread
    <3>4. HandleStands'
      BY <2>0, <2>2, <3>3 DEF LocateBuiltIn, HandleStands, TypeOK
    <3> QED BY <2>2, <2>l, <3>2, <3>4 DEF LocateBuiltIn
  <2>3. ASSUME NEW t \in Thread, LocateToC(t) PROVE Inv'
    <3>1. TypeOK'
      BY <2>0, <2>3, <2>n DEF LocateToC, TypeOK
    <3>2. \A u \in Thread : Unread(u)' = Unread(u)
      BY <2>3 DEF LocateToC, Unread
    <3>3. HandleStands'
      BY <2>0, <2>3, <3>2 DEF LocateToC, HandleStands, TypeOK
    <3> QED BY <2>3, <2>l, <3>1, <3>3 DEF LocateToC
  <2>4. ASSUME NEW t \in Thread, LocateEnd(t) PROVE Inv'
    <3>1. Index(want[t], InFile) \in Entry \cup {Null}
      <4>1. want[t] \in Name /\ InFile \in SUBSET Entry
        BY <2>0 DEF TypeOK, InFile
      <4>2. CASE Stored(want[t], InFile) = {}
        BY <4>2 DEF Index
      <4>3. CASE Stored(want[t], InFile) # {}
        BY <4>1, <4>3, IndexFinds DEF Stored, InFile
      <4> QED BY <4>2, <4>3
    <3>2. TypeOK'
      BY <2>0, <2>4, <2>n, <3>1 DEF LocateEnd, TypeOK
    <3>3. \A u \in Thread : Unread(u)' = Unread(u)
      BY <2>4 DEF LocateEnd, Unread
    <3>4. HandleStands'
      BY <2>0, <2>4, <3>3 DEF LocateEnd, HandleStands, TypeOK
    <3> QED BY <2>4, <2>l, <3>2, <3>4 DEF LocateEnd
  <2>5. ASSUME NEW t \in Thread, LocateCopy(t) PROVE Inv'
    <3>1. TypeOK'
      BY <2>0, <2>5, <2>n DEF LocateCopy, TypeOK
    <3>2. \A u \in Thread : Unread(u)' = Unread(u)
      BY <2>5 DEF LocateCopy, Unread
    <3>3. HandleStands'
      BY <2>0, <2>5, <3>2 DEF LocateCopy, HandleStands, TypeOK
    <3> QED BY <2>5, <2>l, <3>1, <3>3 DEF LocateCopy
  <2>6. ASSUME NEW t \in Thread, NEW h \in Handle, NEW e \in Entry, Open(t, h, e) PROVE Inv'
    <3> DEFINE r == [by |-> t, entry |-> e, final |-> Final[e], cursor |-> 0, buffer |-> NoBuffer]
    <3>1. r \in OpenResource
      BY ReaderAssumption DEF OpenResource
    <3>2. res' = [res EXCEPT ![h] = r] /\ res' \in [Handle -> {Closed} \cup OpenResource]
      BY <2>0, <2>6, <3>1 DEF Open
    <3>3. at' \in [Thread -> Entry \cup {Unopened, Elsewhere}]
      BY <2>0, <2>6 DEF Open, LeaveAt, TypeOK
    <3>4. TypeOK'
      BY <2>0, <2>6, <2>n, <3>2, <3>3 DEF Open, TypeOK, OpenResource, locate
    <3>5. OwnBuffer' /\ OwnContent'
      <4>1. r.buffer = NoBuffer /\ NoBuffer # Failed
        BY DEF NoBuffer, Failed
      <4> HIDE DEF r
      <4>2. OwnBuffer'
        BY <2>0, <3>2, <4>1 DEF OwnBuffer
      <4> QED BY <2>6, <4>2 DEF Open, OwnContent, Nothing
    <3>6. Unread(t) = {} /\ pc[t] \in {"idle", "located"}
      BY <2>6 DEF Open, MayMove, Free
    <3>7. \A u \in Thread : Unread(u)' = IF u = t /\ e \notin BuiltIn THEN {h} ELSE Unread(u)
      <4>1. ASSUME NEW u \in Thread, NEW g \in Handle, g # h
            PROVE  g \in Unread(u)' <=> g \in Unread(u)
        BY <2>0, <3>2, <4>1 DEF Unread
      <4>2. ASSUME NEW u \in Thread
            PROVE  h \in Unread(u)' <=> u = t /\ e \notin BuiltIn
        <5>1. res'[h] = r /\ r.by = t /\ r.entry = e /\ r.buffer = NoBuffer
          BY <2>0, <3>2
        <5>2. r # Closed
          BY ReaderAssumption DEF Closed, Entry
        <5> QED BY <5>1, <5>2 DEF Unread
      <4>3. \A u \in Thread : h \notin Unread(u)
        BY <2>6 DEF Open, Unread
      <4>4. \A u \in Thread : Unread(u) \subseteq Handle /\ Unread(u)' \subseteq Handle
        BY DEF Unread
      <4> TAKE u \in Thread
      <4>5. CASE u = t /\ e \notin BuiltIn
        BY <3>6, <4>1, <4>2, <4>4, <4>5
      <4>6. CASE ~(u = t /\ e \notin BuiltIn)
        <5>1. \A g \in Handle : g \in Unread(u)' <=> g \in Unread(u)
          BY <4>1, <4>2, <4>3, <4>6
        <5> QED BY <4>4, <4>6, <5>1
      <4> QED BY <4>5, <4>6
    <3>8. HandleStands'
      <4>1. \A u \in Thread : \A g \in Unread(u)' : at'[u] = res'[g].entry
        <5> TAKE u \in Thread
        <5> TAKE g \in Unread(u)'
        <5>1. CASE u = t /\ e \notin BuiltIn
          BY <2>0, <2>6, <3>2, <3>7, <5>1 DEF Open, LeaveAt, TypeOK
        <5>2. CASE ~(u = t /\ e \notin BuiltIn)
          <6>1. g \in Unread(u) /\ g # h
            BY <2>6, <3>7, <5>2 DEF Open, Unread
          <6>2. at'[u] = at[u] /\ res'[g] = res[g]
            BY <2>0, <2>6, <3>2, <5>2, <6>1 DEF Open, LeaveAt, TypeOK, Unread
          <6> QED BY <2>0, <6>1, <6>2 DEF HandleStands
        <5> QED BY <5>1, <5>2
      <4>2. \A u \in Thread : \A g, k \in Unread(u)' : g = k
        BY <2>0, <3>7 DEF HandleStands
      <4>3. \A u \in Thread : pc'[u] = "entered" => Unread(u)' = {}
        BY <2>0, <2>6, <3>6, <3>7 DEF Open, HandleStands, locate
      <4> QED BY <4>1, <4>2, <4>3 DEF HandleStands
    <3> QED BY <3>4, <3>5, <3>8 DEF Inv
  <2>7. ASSUME NEW h \in Handle, NEW n \in 0 .. MaxRead, FirstRead(h, n) PROVE Inv'
    <3>1. /\ res[h] \in OpenResource /\ res[h] # Closed /\ res[h].buffer = NoBuffer
      BY <2>0, <2>7 DEF FirstRead, Called
    <3>2. res[h].by \in Thread /\ res[h].entry \in Entry
      BY <3>1 DEF OpenResource
    <3>3. PICK d \in Decoded(res[h]) : Copy(h, Load(res[h], d), n)
      BY <2>7 DEF FirstRead
    <3>4. d \in {Failed, res[h].entry}
      <4>1. CASE res[h].entry \in BuiltIn
        BY <3>2, <3>3, <4>1 DEF Decoded
      <4>2. CASE res[h].entry \notin BuiltIn
        <5>1. at[res[h].by] = res[h].entry
          BY <2>0, <3>1, <3>2, <4>2 DEF HandleStands, Unread
        <5> QED BY <3>2, <3>3, <4>2, <5>1 DEF Decoded
      <4> QED BY <4>1, <4>2
    <3> DEFINE r == Load(res[h], d)
    <3>5. /\ r \in OpenResource /\ r.by = res[h].by /\ r.entry = res[h].entry
          /\ r.buffer = d /\ (d = Failed => r.final = 0)
      BY <3>1, <3>2, <3>4 DEF Load, OpenResource
    <3> HIDE DEF r
    <3>6. Copy(h, r, n)
      BY <3>3 DEF r
    <3>7. /\ res' \in [Handle -> {Closed} \cup OpenResource]
          /\ got' \in [of : Entry \cup {0}, content : Entry \cup {NoBuffer, Failed, Garbage},
                       from : Nat, count : Int]
          /\ OwnBuffer' /\ OwnContent'
          /\ res'[h].buffer # NoBuffer /\ res' = [res EXCEPT ![h] = res'[h]]
      BY <2>0, <3>4, <3>5, <3>6, CopyKeeps
    <3>8. TypeOK'
      <4>1. at' \in [Thread -> Entry \cup {Unopened, Elsewhere}]
        BY <2>0, <2>7 DEF FirstRead, TypeOK
      <4> QED BY <2>0, <2>7, <3>7, <4>1 DEF FirstRead, TypeOK, OpenResource, locate
    <3>9. \A u \in Thread : Unread(u)' = Unread(u) \ {h}
      BY <2>0, <3>7 DEF Unread
    <3>10. HandleStands'
      <4>1. \A u \in Thread : \A g \in Unread(u)' : at'[u] = res'[g].entry
        <5> TAKE u \in Thread
        <5> TAKE g \in Unread(u)'
        <5>1. g \in Unread(u) /\ g # h /\ g \in Handle
          BY <3>9 DEF Unread
        <5>2. res'[g] = res[g]
          BY <3>7, <5>1
        <5>3. at'[u] = at[u]
          <6>1. CASE res[h].entry \in BuiltIn
            BY <2>7, <6>1 DEF FirstRead
          <6>2. CASE res[h].entry \notin BuiltIn
            <7>1. h \in Unread(res[h].by)
              BY <3>1, <6>2 DEF Unread
            <7>2. u # res[h].by
              BY <2>0, <3>2, <5>1, <7>1 DEF HandleStands
            <7> QED BY <2>0, <2>7, <7>2 DEF FirstRead, TypeOK
          <6> QED BY <6>1, <6>2
        <5> QED BY <2>0, <5>1, <5>2, <5>3 DEF HandleStands
      <4> QED BY <2>0, <2>7, <3>9, <4>1 DEF HandleStands, FirstRead, locate
    <3> QED BY <3>7, <3>8, <3>10 DEF Inv
  <2>8. ASSUME NEW h \in Handle, NEW n \in 0 .. MaxRead, LaterRead(h, n) PROVE Inv'
    <3>1. /\ res[h] \in OpenResource /\ res[h].buffer \in {Failed, res[h].entry}
          /\ res[h].buffer = Failed => res[h].final = 0
      BY <2>0, <2>8 DEF LaterRead, Called, OwnBuffer
    <3>2. /\ res' \in [Handle -> {Closed} \cup OpenResource]
          /\ got' \in [of : Entry \cup {0}, content : Entry \cup {NoBuffer, Failed, Garbage},
                       from : Nat, count : Int]
          /\ OwnBuffer' /\ OwnContent'
          /\ res'[h].buffer # NoBuffer /\ res' = [res EXCEPT ![h] = res'[h]]
      BY <2>0, <2>8, <3>1, CopyKeeps DEF LaterRead
    <3>3. TypeOK'
      BY <2>0, <2>8, <3>2 DEF LaterRead, TypeOK, OpenResource, locate
    <3>4. \A u \in Thread : Unread(u)' = Unread(u)
      BY <2>0, <2>8, <3>2 DEF Unread, LaterRead
    <3>5. \A g \in Handle : g # h => res'[g] = res[g]
      BY <3>2
    <3>6. \A u \in Thread : h \notin Unread(u)
      BY <2>8 DEF LaterRead, Called, Unread
    <3>7. HandleStands'
      BY <2>0, <2>8, <3>4, <3>5, <3>6 DEF HandleStands, LaterRead, locate, Unread
    <3> QED BY <3>2, <3>3, <3>7 DEF Inv
  <2>9. ASSUME NEW h \in Handle, NEW offset \in Int, NEW whence \in Whence, Seek(h, offset, whence)
        PROVE  Inv'
    <3> DEFINE to == SeekTarget(res[h], offset, whence)
               q  == [res[h] EXCEPT !.cursor = to]
    <3>1. res[h] \in OpenResource
      BY <2>0, <2>9 DEF Seek, Called
    <3>2. to \in Nat
      BY <2>9, <3>1 DEF Seek, Seekable, SeekTarget, OpenResource, Whence
    <3>3. res' = [res EXCEPT ![h].cursor = to]
      BY <2>9 DEF Seek
    <3> HIDE DEF to
    <3>4. /\ q \in OpenResource /\ q.by = res[h].by /\ q.entry = res[h].entry
          /\ q.buffer = res[h].buffer /\ q.final = res[h].final
      BY <3>1, <3>2 DEF OpenResource
    <3>5. res' = [res EXCEPT ![h] = q]
      BY <2>0, <3>3
    <3> HIDE DEF q
    <3>6. res' \in [Handle -> {Closed} \cup OpenResource]
      BY <2>0, <3>4, <3>5
    <3>7. TypeOK'
      BY <2>0, <2>9, <2>n, <3>6 DEF Seek, TypeOK, OpenResource, locate
    <3>8. OwnBuffer' /\ OwnContent'
      BY <2>0, <2>9, <3>4, <3>5 DEF Seek, OwnBuffer, OwnContent, Nothing
    <3>9. q # Closed /\ res[h] # Closed
      BY <3>1, <3>4, ReaderAssumption DEF Closed, OpenResource, Entry
    <3>10. \A u \in Thread : Unread(u)' = Unread(u)
      BY <2>0, <3>4, <3>5, <3>9 DEF Unread
    <3>11. \A g \in Handle : res'[g].entry = res[g].entry
      BY <2>0, <3>4, <3>5
    <3>12. HandleStands'
      BY <2>0, <2>9, <3>10, <3>11 DEF HandleStands, Seek, locate, Unread
    <3> QED BY <3>7, <3>8, <3>12 DEF Inv
  <2>10. ASSUME NEW h \in Handle, Close(h) PROVE Inv'
    <3>1. res' = [res EXCEPT ![h] = Closed] /\ res' \in [Handle -> {Closed} \cup OpenResource]
      BY <2>0, <2>10 DEF Close
    <3>2. TypeOK'
      BY <2>0, <2>10, <2>n, <3>1 DEF Close, TypeOK, OpenResource, locate
    <3>3. OwnBuffer' /\ OwnContent'
      BY <2>0, <2>10, <3>1 DEF Close, OwnBuffer, OwnContent, Nothing, Closed
    <3>4. \A u \in Thread : Unread(u)' \subseteq Unread(u) \ {h}
      BY <2>0, <3>1 DEF Unread
    <3>5. HandleStands'
      BY <2>0, <2>10, <3>1, <3>4 DEF HandleStands, Close, locate, Unread
    <3> QED BY <3>2, <3>3, <3>5 DEF Inv
  <2>11. CASE UNCHANGED vars
    BY <2>0, <2>11 DEF vars, locate, Inv, TypeOK, HandleStands, Unread, OwnBuffer, OwnContent
  <2>12. -MaxRead .. MaxRead \subseteq Int
    OBVIOUS
  <2> QED BY <2>1, <2>2, <2>3, <2>4, <2>5, <2>6, <2>7, <2>8, <2>9, <2>10, <2>11, <2>12 DEF Next
<1> QED BY <1>1, <1>2

\* If callers read a resource before they open or locate another on the same thread,
\* a read never returns bytes of another resource, whatever the threads, the bundle
\* and the order of their calls.
THEOREM ReadsOwnContent == ReadFirst => (Spec => []OwnContent)
<1>1. Inv => OwnContent
  BY DEF Inv
<1>2. ASSUME ReadFirst PROVE Spec => []OwnContent
  <2>1. Init => Inv
    BY <1>2, InvInductive
  <2>2. Inv /\ [Next]_vars => Inv'
    BY <1>2, InvInductive
  <2> QED BY <1>1, <2>1, <2>2, PTL DEF Spec
<1> QED BY <1>2

\* The reader's state is well typed in every reachable state: no cursor is negative.
THEOREM TypeCorrect == ReadFirst => (Spec => []TypeOK)
<1>1. Inv => TypeOK
  BY DEF Inv
<1>2. ASSUME ReadFirst PROVE Spec => []TypeOK
  <2>1. Init => Inv
    BY <1>2, InvInductive
  <2>2. Inv /\ [Next]_vars => Inv'
    BY <1>2, InvInductive
  <2> QED BY <1>1, <2>1, <2>2, PTL DEF Spec
<1> QED BY <1>2

-----------------------------------------------------------------------------
\* What callers see of the open resources.
Bar == [h \in Handle |-> [entry |-> res[h].entry, cursor |-> res[h].cursor]]

\* Where every resource decompresses, an open one has its final size, its cursor within
\* it, and its own bytes or none yet.
Whole ==
  \A h \in Handle : res[h] # Closed =>
    /\ res[h].final = Final[res[h].entry]
    /\ res[h].cursor <= res[h].final
    /\ res[h].buffer \in {NoBuffer, res[h].entry}

\* Giving a handle a resource changes what is seen of that handle.
LEMMA BarAt ==
  ASSUME TypeOK, NEW h \in Handle, NEW r, res' = [res EXCEPT ![h] = r]
  PROVE  Bar' = [Bar EXCEPT ![h] = [entry |-> r.entry, cursor |-> r.cursor]]
BY DEF TypeOK, Bar

\* The handles that the promise takes for closed are those that are.
LEMMA BarClosed ==
  ASSUME TypeOK, NEW h \in Handle
  PROVE  Bar[h] = Promised!Closed <=> res[h] = Closed
<1>1. CASE res[h] = Closed
  BY <1>1 DEF Bar, Promised!Closed, Closed
<1>2. CASE res[h] # Closed
  <2>1. res[h].entry \in Entry
    BY <1>2 DEF TypeOK
  <2>2. Bar[h].entry # 0
    BY <2>1, ReaderAssumption DEF Bar, Entry
  <2> QED BY <1>2, <2>2 DEF Promised!Closed
<1> QED BY <1>1, <1>2

\* A read that copies from a whole resource is a read of the promise.
LEMMA CopyIsRead ==
  ASSUME TypeOK, Whole, NEW h \in Handle, NEW r \in OpenResource, NEW n \in 0 .. MaxRead,
         res[h] # Closed, r.entry = res[h].entry, r.cursor = res[h].cursor,
         r.final = Final[r.entry], r.cursor <= r.final, r.buffer = r.entry,
         Copy(h, r, n)
  PROVE  Whole' /\ Promised!Next
<1> DEFINE c == CopySize(r, n)
           q == [r EXCEPT !.cursor = @ + c]
<1>1. /\ r.entry \in Entry /\ r.cursor \in Nat /\ r.final \in Nat
      /\ Final[r.entry] \in Nat
  BY ReaderAssumption DEF OpenResource
<1>2. c \in 0 .. r.final /\ r.cursor + c \in Nat /\ r.cursor + c <= r.final
  BY <1>1, ReaderAssumption DEF CopySize
<1>3. /\ res' = [res EXCEPT ![h] = q]
      /\ got' = [of |-> r.entry, content |-> r.buffer, from |-> r.cursor, count |-> c]
  BY DEF Copy
<1> HIDE DEF c
<1>4. /\ q.entry = r.entry /\ q.cursor = r.cursor + c /\ q.buffer = r.buffer /\ q.final = r.final
  BY <1>1 DEF OpenResource
<1>5. Bar[h] = [entry |-> r.entry, cursor |-> r.cursor]
  BY DEF Bar
<1> HIDE DEF q
<1>6. Bar' = [Bar EXCEPT ![h] = [entry |-> r.entry, cursor |-> r.cursor + c]]
  <2>1. Bar' = [Bar EXCEPT ![h] = [entry |-> q.entry, cursor |-> q.cursor]]
    BY <1>3, BarAt
  <2> QED BY <1>4, <2>1
<1>7. Bar[h] # Promised!Closed
  BY BarClosed
<1>8. Promised!Read(h, c)
  <2>1. Bar' = [Bar EXCEPT ![h].cursor = @ + c]
    BY <1>5, <1>6 DEF Bar
  <2> QED BY <1>1, <1>2, <1>3, <1>5, <1>7, <2>1 DEF Promised!Read, Bar
<1>9. Whole'
  <2>1. \A g \in Handle : g # h => res'[g] = res[g]
    BY <1>3 DEF TypeOK
  <2>2. res'[h] = q
    BY <1>3 DEF TypeOK
  <2> QED BY <1>1, <1>2, <1>4, <2>1, <2>2 DEF Whole
<1>10. r.entry \in Entry /\ c \in 0 .. Final[r.entry]
  BY <1>1, <1>2
<1> QED BY <1>8, <1>9, <1>10 DEF Promised!Next

\* Every step of the reader keeps the resources whole and is a step of the promise.
LEMMA StepIsPromised ==
  ASSUME ReadFirst, Undecodable = {}, Inv, Whole, [Next]_vars
  PROVE  Whole' /\ [Promised!Next]_(Promised!vars)
<1>0. /\ TypeOK /\ HandleStands /\ OwnBuffer
      /\ res \in [Handle -> {Closed} \cup OpenResource]
  BY DEF Inv, TypeOK, OpenResource
<1>l. ASSUME got' = Nothing, UNCHANGED res PROVE Whole' /\ Promised!Next
  BY <1>l DEF Whole, Promised!Next, Promised!Other, Promised!Nothing, Nothing
<1>1. ASSUME NEW t \in Thread, NEW n \in Name, LocateBegin(t, n) \/ LocateBuiltIn(t, n)
      PROVE  Whole' /\ Promised!Next
  BY <1>1, <1>l DEF LocateBegin, LocateBuiltIn
<1>2. ASSUME NEW t \in Thread, LocateToC(t) \/ LocateEnd(t) \/ LocateCopy(t)
      PROVE  Whole' /\ Promised!Next
  BY <1>2, <1>l DEF LocateToC, LocateEnd, LocateCopy
<1>3. ASSUME NEW t \in Thread, NEW h \in Handle, NEW e \in Entry, Open(t, h, e)
      PROVE  Whole' /\ Promised!Next
  <2> DEFINE r == [by |-> t, entry |-> e, final |-> Final[e], cursor |-> 0, buffer |-> NoBuffer]
  <2>1. res[h] = Closed /\ res' = [res EXCEPT ![h] = r] /\ got' = Nothing
    BY <1>3 DEF Open
  <2>2. /\ r.entry = e /\ r.final = Final[e] /\ r.cursor = 0 /\ r.buffer = NoBuffer
        /\ Final[e] \in Nat
    BY ReaderAssumption
  <2> HIDE DEF r
  <2>3. Bar' = [Bar EXCEPT ![h] = [entry |-> e, cursor |-> 0]]
    BY <1>0, <2>1, <2>2, BarAt
  <2>4. Bar[h] = Promised!Closed
    BY <1>0, <2>1, BarClosed
  <2>5. Promised!Open(h, e)
    BY <2>1, <2>3, <2>4 DEF Promised!Open, Promised!Nothing, Nothing, Bar
  <2>6. Whole'
    BY <1>0, <2>1, <2>2 DEF Whole
  <2> QED BY <2>5, <2>6 DEF Promised!Next
<1>4. ASSUME NEW h \in Handle, NEW n \in 0 .. MaxRead, FirstRead(h, n)
      PROVE  Whole' /\ Promised!Next
  <2>1. /\ res[h] \in OpenResource /\ res[h] # Closed /\ res[h].buffer = NoBuffer
    BY <1>0, <1>4 DEF FirstRead, Called
  <2>2. res[h].by \in Thread /\ res[h].entry \in Entry
    BY <2>1 DEF OpenResource
  <2>3. PICK d \in Decoded(res[h]) : Copy(h, Load(res[h], d), n)
    BY <1>4 DEF FirstRead
  <2>4. d = res[h].entry
    <3>1. CASE res[h].entry \in BuiltIn
      BY <2>2, <2>3, <3>1 DEF Decoded
    <3>2. CASE res[h].entry \notin BuiltIn
      <4>1. at[res[h].by] = res[h].entry
        BY <1>0, <2>1, <2>2, <3>2 DEF HandleStands, Unread
      <4> QED BY <2>2, <2>3, <3>2, <4>1 DEF Decoded
    <3> QED BY <3>1, <3>2
  <2>5. d # Failed
    BY <2>2, <2>4, ReaderAssumption DEF Entry, Failed
  <2> DEFINE r == Load(res[h], d)
  <2>6. /\ r \in OpenResource /\ r.entry = res[h].entry /\ r.cursor = res[h].cursor
        /\ r.final = res[h].final /\ r.buffer = d
    BY <2>1, <2>2, <2>4, <2>5 DEF Load, OpenResource
  <2>7. Copy(h, r, n)
    BY <2>3
  <2>8. res[h].final = Final[res[h].entry] /\ res[h].cursor <= res[h].final
    BY <2>1 DEF Whole
  <2> HIDE DEF r
  <2> QED BY <1>0, <2>1, <2>4, <2>6, <2>7, <2>8, CopyIsRead
<1>5. ASSUME NEW h \in Handle, NEW n \in 0 .. MaxRead, LaterRead(h, n)
      PROVE  Whole' /\ Promised!Next
  <2>1. /\ res[h] \in OpenResource /\ res[h] # Closed /\ res[h].buffer # NoBuffer
        /\ Copy(h, res[h], n)
    BY <1>0, <1>5 DEF LaterRead, Called
  <2>2. /\ res[h].final = Final[res[h].entry] /\ res[h].cursor <= res[h].final
        /\ res[h].buffer = res[h].entry
    BY <2>1 DEF Whole
  <2> QED BY <1>0, <2>1, <2>2, CopyIsRead
<1>6. ASSUME NEW h \in Handle, NEW offset \in -MaxRead .. MaxRead, NEW whence \in Whence,
             Seek(h, offset, whence)
      PROVE  Whole' /\ Promised!Next
  <2>1. res[h] \in OpenResource /\ res[h] # Closed /\ res[h].entry \in Entry
    BY <1>0, <1>6 DEF Seek, Called, OpenResource
  <2>2. SeekTarget(res[h], offset, whence) \in Int
    BY <1>6, <2>1, ReaderAssumption DEF SeekTarget, OpenResource, Whence
  <2> PICK to \in Int : to = SeekTarget(res[h], offset, whence)
    BY <2>2
  <2> DEFINE q == [res[h] EXCEPT !.cursor = to]
  <2>3. /\ to \in 0 .. Final[res[h].entry] /\ to <= res[h].final
        /\ Final[res[h].entry] \in Nat /\ res[h].final = Final[res[h].entry]
    BY <1>6, <2>1, <2>2, ReaderAssumption DEF Seek, Seekable, Whole
  <2>4. res' = [res EXCEPT ![h] = q] /\ got' = Nothing
    BY <1>0, <1>6 DEF Seek
  <2>5. /\ q.entry = res[h].entry /\ q.cursor = to /\ q.buffer = res[h].buffer
        /\ q.final = res[h].final
    BY <2>1 DEF OpenResource
  <2> HIDE DEF q
  <2>6. Bar' = [Bar EXCEPT ![h] = [entry |-> res[h].entry, cursor |-> to]]
    BY <1>0, <2>4, <2>5, BarAt
  <2>7. Bar' = [Bar EXCEPT ![h].cursor = to]
    BY <2>6 DEF Bar
  <2>8. Bar[h] # Promised!Closed /\ Bar[h].entry = res[h].entry
    BY <1>0, <2>1, BarClosed DEF Bar
  <2>9. Promised!Seek(h, to)
    BY <2>3, <2>4, <2>7, <2>8 DEF Promised!Seek, Promised!Nothing, Nothing, Bar
  <2>10. Whole'
    <3>1. \A g \in Handle : g # h => res'[g] = res[g]
      BY <1>0, <2>4
    <3>2. res'[h] = q
      BY <1>0, <2>4
    <3> QED BY <2>1, <2>3, <2>5, <3>1, <3>2 DEF Whole
  <2>11. \E e \in Entry : \E m \in 0 .. Final[e] : Promised!Seek(h, m)
    BY <2>1, <2>3, <2>9
  <2> QED BY <2>10, <2>11 DEF Promised!Next
<1>7. ASSUME NEW h \in Handle, Close(h)
      PROVE  Whole' /\ Promised!Next
  <2>1. res[h] # Closed /\ res' = [res EXCEPT ![h] = Closed] /\ got' = Nothing
    BY <1>7 DEF Close, Called
  <2>2. Bar' = [Bar EXCEPT ![h] = Promised!Closed]
    BY <1>0, <2>1, BarAt DEF Closed, Promised!Closed
  <2>3. Bar[h] # Promised!Closed
    BY <1>0, <2>1, BarClosed
  <2>4. Promised!Close(h)
    BY <2>1, <2>2, <2>3 DEF Promised!Close, Promised!Nothing, Nothing, Bar
  <2>5. Whole'
    BY <1>0, <2>1 DEF Whole
  <2> QED BY <2>4, <2>5 DEF Promised!Next
<1>8. ASSUME UNCHANGED vars PROVE Whole' /\ UNCHANGED Promised!vars
  BY <1>8 DEF vars, Whole, Promised!vars
<1> QED BY <1>1, <1>2, <1>3, <1>4, <1>5, <1>6, <1>7, <1>8 DEF Next

\* If callers read first and every resource decompresses, the bundle keeps what a
\* resource type promises, for any threads, handles and entries: handles do not disturb
\* each other, and a read returns the resource's bytes from the handle's own cursor.
THEOREM KeepsThePromise ==
  ReadFirst /\ Undecodable = {} => (Spec => ImplementsResourceReader)
<1> SUFFICES ASSUME ReadFirst, Undecodable = {} PROVE Spec => ImplementsResourceReader
  OBVIOUS
<1>1. Init => Inv /\ Whole
  BY InvInductive DEF Init, Whole
<1>2. Inv /\ Whole /\ [Next]_vars => Inv' /\ Whole' /\ [Promised!Next]_(Promised!vars)
  BY InvInductive, StepIsPromised
<1>3. Init => Promised!Init
  BY DEF Init, Promised!Init, Promised!Closed, Promised!Nothing, Closed, Nothing
<1> QED BY <1>1, <1>2, <1>3, PTL DEF Spec, ImplementsResourceReader, Promised!Spec

-----------------------------------------------------------------------------
\* One thread's Locate, step by step: nobody else holds the flag it would stop at, and
\* the buffer still holds what it put there when its caller reads it.
OneLocate ==
  /\ want \in [Thread -> Name] /\ pc \in [Thread -> {"idle", "entered", "indexed", "returned", "located"}]
  /\ answer \in [Thread -> Entry \cup {Null}]
  /\ location \in Entry \cup {Null}
  /\ \A t \in Thread :
       /\ locating => pc[t] = "indexed"
       /\ pc[t] \in {"entered", "indexed"} => answer[t] = Null
       /\ pc[t] = "returned" => location \in Entry /\ NameOf[location] = want[t]
  /\ LocateFinds

\* A name that is kept has the index of an entry of that name, another none.
LEMMA IndexIs ==
  ASSUME NEW n \in Name, NEW in \in SUBSET Entry
  PROVE  IF Stored(n, in) = {} THEN Index(n, in) = Null
         ELSE Index(n, in) \in Entry /\ Index(n, in) # Null /\ NameOf[Index(n, in)] = n
<1>1. CASE Stored(n, in) = {}
  BY <1>1 DEF Index
<1>2. CASE Stored(n, in) # {}
  <2>1. Index(n, in) \in Stored(n, in)
    BY <1>2, IndexFinds
  <2>2. Index(n, in) \in in /\ NameOf[Index(n, in)] = n
    BY <2>1 DEF Stored
  <2>3. \A e \in Entry : e # Null
    BY ReaderAssumption DEF Entry, Null
  <2> QED BY <1>2, <2>2, <2>3
<1> QED BY <1>1, <1>2

\* Where one thread uses the bundle, Locate finds every name that is kept and no other,
\* and its caller gets the entry that was found.
THEOREM OneThreadLocates ==
  (\A t, u \in Thread : t = u) => (Spec => []LocateFinds)
<1> SUFFICES ASSUME \A t, u \in Thread : t = u PROVE Spec => []LocateFinds
  OBVIOUS
<1>1. Init => OneLocate
  BY DEF Init, OneLocate, LocateFinds, Name
<1>2. ASSUME OneLocate, [Next]_vars PROVE OneLocate'
  <2> USE <1>2
  <2>1. ASSUME NEW t \in Thread, NEW n \in Name, LocateBegin(t, n) PROVE OneLocate'
    <3>1. ~locating
      BY <2>1 DEF LocateBegin, MayMove, Free, OneLocate
    <3> QED BY <2>1, <3>1 DEF LocateBegin, OneLocate, LocateFinds, Null
  <2>2. ASSUME NEW t \in Thread, NEW n \in Name, LocateBuiltIn(t, n) PROVE OneLocate'
    <3>1. Index(n, BuiltIn) \in Entry /\ NameOf[Index(n, BuiltIn)] = n
      BY <2>2, IndexIs, ReaderAssumption DEF LocateBuiltIn
    <3>2. ~locating
      BY <2>2 DEF LocateBuiltIn, MayMove, Free, OneLocate
    <3> QED BY <2>2, <3>1, <3>2 DEF LocateBuiltIn, OneLocate, LocateFinds
  <2>3. ASSUME NEW t \in Thread, LocateToC(t) PROVE OneLocate'
    BY <2>3 DEF LocateToC, OneLocate, LocateFinds
  <2>4. ASSUME NEW t \in Thread, LocateEnd(t) PROVE OneLocate'
    <3>1. want[t] \in Name /\ InFile \in SUBSET Entry
      BY DEF OneLocate, InFile
    <3>2. CASE Stored(want[t], InFile) = {}
      <4>1. Index(want[t], InFile) = Null
        BY <3>1, <3>2, IndexIs
      <4> QED BY <2>4, <3>2, <4>1 DEF LocateEnd, OneLocate, LocateFinds
    <3>3. CASE Stored(want[t], InFile) # {}
      <4>1. /\ Index(want[t], InFile) \in Entry /\ Index(want[t], InFile) # Null
            /\ NameOf[Index(want[t], InFile)] = want[t]
        BY <3>1, <3>3, IndexIs
      <4> QED BY <2>4, <4>1 DEF LocateEnd, OneLocate, LocateFinds
    <3> QED BY <3>2, <3>3
  <2>5. ASSUME NEW t \in Thread, LocateCopy(t) PROVE OneLocate'
    BY <2>5, ReaderAssumption DEF LocateCopy, OneLocate, LocateFinds, Entry, Null
  <2>6. ASSUME UNCHANGED locate PROVE OneLocate'
    BY <2>6 DEF locate, OneLocate, LocateFinds
  <2> QED BY <2>1, <2>2, <2>3, <2>4, <2>5, <2>6
          DEF Next, Open, FirstRead, LaterRead, Seek, Close, vars
<1>3. OneLocate => LocateFinds
  BY DEF OneLocate
<1> QED BY <1>1, <1>2, <1>3, PTL DEF Spec
=============================================================================
