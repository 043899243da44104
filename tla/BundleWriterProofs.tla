-------------------------- MODULE BundleWriterProofs --------------------------
(***************************************************************************)
(* Theorems about BundleWriter, for any resources, sizes and rules.        *)
(***************************************************************************)
EXTENDS BundleWriter, TLAPS

\* The blocks are the kept references' data.
Copied ==
  /\ Len(blocks) = Len(kept)
  /\ \A i \in 1 .. Len(kept) : /\ blocks[i].of = kept[i].of
                               /\ blocks[i].size = kept[i].size
                               /\ kept[i].final = SizeOf[kept[i].of]

\* In a file the blocks follow each other, from the end of the header's space on.
Placed ==
  binary =>
    /\ \A i \in 1 .. Len(blocks) :
         /\ headerSize <= blocks[i].at
         /\ blocks[i].at + blocks[i].size <= pos
         /\ blocks[i].at + blocks[i].size = IF i = Len(blocks) THEN pos ELSE blocks[i + 1].at
    /\ IF blocks = <<>> THEN pos = headerSize ELSE blocks[1].at = headerSize

\* In code the arrays are numbered without gaps.
Numbered == ~binary => \A i \in 1 .. Len(blocks) : blocks[i].at = i - 1

\* Where the work is, and that the space of the header is large enough.
Progress ==
  /\ phase \in {"discover", "collect"} => kept = <<>> /\ entries = <<>> /\ index = 0 /\ sum = 0
  /\ phase = "bundle" =>
       /\ index = Len(kept) /\ entries = <<>> /\ sum = 0
       /\ binary => IntroSize + EntrySize * (Len(kept) + Len(queue)) <= headerSize
  /\ phase = "header" =>
       /\ index <= Len(kept) /\ Len(entries) = index
       /\ binary => /\ headerSize + sum = IF index = Len(kept) THEN pos ELSE blocks[index + 1].at
                    /\ IntroSize + EntrySize * Len(kept) <= headerSize

Offset(i) == IF binary THEN blocks[i].at % U32 ELSE i - 1

\* The entries written so far are those of the first kept references.
Written ==
  /\ Len(entries) <= Len(kept)
  /\ \A i \in 1 .. Len(entries) :
       entries[i] = [name |-> NameOf[kept[i].of], at |-> Offset(i),
                     size |-> kept[i].size, final |-> kept[i].final]

Inv == TypeOK /\ Copied /\ Placed /\ Numbered /\ Progress /\ Written

\* Init satisfies the invariant: nothing is collected or written.
LEMMA InitInv == Init => Inv
<1> SUFFICES ASSUME Init PROVE Inv
  OBVIOUS
<1>1. TypeOK
  BY DEF Init, TypeOK
<1> QED BY <1>1 DEF Init, Inv, Copied, Placed, Numbered, Progress, Written

\* A reference that was compressed is appended to what was kept and written.
LEMMA BundleRefKeeps ==
  ASSUME Inv, NEW c \in Sizes, BundleRef(c)
  PROVE  Inv'
<1> DEFINE r == Head(queue)
           k == [of |-> r, size |-> c, final |-> SizeOf[r]]
           b == [of |-> r, at |-> IF binary THEN pos ELSE index, size |-> c]
           n == Len(kept)
<1>1. /\ TypeOK /\ Copied /\ Placed /\ Numbered /\ Progress /\ Written
      /\ phase = "bundle" /\ queue # <<>>
  BY DEF Inv, BundleRef
<1>2. /\ c \in Nat \ {0}
      /\ r \in Resource /\ Tail(queue) \in Seq(Resource) /\ Len(Tail(queue)) = Len(queue) - 1
      /\ Len(queue) \in Nat
  BY <1>1, WriterAssumption DEF TypeOK, BundleRef, Compressed, Success
<1>3. /\ k \in Ref /\ b \in Block
      /\ k.of = r /\ k.size = c /\ k.final = SizeOf[r] /\ b.of = r /\ b.size = c
      /\ b.at = IF binary THEN pos ELSE index
  BY <1>1, <1>2, WriterAssumption DEF TypeOK, Ref, Block
<1>4. /\ kept' = Append(kept, k) /\ blocks' = Append(blocks, b) /\ queue' = Tail(queue)
      /\ pos' = pos + c /\ index' = index + 1
      /\ UNCHANGED <<config, phase, undiscovered, cached, left, lost, headerSize, sum, entries>>
  BY DEF BundleRef
<1> HIDE DEF k, b, r
<1>5. /\ kept \in Seq(Ref) /\ blocks \in Seq(Block) /\ n \in Nat /\ Len(blocks) = n
      /\ pos \in Nat /\ index \in Nat /\ headerSize \in Nat /\ index = n /\ entries = <<>>
  BY <1>1 DEF TypeOK, Copied, Progress
<1>6. /\ kept' \in Seq(Ref) /\ blocks' \in Seq(Block) /\ Len(kept') = n + 1 /\ Len(blocks') = n + 1
      /\ \A i \in 1 .. n : kept'[i] = kept[i] /\ blocks'[i] = blocks[i]
      /\ kept'[n + 1] = k /\ blocks'[n + 1] = b
  BY <1>3, <1>4, <1>5
<1>7. TypeOK'
  BY <1>1, <1>2, <1>4, <1>5, <1>6 DEF TypeOK, config
<1>8. Copied'
  BY <1>1, <1>3, <1>5, <1>6 DEF Copied
<1>9. Placed'
  <2> SUFFICES ASSUME binary PROVE Placed'
    BY <1>4 DEF Placed, config
  <2>1. \A i \in 1 .. n : blocks[i].at \in Nat /\ blocks[i].size \in Nat
    <3>1. \A i \in 1 .. n : blocks[i] \in Block
      BY <1>5
    <3> QED BY <3>1 DEF Block
  <2>2. \A i \in 1 .. n : /\ headerSize <= blocks[i].at
                          /\ blocks[i].at + blocks[i].size <= pos
                          /\ blocks[i].at + blocks[i].size = IF i = n THEN pos ELSE blocks[i + 1].at
    BY <1>1, <1>5 DEF Placed
  <2>3. b.at = pos /\ b.size = c /\ headerSize' = headerSize /\ headerSize <= pos
    <3>1. CASE n = 0
      BY <1>1, <1>3, <1>4, <1>5, <3>1 DEF Placed
    <3>2. CASE n # 0
      BY <1>3, <1>4, <1>5, <2>1, <2>2, <3>2
    <3> QED BY <3>1, <3>2
  <2>4. ASSUME NEW i \in 1 .. n + 1
        PROVE  /\ headerSize' <= blocks'[i].at
               /\ blocks'[i].at + blocks'[i].size <= pos'
               /\ blocks'[i].at + blocks'[i].size = IF i = n + 1 THEN pos' ELSE blocks'[i + 1].at
    <3>1. CASE i = n + 1
      BY <1>2, <1>4, <1>5, <1>6, <2>3, <3>1
    <3>2. CASE i = n
      BY <1>2, <1>4, <1>5, <1>6, <2>1, <2>2, <2>3, <3>2
    <3>3. CASE i \in 1 .. n - 1
      <4>1. i \in 1 .. n /\ i + 1 \in 1 .. n /\ i # n /\ i # n + 1
        BY <1>5, <3>3
      <4>2. blocks'[i] = blocks[i] /\ blocks'[i + 1] = blocks[i + 1]
        BY <1>6, <4>1
      <4>3. /\ headerSize <= blocks[i].at
            /\ blocks[i].at + blocks[i].size <= pos
            /\ blocks[i].at + blocks[i].size = blocks[i + 1].at
        BY <2>2, <4>1
      <4>4. blocks[i].at \in Nat /\ blocks[i].size \in Nat
        BY <2>1, <4>1
      <4> QED BY <1>2, <1>4, <1>5, <2>3, <4>1, <4>2, <4>3, <4>4
    <3> QED BY <1>5, <3>1, <3>2, <3>3
  <2>5. blocks' # <<>> /\ blocks'[1].at = headerSize'
    <3>1. CASE n = 0
      <4>1. pos = headerSize
        BY <1>1, <1>5, <3>1 DEF Placed
      <4>2. blocks'[1] = b /\ Len(blocks') = 1
        BY <1>6, <3>1
      <4> QED BY <1>6, <2>3, <4>1, <4>2
    <3>2. CASE n # 0
      BY <1>1, <1>4, <1>5, <1>6, <2>3, <3>2 DEF Placed
    <3> QED BY <3>1, <3>2
  <2> QED BY <1>6, <2>4, <2>5 DEF Placed
<1>10. Numbered'
  BY <1>1, <1>3, <1>4, <1>5, <1>6 DEF Numbered, config
<1>11. Progress'
  BY <1>1, <1>2, <1>4, <1>5, <1>6 DEF Progress, config, IntroSize, EntrySize
<1>12. Written'
  BY <1>4, <1>5, <1>6 DEF Written
<1> QED BY <1>7, <1>8, <1>9, <1>10, <1>11, <1>12 DEF Inv

\* An entry is written at the offset of its block, since the sizes summed up are those
\* of the blocks before it.
LEMMA WriteEntryKeeps ==
  ASSUME Inv, WriteEntry
  PROVE  Inv'
<1> DEFINE ref == kept[index + 1]
           e == [name |-> NameOf[ref.of], at |-> IF binary THEN (headerSize + sum) % U32 ELSE index,
                 size |-> ref.size, final |-> ref.final]
<1>1. /\ TypeOK /\ Copied /\ Placed /\ Numbered /\ Progress /\ Written
      /\ phase = "header" /\ index < Len(kept)
  BY DEF Inv, WriteEntry
<1>2. /\ kept \in Seq(Ref) /\ blocks \in Seq(Block) /\ entries \in Seq(Row)
      /\ Len(kept) \in Nat /\ Len(blocks) = Len(kept) /\ Len(entries) = index
      /\ index \in Nat /\ sum \in Nat /\ headerSize \in Nat /\ pos \in Nat
  BY <1>1 DEF TypeOK, Copied, Progress
<1>3. index + 1 \in 1 .. Len(kept) /\ ref \in Ref
  BY <1>1, <1>2
<1>4. /\ entries' = Append(entries, e) /\ sum' = sum + ref.size /\ index' = index + 1
      /\ UNCHANGED <<config, phase, undiscovered, cached, left, bank, headerSize, pos, blocks>>
  BY DEF WriteEntry
<1>5. binary => headerSize + sum = blocks[index + 1].at
  BY <1>1, <1>2 DEF Progress
<1>6. (headerSize + sum) % U32 \in Nat
  BY <1>2, WriterAssumption
<1>7. /\ ref.of \in Resource /\ ref.size \in Nat \ {0} /\ ref.final \in Nat
  BY <1>3 DEF Ref
<1>8. e \in Row /\ e.at = Offset(index + 1)
  <2>1. e.at = Offset(index + 1)
    BY <1>2, <1>5 DEF Offset
  <2>2. e.at \in Nat
    BY <1>2, <1>6
  <2> QED BY <1>7, <2>1, <2>2 DEF Row
<1>9. /\ entries' \in Seq(Row) /\ Len(entries') = index + 1
      /\ \A i \in 1 .. index : entries'[i] = entries[i]
      /\ entries'[index + 1] = e
  <2> HIDE DEF e
  <2> QED BY <1>2, <1>4, <1>8
<1>10. TypeOK'
  BY <1>1, <1>2, <1>4, <1>7, <1>9 DEF TypeOK, config, bank
<1>11. Copied' /\ Placed' /\ Numbered'
  BY <1>1, <1>4 DEF Copied, Placed, Numbered, config, bank
<1>12. Progress'
  <2>1. binary => blocks[index + 1].at + blocks[index + 1].size
                    = IF index + 1 = Len(kept) THEN pos ELSE blocks[index + 2].at
    BY <1>1, <1>2, <1>3 DEF Placed
  <2>2. blocks[index + 1].size = ref.size
    BY <1>1, <1>3 DEF Copied
  <2> QED BY <1>1, <1>2, <1>4, <1>5, <1>7, <1>9, <2>1, <2>2 DEF Progress, config, bank
<1>13. Written'
  <2>1. \A i \in 1 .. Len(kept) : Offset(i)' = Offset(i)
    BY <1>4 DEF Offset, config
  <2>2. e = [name |-> NameOf[ref.of], at |-> Offset(index + 1), size |-> ref.size, final |-> ref.final]
    BY <1>8
  <2>3. ASSUME NEW i \in 1 .. index + 1
        PROVE  entries'[i] = [name |-> NameOf[kept[i].of], at |-> Offset(i),
                              size |-> kept[i].size, final |-> kept[i].final]
    <3>1. CASE i = index + 1
      BY <1>9, <2>2, <3>1
    <3>2. CASE i \in 1 .. index
      BY <1>1, <1>2, <1>9, <3>2 DEF Written
    <3> QED BY <1>2, <3>1, <3>2
  <2> QED BY <1>1, <1>2, <1>4, <1>9, <2>1, <2>3 DEF Written, bank
<1> QED BY <1>10, <1>11, <1>12, <1>13 DEF Inv

\* Every step preserves the invariant.
LEMMA StepInv == Inv /\ [Next]_vars => Inv'
<1> SUFFICES ASSUME Inv, [Next]_vars PROVE Inv'
  OBVIOUS
<1>0. TypeOK /\ Copied /\ Placed /\ Numbered /\ Progress /\ Written
  BY DEF Inv
<1>1. ASSUME NEW v \in Values, Discover(v) PROVE Inv'
  <2>1. TypeOK'
    BY <1>0, <1>1 DEF Discover, TypeOK, Located, config, bank, output
  <2> QED BY <1>0, <1>1, <2>1 DEF Discover, Inv, Copied, Placed, Numbered, Progress, Written,
                                  Offset, config, bank, output
<1>2. CASE EndDiscover
  <2>1. TypeOK'
    BY <1>0, <1>2 DEF EndDiscover, TypeOK, config, bank, output
  <2> QED BY <1>0, <1>2, <2>1 DEF EndDiscover, Inv, Copied, Placed, Numbered, Progress, Written,
                                  Offset, config, bank, output
<1>3. ASSUME NEW r \in Resource, Collect(r) PROVE Inv'
  <2>1. queue' \in Seq(Resource) /\ lost' \subseteq Resource
    <3>1. queue \in Seq(Resource) /\ lost \subseteq Resource
      BY <1>0 DEF TypeOK
    <3> QED BY <1>3, <3>1 DEF Collect
  <2>2. left' \subseteq cached'
    BY <1>0, <1>3 DEF Collect, TypeOK
  <2>3. TypeOK'
    BY <1>0, <1>3, <2>1, <2>2 DEF Collect, TypeOK, config, output
  <2>4. /\ UNCHANGED <<binary, phase, kept, headerSize, index, pos, blocks, sum, entries>>
        /\ phase = "collect"
    BY <1>3 DEF Collect, config, output
  <2>5. Copied' /\ Placed' /\ Numbered'
    BY <1>0, <2>4 DEF Copied, Placed, Numbered
  <2>6. Progress' /\ Written'
    BY <1>0, <2>4 DEF Progress, Written, Offset
  <2> QED BY <2>3, <2>5, <2>6 DEF Inv
<1>4. CASE BeginBundle
  <2>1. /\ kept = <<>> /\ entries = <<>> /\ index = 0 /\ sum = 0 /\ blocks = <<>>
        /\ Len(queue) \in Nat
    <3>1. phase = "collect"
      BY <1>4 DEF BeginBundle
    <3>2. kept = <<>> /\ entries = <<>> /\ index = 0 /\ sum = 0
      BY <1>0, <3>1 DEF Progress
    <3>3. Len(blocks) = 0
      BY <1>0, <3>2 DEF Copied
    <3>4. blocks = <<>> /\ Len(queue) \in Nat
      BY <1>0, <3>3 DEF TypeOK
    <3> QED BY <3>2, <3>4
  <2>2. headerSize' \in Nat /\ pos' = headerSize'
    BY <1>4, <2>1 DEF BeginBundle, HeaderSize, IntroSize, EntrySize
  <2>3. TypeOK'
    BY <1>0, <1>4, <2>2 DEF BeginBundle, TypeOK, config, bank
  <2>4. Progress'
    BY <1>4, <2>1 DEF BeginBundle, Progress, HeaderSize, IntroSize, EntrySize, config, bank
  <2> QED BY <1>0, <1>4, <2>1, <2>2, <2>3, <2>4
          DEF BeginBundle, Inv, Copied, Placed, Numbered, Written, config, bank
<1>5. ASSUME NEW c \in Sizes, BundleRef(c) PROVE Inv'
  BY <1>5, BundleRefKeeps
<1>6. ASSUME NEW c \in Sizes, SkipRef(c) PROVE Inv'
  <2>1. /\ Head(queue) \in Resource /\ Tail(queue) \in Seq(Resource)
        /\ Len(Tail(queue)) = Len(queue) - 1 /\ Len(queue) \in Nat /\ Len(kept) \in Nat
    BY <1>0, <1>6 DEF SkipRef, TypeOK
  <2>2. TypeOK'
    BY <1>0, <1>6, <2>1 DEF SkipRef, TypeOK, AfterFailure, config
  <2>3. Progress'
    BY <1>0, <1>6, <2>1, <2>2
       DEF SkipRef, Progress, TypeOK, AfterFailure, IntroSize, EntrySize, config
  <2> QED BY <1>0, <1>6, <2>2, <2>3
          DEF SkipRef, Inv, Copied, Placed, Numbered, Written, Offset, config
<1>7. CASE BeginHeader
  <2>1. Len(kept) \in Nat /\ Len(queue) = 0 /\ entries = <<>> /\ sum = 0 /\ headerSize \in Nat
    BY <1>0, <1>7 DEF BeginHeader, TypeOK, Progress
  <2>2. TypeOK'
    BY <1>0, <1>7 DEF BeginHeader, TypeOK, config, bank
  <2>3. Progress'
    BY <1>0, <1>7, <2>1
       DEF BeginHeader, Progress, Placed, Copied, TypeOK, IntroSize, EntrySize, config, bank
  <2> QED BY <1>0, <1>7, <2>2, <2>3
          DEF BeginHeader, Inv, Copied, Placed, Numbered, Written, Offset, config, bank
<1>8. CASE WriteEntry
  BY <1>8, WriteEntryKeeps
<1>9. CASE Finish
  <2>1. TypeOK'
    BY <1>0, <1>9 DEF Finish, TypeOK, config, bank, output
  <2> QED BY <1>0, <1>9, <2>1 DEF Finish, Inv, Copied, Placed, Numbered, Progress, Written,
                                  Offset, config, bank, output
<1>10. CASE UNCHANGED vars
  BY <1>0, <1>10 DEF vars, Inv, TypeOK, Copied, Placed, Numbered, Progress, Written,
                     Offset, config, bank, output
<1> QED BY <1>1, <1>2, <1>3, <1>4, <1>5, <1>6, <1>7, <1>8, <1>9, <1>10 DEF Next

\* The state of the writer is well typed: only positive sizes are ever written.
THEOREM TypeCorrect == Spec => []TypeOK
<1>1. Inv => TypeOK
  BY DEF Inv
<1> QED BY <1>1, InitInv, StepInv, PTL DEF Spec

\* As long as the file ends within the range of an offset, every entry points at the
\* data of a resource of its name, however many resources failed while it was made.
THEOREM OffsetsAreRight == Spec => []EntriesPointAtData
<1>1. Inv => EntriesPointAtData
  <2> SUFFICES ASSUME Inv, binary => pos <= U32, NEW i \in DOMAIN entries
               PROVE  \E j \in DOMAIN blocks :
                        /\ blocks[j].at = entries[i].at
                        /\ blocks[j].size = entries[i].size
                        /\ NameOf[blocks[j].of] = entries[i].name
                        /\ SizeOf[blocks[j].of] = entries[i].final
    BY DEF EntriesPointAtData
  <2>1. /\ TypeOK /\ Copied /\ Placed /\ Numbered /\ Written
    BY DEF Inv
  <2>2. /\ i \in 1 .. Len(entries) /\ i \in 1 .. Len(kept) /\ i \in DOMAIN blocks
        /\ i \in 1 .. Len(blocks)
    BY <2>1 DEF TypeOK, Copied, Written
  <2>3. entries[i] = [name |-> NameOf[kept[i].of], at |-> Offset(i),
                      size |-> kept[i].size, final |-> kept[i].final]
    BY <2>1, <2>2 DEF Written
  <2>4. Offset(i) = blocks[i].at
    <3>1. CASE ~binary
      BY <2>1, <2>2, <3>1 DEF Offset, Numbered
    <3>2. CASE binary
      <4>1. /\ blocks[i].at \in Nat /\ blocks[i].size \in Nat \ {0} /\ pos \in Nat
        <5>1. blocks[i] \in Block /\ pos \in Nat
          BY <2>1, <2>2 DEF TypeOK
        <5> QED BY <5>1 DEF Block
      <4>2. blocks[i].at + blocks[i].size <= pos /\ pos <= U32
        BY <2>1, <2>2, <3>2 DEF Placed
      <4>3. blocks[i].at < U32
        BY <4>1, <4>2, WriterAssumption
      <4>4. blocks[i].at % U32 = blocks[i].at
        BY <4>1, <4>3, WriterAssumption
      <4> QED BY <3>2, <4>4 DEF Offset
    <3> QED BY <3>1, <3>2
  <2>5. /\ blocks[i].of = kept[i].of /\ blocks[i].size = kept[i].size
        /\ kept[i].final = SizeOf[kept[i].of]
    BY <2>1, <2>2 DEF Copied
  <2> QED BY <2>2, <2>3, <2>4, <2>5
<1> QED BY <1>1, InitInv, StepInv, PTL DEF Spec

\* The header never runs into the data.
THEOREM HeaderHasRoom == Spec => []HeaderFits
<1>1. Inv => HeaderFits
  <2> SUFFICES ASSUME Inv, binary, phase = "header", NEW j \in DOMAIN blocks
               PROVE  IntroSize + EntrySize * Len(kept) <= blocks[j].at
    BY DEF HeaderFits
  <2>1. /\ IntroSize + EntrySize * Len(kept) <= headerSize
        /\ headerSize \in Nat /\ Len(kept) \in Nat
    BY DEF Inv, Progress, TypeOK
  <2>2. j \in 1 .. Len(blocks) /\ blocks[j].at \in Nat
    <3>1. j \in 1 .. Len(blocks) /\ blocks[j] \in Block
      BY DEF Inv, TypeOK
    <3> QED BY <3>1 DEF Block
  <2>3. headerSize <= blocks[j].at
    BY <2>2 DEF Inv, Placed
  <2> QED BY <2>1, <2>2, <2>3 DEF IntroSize, EntrySize
<1> QED BY <1>1, InitInv, StepInv, PTL DEF Spec

-----------------------------------------------------------------------------
(* Which resources are bundled.                                            *)

Waiting == {queue[i] : i \in 1 .. Len(queue)}

Looked == loaded \cup UNION {Located(v) : v \in Values \ undiscovered}

\* What was looked up is cached, and what was cached then is left to look at.
Cached ==
  /\ cached = Looked
  /\ phase # "discover" => undiscovered = {}
  /\ phase = "discover" => queue = <<>> /\ kept = <<>> /\ lost = {}
  /\ phase \notin {"discover", "collect"} => left = {}
  /\ phase \in {"header", "done"} => queue = <<>>

\* What was looked at and is to be bundled waits for it, is bundled or failed.
Accounted ==
  /\ phase # "discover" =>
       \A r \in cached \ left : Collects(r) => r \in Waiting \cup Bundled \cup lost
  /\ \A r \in Waiting \cup Bundled : Collects(r)

\* Nothing waits twice, and what waits is neither bundled nor left to look at.
Apart ==
  /\ \A i, j \in 1 .. Len(queue) : queue[i] = queue[j] => i = j
  /\ Waiting \cap Bundled = {} /\ (Waiting \cup Bundled) \cap lost = {}
  /\ Waiting \cup Bundled \cup lost \subseteq cached \ left

Gathered == Cached /\ Accounted /\ Apart

\* The elements of a sequence, when one is appended and when the first is taken away.
LEMMA AppendedElements ==
  ASSUME NEW S, NEW s \in Seq(S), NEW e \in S
  PROVE  /\ Append(s, e) \in Seq(S) /\ Len(Append(s, e)) = Len(s) + 1
         /\ \A i \in 1 .. Len(s) : Append(s, e)[i] = s[i]
         /\ Append(s, e)[Len(s) + 1] = e
         /\ {Append(s, e)[i] : i \in 1 .. Len(Append(s, e))} = {s[i] : i \in 1 .. Len(s)} \cup {e}
<1> DEFINE t == Append(s, e)
<1>1. /\ t \in Seq(S) /\ Len(t) = Len(s) + 1 /\ Len(s) \in Nat
      /\ \A i \in 1 .. Len(s) : t[i] = s[i]
      /\ t[Len(s) + 1] = e
  OBVIOUS
<1> HIDE DEF t
<1>2. ASSUME NEW i \in 1 .. Len(t) PROVE t[i] \in {s[j] : j \in 1 .. Len(s)} \cup {e}
  <2>1. CASE i = Len(s) + 1
    BY <1>1, <2>1
  <2>2. CASE i \in 1 .. Len(s)
    BY <1>1, <2>2
  <2> QED BY <1>1, <2>1, <2>2
<1>3. ASSUME NEW x \in {s[j] : j \in 1 .. Len(s)} \cup {e} PROVE x \in {t[i] : i \in 1 .. Len(t)}
  <2>1. CASE x = e
    BY <1>1, <2>1
  <2>2. CASE x # e
    <3>1. PICK j \in 1 .. Len(s) : x = s[j]
      BY <2>2
    <3>2. j \in 1 .. Len(t) /\ x = t[j]
      BY <1>1, <3>1
    <3> QED BY <3>2
  <2> QED BY <2>1, <2>2
<1>4. {t[i] : i \in 1 .. Len(t)} = {s[i] : i \in 1 .. Len(s)} \cup {e}
  BY <1>2, <1>3
<1> QED BY <1>1, <1>4 DEF t

LEMMA TailElements ==
  ASSUME NEW S, NEW s \in Seq(S), s # <<>>,
         \A i, j \in 1 .. Len(s) : s[i] = s[j] => i = j
  PROVE  /\ Tail(s) \in Seq(S) /\ Head(s) \in S
         /\ Head(s) \in {s[i] : i \in 1 .. Len(s)}
         /\ {Tail(s)[i] : i \in 1 .. Len(Tail(s))} = {s[i] : i \in 1 .. Len(s)} \ {Head(s)}
         /\ \A i, j \in 1 .. Len(Tail(s)) : Tail(s)[i] = Tail(s)[j] => i = j
<1> DEFINE t == Tail(s)
<1>1. /\ t \in Seq(S) /\ Len(s) \in Nat \ {0} /\ Len(t) = Len(s) - 1
      /\ \A i \in 1 .. Len(t) : t[i] = s[i + 1]
      /\ Head(s) = s[1] /\ 1 \in 1 .. Len(s) /\ s[1] \in S
  OBVIOUS
<1> HIDE DEF t
<1>2. \A i \in 1 .. Len(t) : i + 1 \in 1 .. Len(s) /\ i + 1 # 1
  BY <1>1
<1>3. ASSUME NEW i \in 1 .. Len(t) PROVE t[i] \in {s[j] : j \in 1 .. Len(s)} \ {s[1]}
  <2>1. t[i] = s[i + 1] /\ i + 1 \in 1 .. Len(s) /\ i + 1 # 1
    BY <1>1, <1>2
  <2>2. s[i + 1] # s[1]
    BY <1>1, <2>1
  <2> QED BY <2>1, <2>2
<1>4. ASSUME NEW x \in {s[j] : j \in 1 .. Len(s)} \ {s[1]} PROVE x \in {t[i] : i \in 1 .. Len(t)}
  <2>1. PICK j \in 1 .. Len(s) : x = s[j] /\ j # 1
    OBVIOUS
  <2>2. j - 1 \in 1 .. Len(t) /\ (j - 1) + 1 = j
    BY <1>1, <2>1
  <2>3. t[j - 1] = x
    BY <1>1, <2>1, <2>2
  <2> QED BY <2>2, <2>3
<1>5. {t[i] : i \in 1 .. Len(t)} = {s[i] : i \in 1 .. Len(s)} \ {s[1]}
  <2> DEFINE A == {t[i] : i \in 1 .. Len(t)}
             B == {s[i] : i \in 1 .. Len(s)} \ {s[1]}
  <2>1. A \subseteq B
    BY <1>3
  <2>2. B \subseteq A
    <3> HIDE DEF A, B
    <3> SUFFICES ASSUME NEW x \in B PROVE x \in A
      OBVIOUS
    <3> QED BY <1>4 DEF A, B
  <2> QED BY <2>1, <2>2
<1>6. ASSUME NEW i \in 1 .. Len(t), NEW j \in 1 .. Len(t), t[i] = t[j] PROVE i = j
  <2>1. s[i + 1] = s[j + 1]
    BY <1>1, <1>6
  <2>2. i + 1 = j + 1
    BY <1>2, <2>1
  <2> QED BY <1>1, <2>2
<1>7. Head(s) \in {s[i] : i \in 1 .. Len(s)}
  BY <1>1
<1> QED BY <1>1, <1>5, <1>6, <1>7 DEF t

\* The bank when a reference is taken from its front, and when it is kept.
LEMMA TakenFromBank ==
  ASSUME Inv, Gathered, queue # <<>>, queue' = Tail(queue)
  PROVE  /\ Head(queue) \in Waiting
         /\ Waiting' = Waiting \ {Head(queue)}
         /\ \A i, j \in 1 .. Len(queue') : queue'[i] = queue'[j] => i = j
<1>1. queue \in Seq(Resource) /\ \A i, j \in 1 .. Len(queue) : queue[i] = queue[j] => i = j
  BY DEF Inv, TypeOK, Gathered, Apart
<1>2. /\ Head(queue) \in {queue[i] : i \in 1 .. Len(queue)}
      /\ {Tail(queue)[i] : i \in 1 .. Len(Tail(queue))}
           = {queue[i] : i \in 1 .. Len(queue)} \ {Head(queue)}
      /\ \A i, j \in 1 .. Len(Tail(queue)) : Tail(queue)[i] = Tail(queue)[j] => i = j
  BY <1>1, TailElements
<1> QED BY <1>2 DEF Waiting

LEMMA KeptInBank ==
  ASSUME Inv, NEW k \in Ref, kept' = Append(kept, k)
  PROVE  Bundled' = Bundled \cup {k.of}
<1>1. kept \in Seq(Ref)
  BY DEF Inv, TypeOK
<1>2. /\ Len(kept') = Len(kept) + 1 /\ Len(kept) \in Nat
      /\ kept' \in Seq(Ref)
      /\ \A i \in 1 .. Len(kept) : kept'[i] = kept[i]
      /\ kept'[Len(kept) + 1] = k
  BY <1>1, AppendedElements
<1>3. DOMAIN kept = 1 .. Len(kept) /\ DOMAIN kept' = 1 .. Len(kept) + 1
  BY <1>1, <1>2
<1>4. ASSUME NEW x \in Bundled' PROVE x \in Bundled \cup {k.of}
  <2>1. PICK i \in 1 .. Len(kept) + 1 : x = kept'[i].of
    BY <1>3 DEF Bundled
  <2>2. CASE i = Len(kept) + 1
    BY <1>2, <2>1, <2>2
  <2>3. CASE i \in 1 .. Len(kept)
    BY <1>2, <1>3, <2>1, <2>3 DEF Bundled
  <2> QED BY <1>2, <2>2, <2>3
<1>5. ASSUME NEW x \in Bundled \cup {k.of} PROVE x \in Bundled'
  <2>1. CASE x = k.of
    BY <1>2, <1>3, <2>1 DEF Bundled
  <2>2. CASE x \in Bundled
    <3>1. PICK i \in 1 .. Len(kept) : x = kept[i].of
      BY <1>3, <2>2 DEF Bundled
    <3>2. i \in 1 .. Len(kept) + 1 /\ x = kept'[i].of
      BY <1>2, <3>1
    <3> QED BY <1>3, <3>2 DEF Bundled
  <2> QED BY <2>1, <2>2
<1> QED BY <1>4, <1>5

\* What becomes of a resource does not change with the steps, as the rules do not.
LEMMA SameRules ==
  ASSUME UNCHANGED config
  PROVE  \A r \in Resource : Collects(r)' <=> Collects(r)
BY DEF Collects, Candidate, ShouldCollect, Rule, RuleList, config

\* Steps that leave the bank and the cache alone.
LEMMA SameBank ==
  ASSUME Inv, Gathered, UNCHANGED <<config, undiscovered, cached, left, bank>>,
         phase # "discover",
         phase' \notin {"discover", "collect"} => left = {},
         phase' \in {"header", "done"} => queue = <<>>,
         phase' # "discover"
  PROVE  Gathered'
<1>1. Waiting' = Waiting /\ Bundled' = Bundled /\ lost' = lost /\ Looked' = Looked
  BY DEF Waiting, Bundled, Looked, Located, config, bank
<1>2. Cached'
  BY <1>1 DEF Gathered, Cached, bank
<1>3. Waiting \cup Bundled \subseteq Resource /\ cached \subseteq Resource
  BY DEF Gathered, Apart, Inv, TypeOK
<1>4. Accounted' /\ Apart'
  BY <1>1, <1>3, SameRules DEF Gathered, Accounted, Apart, bank
<1> QED BY <1>2, <1>4 DEF Gathered

LEMMA CollectGathers ==
  ASSUME Inv, Gathered, NEW r \in Resource, Collect(r)
  PROVE  Gathered'
<1>0. /\ TypeOK /\ Cached /\ Accounted /\ Apart /\ phase = "collect" /\ phase' = "collect"
      /\ r \in left /\ left' = left \ {r} /\ left \subseteq cached /\ cached \subseteq Resource
      /\ UNCHANGED <<config, undiscovered, cached, kept>>
  BY DEF Collect, Gathered, Inv, TypeOK
<1>1. Bundled' = Bundled /\ Looked' = Looked
  BY <1>0 DEF Bundled, Looked, config
<1>2. Cached'
  BY <1>0, <1>1 DEF Cached
<1>3. cached' \ left' = (cached \ left) \cup {r} /\ r \notin Waiting \cup Bundled \cup lost
  BY <1>0 DEF Apart
<1>4. \A s \in Resource : Collects(s)' <=> Collects(s)
  BY <1>0, SameRules
<1>5. Waiting \cup Bundled \subseteq Resource
  BY <1>0 DEF Apart
<1>6. CASE Collects(r) /\ queue' = Append(queue, r) /\ lost' = lost
  <2>1. queue \in Seq(Resource)
    BY <1>0 DEF TypeOK
  <2>2. /\ Len(queue') = Len(queue) + 1 /\ Len(queue) \in Nat
        /\ \A i \in 1 .. Len(queue) : queue'[i] = queue[i]
        /\ queue'[Len(queue) + 1] = r
        /\ Waiting' = Waiting \cup {r}
    BY <1>6, <2>1, AppendedElements DEF Waiting
  <2>3. \A i \in 1 .. Len(queue) : queue[i] # r
    BY <1>3 DEF Waiting
  <2>4. ASSUME NEW i \in 1 .. Len(queue'), NEW j \in 1 .. Len(queue'), queue'[i] = queue'[j]
        PROVE  i = j
    <3>1. CASE i = Len(queue) + 1 /\ j = Len(queue) + 1
      BY <3>1
    <3>2. CASE i \in 1 .. Len(queue) /\ j \in 1 .. Len(queue)
      BY <1>0, <2>2, <2>4, <3>2 DEF Apart
    <3>3. CASE i \in 1 .. Len(queue) /\ j = Len(queue) + 1
      BY <2>2, <2>3, <2>4, <3>3
    <3>4. CASE i = Len(queue) + 1 /\ j \in 1 .. Len(queue)
      BY <2>2, <2>3, <2>4, <3>4
    <3>5. i \in 1 .. Len(queue) \/ i = Len(queue) + 1
      BY <2>2
    <3>6. j \in 1 .. Len(queue) \/ j = Len(queue) + 1
      BY <2>2
    <3> QED BY <3>1, <3>2, <3>3, <3>4, <3>5, <3>6
  <2>5. Apart'
    BY <1>0, <1>1, <1>3, <1>6, <2>2, <2>4 DEF Apart
  <2>6. Accounted'
    BY <1>0, <1>1, <1>3, <1>4, <1>5, <1>6, <2>2 DEF Accounted
  <2> QED BY <1>2, <2>5, <2>6 DEF Gathered
<1>7. CASE lost' = lost \cup {r} /\ queue' = queue
  <2>1. Waiting' = Waiting
    BY <1>7 DEF Waiting
  <2>2. Apart'
    BY <1>0, <1>1, <1>3, <1>7, <2>1 DEF Apart
  <2>3. Accounted'
    BY <1>0, <1>1, <1>3, <1>4, <1>5, <1>7, <2>1 DEF Accounted
  <2> QED BY <1>2, <2>2, <2>3 DEF Gathered
<1>8. CASE ~Collects(r) /\ UNCHANGED <<queue, lost>>
  <2>1. Waiting' = Waiting
    BY <1>8 DEF Waiting
  <2>2. Apart'
    BY <1>0, <1>1, <1>3, <1>8, <2>1 DEF Apart
  <2>3. Accounted'
    BY <1>0, <1>1, <1>3, <1>4, <1>5, <1>8, <2>1 DEF Accounted
  <2> QED BY <1>2, <2>2, <2>3 DEF Gathered
<1> QED BY <1>6, <1>7, <1>8 DEF Collect

\* The references of the bank become kept ones or failures, one at a time.
LEMMA BundlingGathers ==
  ASSUME Inv, Gathered, NEW c \in Sizes, BundleRef(c) \/ SkipRef(c)
  PROVE  Gathered'
<1> DEFINE r == Head(queue)
<1>0. /\ TypeOK /\ Cached /\ Accounted /\ Apart /\ phase = "bundle" /\ phase' = "bundle"
      /\ queue # <<>> /\ queue' = Tail(queue)
      /\ UNCHANGED <<config, undiscovered, cached, left>>
  BY DEF BundleRef, SkipRef, Gathered, Inv
<1>1. /\ r \in Waiting /\ Waiting' = Waiting \ {r}
      /\ \A i, j \in 1 .. Len(queue') : queue'[i] = queue'[j] => i = j
  BY <1>0, TakenFromBank
<1>2. Looked' = Looked
  BY <1>0 DEF Looked, config
<1>3. Cached'
  BY <1>0, <1>2 DEF Cached
<1>4. \A s \in Resource : Collects(s)' <=> Collects(s)
  BY <1>0, SameRules
<1>5. Waiting \cup Bundled \subseteq Resource /\ cached \subseteq Resource
  BY <1>0 DEF Apart, TypeOK
<1>6. r \in Resource
  BY <1>1, <1>5
<1> HIDE DEF r
<1>7. CASE BundleRef(c)
  <2>1. lost' = lost
    BY <1>7 DEF BundleRef
  <2>2. Bundled' = Bundled \cup {r}
    <3> DEFINE k == [of |-> r, size |-> c, final |-> SizeOf[r]]
    <3>1. kept' = Append(kept, k) /\ c \in Nat \ {0}
      BY <1>6, <1>7, WriterAssumption DEF BundleRef, Compressed, Success, r
    <3>2. k \in Ref /\ k.of = r
      BY <1>6, <3>1, WriterAssumption DEF Ref
    <3> HIDE DEF k
    <3> QED BY <3>1, <3>2, KeptInBank
  <2>3. Apart'
    BY <1>0, <1>1, <2>1, <2>2 DEF Apart
  <2>4. Accounted'
    BY <1>0, <1>1, <1>4, <1>5, <1>6, <2>1, <2>2 DEF Accounted
  <2> QED BY <1>3, <2>3, <2>4 DEF Gathered
<1>8. CASE SkipRef(c)
  <2>1. lost' = lost \cup {r} /\ Bundled' = Bundled
    BY <1>8 DEF SkipRef, Bundled, r
  <2>2. Apart'
    BY <1>0, <1>1, <2>1 DEF Apart
  <2>3. Accounted'
    BY <1>0, <1>1, <1>4, <1>5, <1>6, <2>1 DEF Accounted
  <2> QED BY <1>3, <2>2, <2>3 DEF Gathered
<1> QED BY <1>7, <1>8

\* Gathered holds at the start, and every step of the writer preserves it.
LEMMA GatheredInductive ==
  /\ Init => Gathered
  /\ Inv /\ Gathered /\ [Next]_vars => Gathered'
<1>1. ASSUME Init PROVE Gathered
  <2>1. /\ queue = <<>> /\ kept = <<>> /\ lost = {} /\ left = {} /\ cached = loaded
        /\ phase = "discover" /\ undiscovered = Values
    BY <1>1 DEF Init
  <2>2. Waiting = {} /\ Bundled = {}
    BY <2>1 DEF Waiting, Bundled
  <2>3. Cached
    BY <2>1 DEF Cached, Looked
  <2> QED BY <2>1, <2>2, <2>3 DEF Gathered, Accounted, Apart
<1>2. ASSUME Inv, Gathered, [Next]_vars PROVE Gathered'
  <2>0. TypeOK /\ Cached /\ Accounted /\ Apart
    BY <1>2 DEF Inv, Gathered
  <2>1. ASSUME NEW v \in Values, Discover(v) PROVE Gathered'
    <3>1. /\ phase = "discover" /\ phase' = "discover" /\ v \in undiscovered
          /\ undiscovered' = undiscovered \ {v} /\ cached' = cached \cup Located(v)
          /\ UNCHANGED <<config, left, bank>>
      BY <2>1 DEF Discover
    <3>2. queue' = <<>> /\ kept' = <<>> /\ lost' = {}
      BY <2>0, <3>1 DEF Cached, bank
    <3>3. Waiting' = {} /\ Bundled' = {}
      BY <3>2 DEF Waiting, Bundled
    <3>4. Values \ undiscovered' = (Values \ undiscovered) \cup {v}
      BY <3>1
    <3>5. Looked' = Looked \cup Located(v)
      BY <3>1, <3>4 DEF Looked, config
    <3>6. Cached'
      BY <2>0, <3>1, <3>2, <3>5 DEF Cached
    <3> QED BY <3>1, <3>2, <3>3, <3>6 DEF Gathered, Accounted, Apart
  <2>2. CASE EndDiscover
    <3>1. /\ phase = "discover" /\ phase' = "collect" /\ undiscovered = {} /\ left' = cached
          /\ UNCHANGED <<config, undiscovered, cached, bank>>
      BY <2>2 DEF EndDiscover
    <3>2. queue' = <<>> /\ kept' = <<>> /\ lost' = {}
      BY <2>0, <3>1 DEF Cached, bank
    <3>3. Waiting' = {} /\ Bundled' = {}
      BY <3>2 DEF Waiting, Bundled
    <3>4. Cached'
      BY <2>0, <3>1, <3>2 DEF Cached, Looked, config
    <3> QED BY <3>1, <3>2, <3>3, <3>4 DEF Gathered, Accounted, Apart
  <2>3. ASSUME NEW r \in Resource, Collect(r) PROVE Gathered'
    BY <1>2, <2>3, CollectGathers
  <2>4. ASSUME NEW c \in Sizes, BundleRef(c) \/ SkipRef(c) PROVE Gathered'
    BY <1>2, <2>4, BundlingGathers
  <2>5. CASE BeginBundle
    BY <1>2, <2>5, SameBank DEF BeginBundle
  <2>6. CASE BeginHeader
    BY <1>2, <2>0, <2>6, SameBank DEF BeginHeader, Cached
  <2>7. CASE WriteEntry
    BY <1>2, <2>0, <2>7, SameBank DEF WriteEntry, Cached
  <2>8. CASE Finish
    BY <1>2, <2>0, <2>8, SameBank DEF Finish, Cached
  <2>9. CASE UNCHANGED vars
    <3>1. UNCHANGED <<config, undiscovered, cached, left, bank, phase>>
      BY <2>9 DEF vars
    <3>2. Waiting' = Waiting /\ Bundled' = Bundled /\ Looked' = Looked
      BY <3>1 DEF Waiting, Bundled, Looked, config, bank
    <3>3. Waiting \cup Bundled \subseteq Resource /\ cached \subseteq Resource
      BY <2>0 DEF Apart, TypeOK
    <3> QED BY <2>0, <3>1, <3>2, <3>3, SameRules DEF Gathered, Cached, Accounted, Apart, bank
  <2> QED BY <1>2, <2>1, <2>2, <2>3, <2>4, <2>5, <2>6, <2>7, <2>8, <2>9 DEF Next
<1> QED BY <1>1, <1>2

\* The table of rules decides as the documentation of the lists promises.
LEMMA RulesDecide == \A r \in Resource : ShouldCollect(r) <=> Allowed(r)
<1> SUFFICES ASSUME NEW r \in Resource PROVE ShouldCollect(r) <=> Allowed(r)
  OBVIOUS
<1> DEFINE L == RuleList(r)
           R(i) == Rule(L[i])
           ruled == {i \in 1 .. 3 : L[i] \in excluded \cup included}
<1>1. \A i \in 1 .. 3 : /\ R(i) = "+" <=> L[i] \in included
                        /\ R(i) = "none" <=> i \notin ruled
  BY DEF Rule
<1> HIDE DEF R, ruled, L
<1>2. ShouldCollect(r) <=> \/ \A i \in 1 .. 3 : R(i) = "none"
                           \/ \E i \in 1 .. 3 : R(i) = "+" /\ \A j \in 1 .. i - 1 : R(j) = "none"
  BY DEF ShouldCollect, R, L
<1>3. Allowed(r) <=> \A i \in ruled : (\A j \in ruled : i <= j) => L[i] \in included
  BY DEF Allowed, ruled, L
<1>4. ruled \subseteq 1 .. 3
  BY DEF ruled
<1>5. \A i \in 1 .. 3 : L[i] \in included => i \in ruled
  BY DEF ruled
<1>6. ASSUME ShouldCollect(r), NEW i \in ruled, \A j \in ruled : i <= j PROVE L[i] \in included
  <2>1. PICK k \in 1 .. 3 : R(k) = "+" /\ \A j \in 1 .. k - 1 : R(j) = "none"
    BY <1>1, <1>2, <1>4, <1>6
  <2>2. k \in ruled /\ L[k] \in included
    BY <1>1, <1>5, <2>1
  <2>3. ~(i \in 1 .. k - 1)
    BY <1>1, <1>4, <2>1
  <2>4. i = k
    BY <1>4, <1>6, <2>2, <2>3
  <2> QED BY <2>2, <2>4
<1>7. ASSUME Allowed(r) PROVE ShouldCollect(r)
  <2>1. CASE 1 \in ruled
    <3>1. L[1] \in included
      BY <1>3, <1>4, <1>7, <2>1
    <3> QED BY <1>1, <1>2, <3>1
  <2>2. CASE 1 \notin ruled /\ 2 \in ruled
    <3>1. \A j \in ruled : 2 <= j
      BY <1>4, <2>2
    <3>2. L[2] \in included
      BY <1>3, <1>7, <2>2, <3>1
    <3>3. R(2) = "+" /\ R(1) = "none"
      BY <1>1, <2>2, <3>2
    <3>4. \A j \in 1 .. 2 - 1 : R(j) = "none"
      <4>1. \A j \in 1 .. 2 - 1 : j = 1
        OBVIOUS
      <4> QED BY <3>3, <4>1
    <3> QED BY <1>2, <3>3, <3>4
  <2>3. CASE 1 \notin ruled /\ 2 \notin ruled /\ 3 \in ruled
    <3>1. \A j \in ruled : 3 <= j
      BY <1>4, <2>3
    <3>2. L[3] \in included
      BY <1>3, <1>7, <2>3, <3>1
    <3>3. R(3) = "+" /\ R(2) = "none" /\ R(1) = "none"
      BY <1>1, <2>3, <3>2
    <3>4. \A j \in 1 .. 3 - 1 : R(j) = "none"
      <4>1. \A j \in 1 .. 3 - 1 : j = 1 \/ j = 2
        OBVIOUS
      <4> QED BY <3>3, <4>1
    <3> QED BY <1>2, <3>3, <3>4
  <2>4. CASE 1 \notin ruled /\ 2 \notin ruled /\ 3 \notin ruled
    <3>1. \A i \in 1 .. 3 : i = 1 \/ i = 2 \/ i = 3
      OBVIOUS
    <3> QED BY <1>1, <1>2, <2>4, <3>1
  <2> QED BY <2>1, <2>2, <2>3, <2>4
<1> QED BY <1>3, <1>6, <1>7

\* What is in a finished bundle is what was loaded or is named in the configuration, is
\* not empty, in a bundle or ruled out, and did not fail.
THEOREM TheRightOnes == Spec => []BundlesTheRightOnes
<1>1. Inv /\ Gathered => BundlesTheRightOnes
  <2> DEFINE All == loaded \cup UNION {Located(v) : v \in Values}
             Right == {r \in All : Candidate(r) /\ Allowed(r) /\ SizeOf[r] > 0}
  <2> SUFFICES ASSUME Inv, Gathered, phase = "done" PROVE Bundled = Right \ lost
    BY DEF BundlesTheRightOnes
  <2>1. cached = All /\ left = {} /\ queue = <<>>
    BY DEF Gathered, Cached, Looked
  <2>2. Waiting = {}
    BY <2>1 DEF Waiting
  <2>3. cached \subseteq Resource
    BY DEF Inv, TypeOK
  <2>4. Right = {r \in cached : Collects(r)}
    BY <2>1, <2>3, RulesDecide DEF Collects
  <2> HIDE DEF Right, All
  <2> QED BY <2>1, <2>2, <2>4 DEF Gathered, Accounted, Apart
<1> QED BY <1>1, InitInv, StepInv, GatheredInductive, PTL DEF Spec
=============================================================================
