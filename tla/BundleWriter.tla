---------------------------- MODULE BundleWriter ----------------------------
(***************************************************************************)
(* Making a bundle: orxBundle_Process of src/include/orxBundle.h.  It      *)
(* gathers the resources the configuration names and those loaded so far,  *)
(* writes the compressed data of each, as a file or as code, and then a    *)
(* header or table of what it wrote.                                       *)
(***************************************************************************)
EXTENDS Integers, Sequences, FiniteSets

CONSTANTS
  Resource,
  NameOf, StorageOf, GroupOf,  \* what a resource is found under
  Rank,         \* Rank[g]: the position of group g among the resource groups
  BundleGroup,  \* the group bundles are looked for in
  Special,      \* resources in a bundle, of the program, or config histories
  SizeOf,       \* SizeOf[r]: its size
  Packed,       \* Packed[r]: its size when compressed
  Values,       \* the values of the configuration
  RuleKeys,     \* bound: the names, storages and groups that rules may be about
  U32           \* 2^32, the range of an offset in the file

ASSUME WriterAssumption ==
  /\ SizeOf \in [Resource -> Nat]
  /\ Packed \in [Resource -> Nat \ {0}]
  /\ U32 \in Nat \ {0}
  /\ \A r, s \in Resource : NameOf[r] = NameOf[s] /\ GroupOf[r] = GroupOf[s] => r = s

IntroSize == 8
EntrySize == 20

VARIABLES
  binary,              \* whether the output is a file or code
  excluded, included,  \* the rule lists of the configuration
  loaded,              \* what was located before
  phase,
  undiscovered,        \* the values not looked up yet
  cached,              \* the locations in the cache of the engine
  left,                \* those not looked at yet
  queue,               \* the bank of references: those not bundled yet,
  kept,                \* and those that were
  lost,                \* the resources that could not be opened, read or compressed
  headerSize,
  index,               \* u32ResourceIndex
  pos,                 \* where a file is written to next
  blocks,              \* the data written: a place in the file, or the number of an array
  sum,                 \* s64Size
  entries              \* the header or table

config == <<binary, excluded, included, loaded>>
bank   == <<queue, kept, lost>>
output == <<headerSize, index, pos, blocks, sum, entries>>
vars   == <<config, phase, undiscovered, cached, left, bank, output>>

Ref   == [of : Resource, size : Nat \ {0}, final : Nat]
Block == [of : Resource, at : Nat, size : Nat \ {0}]
Row   == [name : {NameOf[r] : r \in Resource}, at : Nat, size : Nat \ {0}, final : Nat]

TypeOK ==
  /\ binary \in BOOLEAN
  /\ excluded \subseteq RuleKeys /\ included \subseteq RuleKeys
  /\ loaded \subseteq Resource /\ cached \subseteq Resource
  /\ left \subseteq cached /\ lost \subseteq Resource
  /\ phase \in {"discover", "collect", "bundle", "header", "done"}
  /\ undiscovered \subseteq Values
  /\ queue \in Seq(Resource) /\ kept \in Seq(Ref)
  /\ headerSize \in Nat /\ index \in Nat /\ pos \in Nat /\ sum \in Nat
  /\ blocks \in Seq(Block) /\ entries \in Seq(Row)

Init ==
  /\ binary \in BOOLEAN
  /\ excluded \in SUBSET RuleKeys /\ included \in SUBSET RuleKeys
  /\ loaded \in SUBSET Resource
  /\ phase = "discover" /\ undiscovered = Values
  /\ cached = loaded /\ left = {} /\ lost = {}
  /\ queue = <<>> /\ kept = <<>> /\ blocks = <<>> /\ entries = <<>>
  /\ headerSize = 0 /\ index = 0 /\ pos = 0 /\ sum = 0

-----------------------------------------------------------------------------
\* A value is looked for in the groups in their order, up to the first that has it;
\* locating it puts it into the cache.
Located(v) ==
  {r \in Resource : NameOf[r] = v /\ \A s \in Resource : NameOf[s] = v => Rank[GroupOf[r]] <= Rank[GroupOf[s]]}

Discover(v) ==
  /\ phase = "discover" /\ v \in undiscovered
  /\ undiscovered' = undiscovered \ {v}
  /\ cached' = cached \cup Located(v)
  /\ UNCHANGED <<config, phase, left, bank, output>>

EndDiscover ==
  /\ phase = "discover" /\ undiscovered = {}
  /\ phase' = "collect" /\ left' = cached
  /\ UNCHANGED <<config, undiscovered, cached, bank, output>>

\* Mutant: the lists are applied in the other order.
RuleSwapped(k) == IF k \in excluded THEN "-" ELSE IF k \in included THEN "+" ELSE "none"

\* The table of rules: the list of inclusions is applied after that of exclusions.
Rule(k) == IF k \in included THEN "+" ELSE IF k \in excluded THEN "-" ELSE "none"

RuleList(r) == <<NameOf[r], StorageOf[r], GroupOf[r]>>

\* The first rule among those of the name, the storage and the group decides.
ShouldCollect(r) ==
  \/ \A i \in 1 .. 3 : Rule(RuleList(r)[i]) = "none"
  \/ \E i \in 1 .. 3 : /\ Rule(RuleList(r)[i]) = "+"
                       /\ \A j \in 1 .. i - 1 : Rule(RuleList(r)[j]) = "none"

Candidate(r) == GroupOf[r] # BundleGroup /\ r \notin Special
Collects(r)  == Candidate(r) /\ ShouldCollect(r) /\ SizeOf[r] > 0

\* The cached locations are gone through group by group, in any order within one.
Collect(r) ==
  /\ phase = "collect" /\ r \in left
  /\ \A s \in left : Rank[GroupOf[r]] <= Rank[GroupOf[s]]
  /\ left' = left \ {r}
  /\ \/ Collects(r) /\ queue' = Append(queue, r) /\ lost' = lost
     \/ Candidate(r) /\ lost' = lost \cup {r} /\ queue' = queue
     \/ ~Collects(r) /\ UNCHANGED <<queue, lost>>
  /\ UNCHANGED <<config, phase, undiscovered, cached, kept, output>>

-----------------------------------------------------------------------------
\* Mutant: the file's introduction is forgotten.
HeaderSizeEntries(n) == EntrySize * n

HeaderSize(n) == IntroSize + EntrySize * n

\* The space of the header is left free, for as many entries as were collected.
BeginBundle ==
  /\ phase = "collect" /\ left = {}
  /\ phase' = IF queue = <<>> THEN "done" ELSE "bundle"
  /\ headerSize' = IF binary /\ queue # <<>> THEN HeaderSize(Len(queue)) ELSE 0
  /\ pos' = headerSize'
  /\ UNCHANGED <<config, undiscovered, cached, left, bank, index, blocks, sum, entries>>

\* Mutant: a resource that fails keeps its number.
AfterFailureCounted == index + 1

AfterFailure == index

\* What comes of a resource: its compressed size, or nothing if it can no longer be
\* read or not be compressed.
Compressed(r) == {Packed[r], 0}

\* Mutant: nothing is taken for a success.
SuccessAlways(c) == c >= 0

Success(c) == c > 0

BundleRef(c) ==
  LET r == Head(queue)
  IN  /\ phase = "bundle" /\ queue # <<>>
      /\ c \in Compressed(r) /\ Success(c)
      /\ queue' = Tail(queue)
      /\ kept' = Append(kept, [of |-> r, size |-> c, final |-> SizeOf[r]])
      /\ blocks' = Append(blocks, [of |-> r, at |-> IF binary THEN pos ELSE index, size |-> c])
      /\ pos' = pos + c
      /\ index' = index + 1
      /\ UNCHANGED <<config, phase, undiscovered, cached, left, lost, headerSize, sum, entries>>

\* A resource that fails leaves the bank.
SkipRef(c) ==
  /\ phase = "bundle" /\ queue # <<>>
  /\ c \in Compressed(Head(queue)) /\ ~Success(c)
  /\ queue' = Tail(queue)
  /\ lost' = lost \cup {Head(queue)}
  /\ index' = AfterFailure
  /\ UNCHANGED <<config, phase, undiscovered, cached, left, kept, headerSize, pos, blocks, sum, entries>>

BeginHeader ==
  /\ phase = "bundle" /\ queue = <<>>
  /\ phase' = IF kept = <<>> THEN "done" ELSE "header"
  /\ index' = 0
  /\ UNCHANGED <<config, undiscovered, cached, left, bank, headerSize, pos, blocks, sum, entries>>

\* Sizes are positive in a kept reference, as the code asks once more for a file.
WriteEntry ==
  LET ref == kept[index + 1]
  IN  /\ phase = "header" /\ index < Len(kept)
      /\ entries' = Append(entries, [name  |-> NameOf[ref.of],
                                     at    |-> IF binary THEN (headerSize + sum) % U32 ELSE index,
                                     size  |-> ref.size,
                                     final |-> ref.final])
      /\ sum' = sum + ref.size
      /\ index' = index + 1
      /\ UNCHANGED <<config, phase, undiscovered, cached, left, bank, headerSize, pos, blocks>>

Finish ==
  /\ phase = "header" /\ index = Len(kept)
  /\ phase' = "done"
  /\ UNCHANGED <<config, undiscovered, cached, left, bank, output>>

Sizes == {0} \cup {Packed[r] : r \in Resource}

Next ==
  \/ \E v \in Values : Discover(v)
  \/ EndDiscover
  \/ \E r \in Resource : Collect(r)
  \/ \E c \in Sizes : BundleRef(c) \/ SkipRef(c)
  \/ BeginBundle \/ BeginHeader \/ WriteEntry \/ Finish

Spec == Init /\ [][Next]_vars

-----------------------------------------------------------------------------
\* Every entry of the header or table is that of a resource of its name and points at
\* that resource's data, whichever resources failed after they were counted, as long as
\* the file ends within what an offset can say.
EntriesPointAtData ==
  (binary => pos <= U32) =>
    \A i \in DOMAIN entries : \E j \in DOMAIN blocks :
      /\ blocks[j].at = entries[i].at
      /\ blocks[j].size = entries[i].size
      /\ NameOf[blocks[j].of] = entries[i].name
      /\ SizeOf[blocks[j].of] = entries[i].final

\* The header, written last, ends before the data, although resources were taken out
\* after its space was computed.
HeaderFits ==
  binary /\ phase = "header" =>
    \A j \in DOMAIN blocks : IntroSize + EntrySize * Len(kept) <= blocks[j].at

\* "Priorities are (high to low): Resource > Resource Storage > Resource Group. If an
\* entry is in both IncludeList & ExcludeList, it will be included."
Allowed(r) ==
  LET ruled == {i \in 1 .. 3 : RuleList(r)[i] \in excluded \cup included}
  IN  \A i \in ruled : (\A j \in ruled : i <= j) => RuleList(r)[i] \in included

\* "All resources that are either defined in config or loaded at init time" are in the
\* bundle, but for those the rules leave out, empty ones and those that failed.
Bundled == {kept[i].of : i \in DOMAIN kept}
BundlesTheRightOnes ==
  phase = "done" =>
    Bundled = {r \in loaded \cup UNION {Located(v) : v \in Values} :
                 Candidate(r) /\ Allowed(r) /\ SizeOf[r] > 0} \ lost
=============================================================================
