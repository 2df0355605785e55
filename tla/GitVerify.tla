------------------------------ MODULE GitVerify ------------------------------
(* The soak canary's own Git client, InProcessSoakCanaryGitVerifier.Verify of    *)
(* soak_canary_git.go: HEAD must name the approved commit, the index must equal  *)
(* its tree, the worktree must equal the index, and nothing else may be there.   *)
(* Every step reads one file, or one directory, of a repository that a user may   *)
(* edit and that Git may pack meanwhile.                                          *)
(*                                                                              *)
(* An object's data is a sequence of entries, so that deltas apply to it; the    *)
(* numbers of a pack keep their encoding in groups of bits, with a small radix.  *)
(* A checksum that does not fit is a flag; SHA-1 is taken to be injective.       *)
EXTENDS Integers, FiniteSets, SequencesExt, FiniteSetsExt

CONSTANTS
    Named,              \* what object IDs stand for: ID |-> <<kind, data>>
    Trees,              \* the files below each tree: ID |-> {<<path, mode, oid>>}
    Requests,           \* what may be verified: <<approved revision, repository>>
    Writes,             \* edits of the worktree: <<path, entry>>
    Removals,           \* paths that may be removed
    Heads, Branches,    \* edits of HEAD, and of branches: <<name, value>>
    Indexes,            \* edits of the index
    MaxEdits            \* bound: edits during one verification

\* The limits of the code, scaled down.
CONSTANTS
    MaxReferences,      \* hops of a reference (8)
    MaxDepth,           \* bases of a delta, and directories (64)
    MaxEntries,         \* files (200000)
    MaxPacks,           \* packs (128)
    MaxObject,          \* size of an object (2^26)
    MaxFile,            \* size of a file of the worktree
    TotalBudget,        \* data read in one verification (2^24)
    FirstOffset,        \* where a pack's objects begin (12)
    MaxWord,            \* the largest unsigned number (2^64 - 1)
    Radix,              \* of a group of bits (2^7)
    HeaderRadix,        \* of the first group of an object header (2^4)
    ByteRadix,          \* of a byte (2^8)
    SmallOffsets,       \* offsets below it are stored in place (2^31)
    WholeCopy           \* the length a copy without a length has (2^16)

ASSUME GitAssumption ==
    /\ MaxEdits \in Nat
    /\ {MaxReferences, MaxDepth, MaxEntries, MaxPacks, MaxObject, MaxFile, TotalBudget, FirstOffset,
        MaxWord, Radix, HeaderRadix, ByteRadix, SmallOffsets, WholeCopy} \subseteq Nat \ {0}

FileModes == {"644", "755", "link"}
Paths == Seq(Nat) \ {<<>>}

\* The files below a tree with the given entries: its own, and those of its directories.
FilesOf(id) == IF id \in DOMAIN Trees THEN Trees[id] ELSE {}
FilesBelow(data) ==
    {<<<<data[i].name>>, data[i].mode, data[i].oid>> : i \in {j \in DOMAIN data : data[j].mode \in FileModes}}
    \union UNION {{<<<<data[i].name>> \o f[1], f[2], f[3]>> : f \in FilesOf(data[i].oid)} :
                    i \in {j \in DOMAIN data : data[j].mode = "tree"}}

ASSUME TreesAssumption ==
    /\ DOMAIN Trees = {id \in DOMAIN Named : Named[id][1] = "tree"}
    /\ \A id \in DOMAIN Trees :
        /\ Named[id][2] \in Seq(Range(Named[id][2]))
        /\ \A i \in DOMAIN Named[id][2] : Named[id][2][i].name \in Nat
        /\ \A f \in Trees[id] : f = <<f[1], f[2], f[3]>> /\ f[1] \in Paths
        /\ Trees[id] = FilesBelow(Named[id][2])

\* A worktree: no file is below another, and a link leads to a file or to nothing.
Worktree(work) ==
    /\ DOMAIN work \subseteq Paths
    /\ \A path, other \in DOMAIN work : ~IsStrictPrefix(path, other)
    /\ \A path \in DOMAIN work :
        work[path].behind = <<>> \/ work[path].behind = <<work[path].behind[1]>>

IsIndex(index) ==
    /\ index.entries \in Seq(Range(index.entries))
    /\ \A i \in DOMAIN index.entries : index.entries[i].path \in Seq(Nat)

\* A repository as its files are decoded, sound or not.
Repository(r) ==
    /\ r = [safe |-> r.safe, linked |-> r.linked, head |-> r.head, refs |-> r.refs,
            packed |-> r.packed, index |-> r.index, loose |-> r.loose, packs |-> r.packs,
            spare |-> r.spare, config |-> r.config, work |-> r.work, damage |-> r.damage,
            edited |-> r.edited]
    /\ r.refs = [git |-> r.refs.git, common |-> r.refs.common]
    /\ IsIndex(r.index) /\ Worktree(r.work)
    /\ \A id \in DOMAIN r.loose : r.loose[id].size \in Nat

ASSUME RepositoriesAssumption ==
    /\ \A request \in Requests : Repository(request[2])
    /\ \A index \in Indexes : IsIndex(index)
    /\ \A w \in Writes : w[1] \in Paths /\ (w[2].behind = <<>> \/ w[2].behind = <<w[2].behind[1]>>)

VARIABLES
    expected,           \* the approved revision
    repo,               \* the repository
    v,                  \* the verifier
    past,               \* the repositories it has seen: since its start, since its walk
    touched, edits,     \* whether a user edited, or a file changed as it was read; how many edits
    swept               \* whether Git removed a pack that the verifier goes by

vars == <<expected, repo, v, past, touched, edits, swept>>

\* The digest of an object is the ID.
HasDigest(object, id) ==
    id \in DOMAIN Named /\ Named[id][1] = object[1] /\ Named[id][2] = object[2]
-----------------------------------------------------------------------------
(* Numbers in packs. A byte is [more, bits]; -1 stands for an error.             *)

Wrong == -1
Complete(bytes) ==
    /\ bytes # <<>>
    /\ \A i \in DOMAIN bytes : bytes[i].more = (i < Len(bytes))

\* One group more of a little-endian number whose next group has the given weight.
AddGroup(number, byte, radix) ==
    IF number.value = Wrong \/ number.weight > MaxWord
       \/ byte.bits > MaxWord \div number.weight
    THEN [number EXCEPT !.value = Wrong]
    ELSE [value |-> number.value + byte.bits * number.weight,
          weight |-> number.weight * radix]

\* readSoakCanaryGitDeltaSize
DeltaSize(bytes) ==
    IF ~Complete(bytes) THEN Wrong
    ELSE FoldLeft(LAMBDA number, byte : AddGroup(number, byte, Radix),
                  [value |-> 0, weight |-> 1], bytes).value

\* The size in an object header, whose first byte has room for fewer bits.
HeaderSize(bytes) ==
    IF ~Complete(bytes) THEN Wrong
    ELSE FoldLeft(LAMBDA number, byte : AddGroup(number, byte, Radix),
                  [value |-> bytes[1].bits, weight |-> HeaderRadix], Tail(bytes)).value

\* Mutant: a further group does not stand for one more.
DistancePlain(bytes) ==
    IF ~Complete(bytes) THEN Wrong
    ELSE FoldLeft(LAMBDA distance, byte : distance * Radix + byte.bits, bytes[1].bits, Tail(bytes))

\* The distance of a delta's base: big-endian, and every further group adds one.
Distance(bytes) ==
    IF ~Complete(bytes) THEN Wrong
    ELSE FoldLeft(LAMBDA distance, byte :
                    IF distance = Wrong \/ distance + 1 > MaxWord \div Radix THEN Wrong
                    ELSE (distance + 1) * Radix + byte.bits,
                  bytes[1].bits, Tail(bytes))

\* The operand of a copy: only the bytes that are not zero need be there.
Operand(bytes) == MapThenSumSet(LAMBDA i : bytes[i] * ByteRadix^i, DOMAIN bytes)

Within(total, start, length) == start <= total /\ length <= total - start

\* applySoakCanaryGitDelta: <<the result>>, or <<>>.
Apply(base, delta) ==
    LET size == DeltaSize(delta.result)
        append(result, part) ==
            IF Len(part) > size - Len(result[1]) THEN <<>> ELSE <<result[1] \o part>>
        command(result, c) ==
            LET start == Operand(c.offset)
                length == IF Operand(c.length) = 0 THEN WholeCopy ELSE Operand(c.length)
            IN  CASE result = <<>> -> <<>>
                  [] result # <<>> /\ ~c.copy /\ c.literal # <<>> -> append(result, c.literal)
                  [] result # <<>> /\ c.copy /\ Within(Len(base), start, length) ->
                        append(result, SubSeq(base, start + 1, start + length))
                  [] OTHER -> <<>>
        result == FoldLeft(command, <<<<>>>>, delta.commands)
    IN  IF /\ DeltaSize(delta.base) = Len(base) /\ size \in 0..MaxObject
           /\ result # <<>> /\ Len(result[1]) = size
        THEN result ELSE <<>>
-----------------------------------------------------------------------------
(* References. A value is <<"oid", id>>, <<"ref", name>>, <<"bad", 0>> or absent. *)

Absent == <<"absent", 0>>
ValidName(name) == name # ""

LooseValue(r, place, name) ==
    IF name \in DOMAIN r.refs[place] THEN r.refs[place][name] ELSE Absent

\* The first line of packed-refs that matters: one for the name, or one that is malformed.
PackedValue(r, name) ==
    LET matters(i) == r.packed[i].name = name \/ r.packed[i].value[1] = "bad"
        first == {i \in DOMAIN r.packed : matters(i) /\ \A j \in 1..(i - 1) : ~matters(j)}
    IN  IF first = {} THEN Absent
        ELSE LET line == r.packed[CHOOSE i \in first : TRUE]
             IN  IF line.value[1] = "oid" THEN line.value ELSE <<"bad", 0>>

ValueAt(r, place, name) ==
    IF place = "packed" THEN PackedValue(r, name) ELSE LooseValue(r, place, name)

Places(r) == IF r.linked THEN <<"git", "common", "packed">> ELSE <<"common", "packed">>
-----------------------------------------------------------------------------
(* The index, trees and packs. *)

\* The order of paths: a directory before what is in it.
Before(a, b) ==
    \E n \in 0..Len(a) :
        /\ n < Len(b) /\ \A i \in 1..n : a[i] = b[i]
        /\ n = Len(a) \/ a[n + 1] < b[n + 1]

ValidPath(path) == path # <<>> /\ \A i \in DOMAIN path : path[i] > 0

\* loadSoakCanaryGitIndex
ValidIndex(index) ==
    /\ index.sound /\ Len(index.entries) <= MaxEntries
    /\ \A i \in DOMAIN index.entries :
        LET entry == index.entries[i]
        IN  /\ entry.plain /\ ValidPath(entry.path) /\ entry.mode \in FileModes
            /\ i > 1 => Before(index.entries[i - 1].path, entry.path)

\* compareSoakCanaryGitIndexToHEAD: as many entries, and each of them in the tree.
IndexAgrees(entries, tree) ==
    /\ Len(entries) = Cardinality(DOMAIN tree)
    /\ \A i \in DOMAIN entries :
        /\ entries[i].path \in DOMAIN tree
        /\ tree[entries[i].path] = [mode |-> entries[i].mode, oid |-> entries[i].oid]

\* One tree object under a prefix: its files, by position, and what its entries are, in order.
Files(data) == {i \in DOMAIN data : data[i].mode \in FileModes}
Listed(data, prefix, depth) ==
    [i \in DOMAIN data |-> [mode |-> data[i].mode, oid |-> data[i].oid, depth |-> depth,
                           prefix |-> Append(prefix, data[i].name)]]
ValidTree(data, prefix, tree) ==
    /\ \A i \in DOMAIN data : data[i].mode \in FileModes \union {"tree"} /\ data[i].name > 0
    /\ \A i \in Files(data) : Append(prefix, data[i].name) \notin DOMAIN tree
    /\ \A i, j \in Files(data) : data[i].name = data[j].name => i = j
    /\ Cardinality(DOMAIN tree) + Cardinality(Files(data)) <= MaxEntries
WithFiles(data, prefix, tree) ==
    [path \in DOMAIN tree \union {Append(prefix, data[i].name) : i \in Files(data)} |->
        IF path \in DOMAIN tree THEN tree[path]
        ELSE LET i == CHOOSE i \in Files(data) : Append(prefix, data[i].name) = path
             IN  [mode |-> data[i].mode, oid |-> data[i].oid]]

\* The binary search for an object ID: the first name that is not smaller.
LowerBound(names, id) ==
    LET search[left, right \in 0..Len(names)] ==
            LET middle == left + (right - left) \div 2
            IN  CASE left >= right -> left
                  [] left < right /\ names[middle + 1] < id -> search[middle + 1, right]
                  [] OTHER -> search[left, middle]
    IN  search[0, Len(names)]

\* An offset of the index is in its table, or in the table of large ones.
StoredOffset(pack, i) ==
    LET stored == pack.offsets[i]
        large == stored - SmallOffsets + 1
    IN  CASE stored < SmallOffsets -> stored
          [] stored >= SmallOffsets /\ large \in DOMAIN pack.large -> pack.large[large]
          [] OTHER -> Wrong

\* findSoakCanaryGitPackedOffset: where the object is, 0 if it is not in the pack.
Find(pack, id) ==
    LET count == Len(pack.names)
        i == LowerBound(pack.names, id) + 1
        sorted == \A j \in 2..count : pack.names[j - 1] < pack.names[j]
    IN  CASE ~pack.sound \/ ~sorted -> Wrong
          [] pack.sound /\ sorted /\ (i > count \/ pack.names[i] # id) -> 0
          [] OTHER ->
                IF pack.bound /\ StoredOffset(pack, i) \in FirstOffset..(pack.end - 1)
                THEN StoredOffset(pack, i) ELSE Wrong
-----------------------------------------------------------------------------
(* The verifier. *)

Idle ==
    [step |-> "head", name |-> "", place |-> 0, hops |-> 0, index |-> <<>>,
     goal |-> <<>>, todo |-> <<>>, tree |-> <<>>, want |-> 0, object |-> <<>>, frames |-> <<>>, depth |-> 0,
     listed |-> {}, pack |-> 0, offset |-> 0, seen |-> {}, budget |-> TotalBudget, at |-> 0, size |-> 0,
     modes |-> TRUE, pending |-> {}, found |-> {}]

Reject == v' = [Idle EXCEPT !.step = "rejected"]
Accept == v' = [Idle EXCEPT !.step = "accepted"]

\* A value of HEAD or of a reference: the approved commit, or the next reference.
Follow(value, hops) ==
    CASE value = <<"oid", expected>> -> v' = [Idle EXCEPT !.step = "index"]
      [] value[1] = "ref" /\ ValidName(value[2]) /\ hops < MaxReferences ->
            v' = [Idle EXCEPT !.step = "reference", !.name = value[2], !.place = 1, !.hops = hops]
      [] OTHER -> Reject

\* The directories must be plain ones, and HEAD readable.
ReadHead ==
    /\ v.step = "head"
    /\ IF repo.safe THEN Follow(repo.head, 0) ELSE Reject

ReadReference ==
    /\ v.step = "reference"
    /\ LET places == Places(repo)
           value == ValueAt(repo, places[v.place], v.name)
       IN  CASE value # Absent -> Follow(value, v.hops + 1)
             [] value = Absent /\ v.place < Len(places) -> v' = [v EXCEPT !.place = @ + 1]
             [] OTHER -> Reject

\* store.object for the first time, at depth 0.
Fetch(next, goal, id) ==
    v' = [next EXCEPT !.step = "loose", !.goal = goal, !.want = id, !.frames = <<>>,
            !.depth = 0, !.seen = {}, !.object = <<>>]

ReadIndex ==
    /\ v.step = "index"
    /\ IF ValidIndex(repo.index)
       THEN Fetch([v EXCEPT !.index = repo.index.entries], <<>>, expected)
       ELSE Reject

\* The next tree, in the order of the entries, or the comparison.
NextTree(next) ==
    LET trees == {i \in DOMAIN next.todo : next.todo[i].mode = "tree"}
    IN  \/ /\ trees = {}
           /\ v' = [next EXCEPT !.step = "compare", !.goal = <<>>, !.todo = <<>>, !.object = <<>>]
        \/ \E i \in trees :
            /\ \A j \in trees : i <= j
            /\ IF next.todo[i].depth < MaxDepth
               THEN Fetch([next EXCEPT !.todo = SubSeq(@, i + 1, Len(@))],
                          <<next.todo[i]>>, next.todo[i].oid)
               ELSE Reject

\* The object that was asked for: the commit, which names its tree, or a tree.
Deliver ==
    /\ v.step = "object" /\ v.frames = <<>>
    /\ LET kind == v.object[1]
           data == v.object[2]
           goal == v.goal[1]
       IN  CASE v.goal = <<>> /\ kind = "commit" /\ data # <<>> ->
                    NextTree([v EXCEPT !.todo =
                        <<[mode |-> "tree", oid |-> data[1], depth |-> 0, prefix |-> <<>>]>>])
             [] v.goal # <<>> /\ kind = "tree" /\ ValidTree(data, goal.prefix, v.tree) ->
                    NextTree([v EXCEPT
                        !.tree = WithFiles(data, goal.prefix, @),
                        !.todo = Listed(data, goal.prefix, goal.depth + 1) \o @])
             [] OTHER -> Reject

\* Mutant: what a delta makes is not counted.
ReserveFreely(budget, size) == budget - size

\* soakCanaryGitBudget.reserve
Reserve(budget, size) == IF size <= budget THEN budget - size ELSE Wrong

\* An object has been read.
Return(next, object) == v' = [next EXCEPT !.step = "object", !.object = object]

\* Whoever waits for an object gets it: a delta, for its base, or a look-up that compares
\* the object's digest with the name it was looked up by.
Unwind ==
    /\ v.step = "object" /\ v.frames # <<>>
    /\ LET frame == Head(v.frames)
           result == Apply(v.object[2], frame.delta)
           left == Reserve(v.budget, DeltaSize(frame.delta.result))
           rest == [v EXCEPT !.frames = Tail(@)]
       IN  CASE frame.check /\ HasDigest(v.object, frame.oid) -> v' = rest
             [] ~frame.check /\ result # <<>> /\ left # Wrong ->
                    v' = [rest EXCEPT !.budget = left, !.object = <<@[1], result[1]>>]
             [] OTHER -> Reject

\* looseObject: what is there must be right; only what is absent is looked for in packs.
FindLoose ==
    /\ v.step = "loose"
    /\ LET stored == repo.loose[v.want]
       IN  CASE v.depth >= MaxDepth -> Reject
             [] v.depth < MaxDepth /\ v.want \notin DOMAIN repo.loose ->
                    v' = [v EXCEPT !.step = "packs"]
             [] OTHER ->
                    IF /\ stored.size <= MaxObject /\ stored.size <= v.budget
                       /\ stored.size = Len(stored.object[2]) /\ HasDigest(stored.object, v.want)
                    THEN Return([v EXCEPT !.budget = Reserve(@, stored.size)], stored.object)
                    ELSE Reject

\* packedObject: the names of the packs are listed once for a look-up.
ListPacks ==
    /\ v.step = "packs"
    /\ IF Cardinality(DOMAIN repo.packs) <= MaxPacks
       THEN v' = [v EXCEPT !.step = "search", !.listed = DOMAIN repo.packs] ELSE Reject

\* The first pack of the list that has the object; one that cannot be read, or that is
\* gone by now, ends the search.
SearchPack ==
    /\ v.step = "search"
    /\ LET name == Min(v.listed)
           place == Find(repo.packs[name], v.want)
           frame == [check |-> TRUE, oid |-> v.want, delta |-> <<>>]
       IN  CASE v.listed = {} \/ name \notin DOMAIN repo.packs \/ place = Wrong -> Reject
             [] v.listed # {} /\ name \in DOMAIN repo.packs /\ place = 0 ->
                    v' = [v EXCEPT !.listed = @ \ {name}]
             [] OTHER ->
                    v' = [v EXCEPT !.step = "entry", !.pack = name, !.listed = {}, !.seen = {},
                            !.offset = place, !.frames = <<frame>> \o @]

\* packObjectAt: an object, or a delta and where its base is.
ReadEntry ==
    /\ v.step = "entry"
    /\ LET pack == repo.packs[v.pack]
           entry == pack.entries[v.offset]
           size == HeaderSize(entry.size)
           left == Reserve(v.budget, size)
           base == v.offset - Distance(entry.distance)
           deeper == [v EXCEPT !.depth = @ + 1, !.budget = left,
                        !.frames = <<[check |-> FALSE, oid |-> 0, delta |-> entry.data]>> \o @]
       IN  CASE \/ v.depth >= MaxDepth \/ v.offset \in v.seen \/ v.pack \notin DOMAIN repo.packs
                \/ v.offset \notin FirstOffset..(pack.end - 1)
                \/ v.offset \notin DOMAIN pack.entries -> Reject
             [] OTHER ->
                IF size \notin 0..MaxObject \/ left = Wrong \/ size # entry.length THEN Reject
                ELSE CASE entry.type \in {"commit", "tree", "blob", "tag"} ->
                            Return([v EXCEPT !.budget = left], <<entry.type, entry.data>>)
                       [] entry.type = "ofs" /\ Distance(entry.distance) # Wrong
                          /\ base >= FirstOffset ->
                            v' = [deeper EXCEPT !.offset = base, !.seen = @ \union {v.offset}]
                       [] entry.type = "ref" ->
                            v' = [deeper EXCEPT !.step = "loose", !.want = entry.base]
                       [] OTHER -> Reject
-----------------------------------------------------------------------------
(* The worktree. *)

\* core.filemode: the later of the two files decides.
Stated(config) == IF config.worktree # "absent" THEN config.worktree ELSE config.common
ChecksModes(config) == Stated(config) \in {"absent", "true"}

Compare ==
    /\ v.step = "compare"
    /\ IF IndexAgrees(v.index, v.tree) /\ "malformed" \notin {repo.config.common, repo.config.worktree}
       THEN v' = [v EXCEPT !.step = "stat", !.at = 1, !.modes = ChecksModes(repo.config), !.tree = <<>>]
       ELSE Reject

\* What lstat says fits the mode of the entry.
KindFits(entry, mode, checkModes) ==
    /\ entry.kind = IF mode = "link" THEN "link" ELSE "file"
    /\ checkModes /\ mode # "link" => entry.exec = (mode = "755")

\* What opening the path reads, through a link if it is one: <<data>>, or <<>>.
Readable(entry) == IF entry.kind = "file" THEN <<entry.content>> ELSE entry.behind
\* What the digest of the entry is taken of.
Hashed(entry, mode) ==
    IF mode = "link" THEN IF entry.kind = "link" THEN <<entry.content>> ELSE <<>>
    ELSE Readable(entry)

Stat ==
    /\ v.step = "stat" /\ v.at <= Len(v.index)
    /\ LET tracked == v.index[v.at]
       IN  IF tracked.path \in DOMAIN repo.work
              /\ KindFits(repo.work[tracked.path], tracked.mode, v.modes)
           THEN v' = [v EXCEPT !.step = "hash", !.size = Len(repo.work[tracked.path].content)]
           ELSE Reject

\* The path is opened after lstat looked at it, and may be something else by now.
Digest ==
    /\ v.step = "hash"
    /\ LET tracked == v.index[v.at]
           read == IF tracked.path \in DOMAIN repo.work
                   THEN Hashed(repo.work[tracked.path], tracked.mode) ELSE <<>>
       IN  IF /\ read # <<>> /\ HasDigest(<<"blob", read[1]>>, tracked.oid)
              /\ tracked.mode # "link" => Len(read[1]) = v.size /\ v.size <= MaxFile
           THEN v' = [v EXCEPT !.step = "stat", !.at = @ + 1, !.size = 0] ELSE Reject

\* The children of a directory, each listed as a directory or not.
Below(directory) == {path \in DOMAIN repo.work : IsStrictPrefix(directory, path)}
Children(directory) ==
    {[path |-> path, directory |-> path \notin DOMAIN repo.work] :
        path \in {SubSeq(below, 1, Len(directory) + 1) : below \in Below(directory)}}

StartWalk ==
    /\ v.step = "stat" /\ v.at > Len(v.index)
    /\ v' = [v EXCEPT !.step = "walk", !.pending = Children(<<>>)]

Tracked == {v.index[i].path : i \in DOMAIN v.index}

\* The first of what is listed; the children of a directory come before what follows it.
\* One that was listed and has no file any more is empty, or gone.
Visit ==
    /\ v.step = "walk"
    /\ \E entry \in v.pending :
        /\ \A other \in v.pending : ~Before(other.path, entry.path)
        /\ CASE entry.directory /\ Below(entry.path) # {} ->
                    v' = [v EXCEPT !.pending = (@ \ {entry}) \union Children(entry.path)]
             [] entry.directory /\ Below(entry.path) = {} /\ entry.path \notin DOMAIN repo.work ->
                    v' = [v EXCEPT !.pending = @ \ {entry}] \/ Reject
             [] ~entry.directory /\ entry.path \in DOMAIN repo.work \intersect Tracked
             /\ repo.work[entry.path].kind \in {"file", "link"} ->
                    v' = [v EXCEPT !.pending = @ \ {entry}, !.found = @ \union {entry.path}]
             [] OTHER -> Reject

\* Mutant: how many paths were met is not compared.
AllMetUnchecked == TRUE
AllMet == Cardinality(v.found) = Cardinality(Tracked)

EndWalk ==
    /\ v.step = "walk" /\ v.pending = {}
    /\ IF AllMet THEN Accept ELSE Reject
-----------------------------------------------------------------------------
(* Edits of a user, and maintenance by Git, which adds before it removes.        *)

Answered == v.step \in {"accepted", "rejected"}

With(f, x, y) == [z \in DOMAIN f \union {x} |-> IF z = x THEN y ELSE f[z]]
Without(f, x) == [z \in DOMAIN f \ {x} |-> f[z]]
Merged(f, g) == [z \in DOMAIN f \union DOMAIN g |-> IF z \in DOMAIN f THEN f[z] ELSE g[z]]

UserEdit ==
    \/ \E w \in Writes :
        /\ \A path \in DOMAIN repo.work : ~IsStrictPrefix(path, w[1]) /\ ~IsStrictPrefix(w[1], path)
        /\ repo' = [repo EXCEPT !.work = With(@, w[1], w[2])]
    \/ \E path \in Removals \intersect DOMAIN repo.work :
        repo' = [repo EXCEPT !.work = Without(@, path)]
    \/ \E head \in Heads : repo' = [repo EXCEPT !.head = head]
    \/ \E b \in Branches : repo' = [repo EXCEPT !.refs.common = With(@, b[1], b[2])]
    \/ \E index \in Indexes : repo' = [repo EXCEPT !.index = index]

\* A pack may go when each of its objects is also loose, or in another pack.
InPacks(packs, id) == \E name \in DOMAIN packs : Find(packs[name], id) \notin {0, Wrong}
Superseded(name) ==
    \A i \in DOMAIN repo.packs[name].names :
        LET id == repo.packs[name].names[i]
        IN  id \in DOMAIN repo.loose \/ InPacks(Without(repo.packs, name), id)

Maintenance ==
    \/ \E name \in DOMAIN repo.refs.common :
        LET line == [name |-> name, value |-> repo.refs.common[name]]
            old == {i \in DOMAIN repo.packed : repo.packed[i].name = name}
        IN  /\ line.value[1] = "oid"
            /\ \/ repo' = [repo EXCEPT !.packed =
                        IF old = {} THEN Append(@, line)
                        ELSE [i \in DOMAIN @ |-> IF i \in old THEN line ELSE @[i]]]
               \/ /\ PackedValue(repo, name) = line.value
                  /\ repo' = [repo EXCEPT !.refs.common = Without(@, name)]
    \/ /\ repo.spare # <<>>
       /\ repo' = [repo EXCEPT !.packs = Merged(@, repo.spare), !.spare = <<>>]
    \/ \E id \in DOMAIN repo.loose :
        /\ InPacks(repo.packs, id)
        /\ repo' = [repo EXCEPT !.loose = Without(@, id)]
    \/ \E name \in DOMAIN repo.packs : Superseded(name) /\ repo' = [repo EXCEPT !.packs = Without(@, name)]

\* What the verifier may still open: the packs it has listed, or the one it reads from.
GoesBy ==
    CASE v.step = "search" -> v.listed
      [] v.step = "entry" -> {v.pack}
      [] OTHER -> {}

\* The file that the next step reads.
Reading(r) ==
    CASE v.step = "head" -> r.head
      [] v.step = "reference" ->
            IF Places(r)[v.place] = "packed" THEN r.packed ELSE LooseValue(r, Places(r)[v.place], v.name)
      [] v.step = "index" -> r.index
      [] v.step = "loose" -> v.want \in DOMAIN r.loose
      [] v.step = "hash" -> {r.work[p] : p \in {v.index[v.at].path} \intersect DOMAIN r.work}
      [] OTHER -> "nothing"

\* A file that changes while it is read, or between its look-up and its opening, is
\* not accepted: its identity or its size differs.
Edit ==
    /\ ~Answered /\ edits < MaxEdits /\ repo.edited
    /\ edits' = edits + 1
    /\ \/ UserEdit /\ touched' = TRUE /\ UNCHANGED v
       \/ Maintenance /\ UNCHANGED <<v, touched>>
       \/ /\ UserEdit \/ Maintenance
          /\ Reading(repo') # Reading(repo)
          /\ touched' = TRUE /\ Reject
    /\ past' = [since |-> past.since \union {repo'},
                walk |-> IF v.step = "walk" THEN past.walk \union {repo'} ELSE {}]
    /\ swept' = (swept \/ GoesBy \intersect (DOMAIN repo.packs \ DOMAIN repo'.packs) # {})
    /\ UNCHANGED expected

VerifierStep ==
    /\ \/ ReadHead \/ ReadReference \/ ReadIndex \/ FindLoose \/ ListPacks \/ SearchPack
       \/ ReadEntry \/ Unwind \/ Deliver \/ Compare \/ Stat \/ Digest \/ StartWalk \/ Visit \/ EndWalk
    /\ past' = IF v.step # "walk" /\ v'.step = "walk" THEN [past EXCEPT !.walk = {repo}] ELSE past
    /\ UNCHANGED <<expected, repo, touched, edits, swept>>

Init ==
    /\ \E request \in Requests : expected = request[1] /\ repo = request[2]
    /\ v = Idle /\ past = [since |-> {repo}, walk |-> {}]
    /\ touched = FALSE /\ edits = 0 /\ swept = FALSE

Next == VerifierStep \/ Edit
Spec == Init /\ [][Next]_vars
-----------------------------------------------------------------------------
(* Properties. *)

\* Each field is what it should be; the budget never goes below nothing, although
\* every object, delta and result is taken off it, and the chain of deltas is bounded.
TypeOK ==
    /\ v.budget \in 0..TotalBudget /\ v.depth \in 0..MaxDepth /\ v.hops \in 0..MaxReferences
    /\ Len(v.frames) <= 2 * MaxDepth /\ v.at \in 0..(Len(v.index) + 1)
    /\ touched \in BOOLEAN /\ swept \in BOOLEAN /\ edits \in 0..MaxEdits /\ repo \in past.since

\* From one of the heads to a value in n hops: each reference, <<its name, its value>>,
\* names the next one.
Leads(heads, references, n, value) ==
    \E chain \in [0..n -> heads \union {reference[2] : reference \in references}] :
        /\ chain[0] \in heads /\ chain[n] = value
        /\ \A i \in 1..n : chain[i - 1][1] = "ref" /\ <<chain[i - 1][2], chain[i]>> \in references
ReachesApproved(heads, references) ==
    \E n \in 0..MaxReferences : Leads(heads, references, n, <<"oid", expected>>)

\* What the references of a repository stand for: a loose one for more than a packed one.
PackedNames(r) == {r.packed[i].name : i \in DOMAIN r.packed}
Resolved(r) ==
    {<<name, r.refs.git[name]>> : name \in DOMAIN r.refs.git}
    \union {<<name, r.refs.common[name]>> : name \in DOMAIN r.refs.common \ DOMAIN r.refs.git}
    \union {<<r.packed[i].name, r.packed[i].value>> :
                i \in {j \in DOMAIN r.packed :
                        r.packed[j].name \notin DOMAIN r.refs.common \union DOMAIN r.refs.git}}

ModesMatter(config) ==
    CASE config.worktree # "absent" -> config.worktree = "true"
      [] config.worktree = "absent" /\ config.common # "absent" -> config.common = "true"
      [] OTHER -> TRUE

InIndex(index) == {<<index.entries[i].path, index.entries[i].mode, index.entries[i].oid>> :
                    i \in DOMAIN index.entries}
InCommit == FilesOf(Named[expected][2][1])
RightKind(entry, mode, modes) ==
    CASE mode = "link" -> entry.kind = "link"
      [] mode # "link" -> entry.kind = "file" /\ (modes => entry.exec = (mode = "755"))

\* What the four parts of Git's own status say of a repository, without a look at how
\* it is stored: no file is damaged, HEAD is the approved commit, the index is its
\* tree, and the worktree is the index.
Clean(r) ==
    /\ r.damage = "none" /\ ReachesApproved({r.head}, Resolved(r))
    /\ InIndex(r.index) = InCommit
    /\ DOMAIN r.work = {f[1] : f \in InCommit}
    /\ \A f \in InCommit :
        /\ RightKind(r.work[f[1]], f[2], ModesMatter(r.config))
        /\ r.work[f[1]].content = Named[f[3]][2]

\* A repository that nobody edits is accepted only if it is clean, and if it is clean it
\* is accepted: whatever the encodings, deltas, packs and references that it is stored
\* in, and while Git packs its references, packs its objects again and removes those,
\* and those packs, that are elsewhere. One case is left out: a pack that the verifier
\* has listed or reads from is removed, which it does not look past.
QuietIsExact ==
    Answered /\ ~touched =>
        /\ v.step = "accepted" => Clean(repo)
        /\ Clean(repo) /\ ~swept => v.step = "accepted"

\* Every fact that an acceptance rests on was true while the verifier ran, however
\* the user edited: each hop from HEAD, the index, and for each file its kind, what it
\* held, and that it was there, and no other file, while the worktree was walked.
References(r) ==
    {<<name, ValueAt(r, place, name)>> : place \in {"git", "common", "packed"},
        name \in DOMAIN r.refs.git \union DOMAIN r.refs.common \union PackedNames(r)}

AcceptedWasThere ==
    v.step = "accepted" =>
        /\ ReachesApproved({r.head : r \in past.since}, UNION {References(r) : r \in past.since})
        /\ \E r \in past.since : InIndex(r.index) = InCommit
        /\ \A f \in InCommit :
            LET here == {r \in past.since : f[1] \in DOMAIN r.work}
            IN  /\ \E r \in here : RightKind(r.work[f[1]], f[2], ModesMatter(r.config))
                /\ \E r \in here : Hashed(r.work[f[1]], f[2]) = <<Named[f[3]][2]>>
                /\ \E r \in past.walk : f[1] \in DOMAIN r.work
        /\ \A p \in (UNION {DOMAIN r.work : r \in past.walk}) \ {f[1] : f \in InCommit} :
            \E r \in past.walk : p \notin DOMAIN r.work
=============================================================================
