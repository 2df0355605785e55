---------------------------- MODULE MCGitVerify ----------------------------
(* Instances of GitVerify: repositories whose objects are stored in every way  *)
(* that Git stores them, the same ones damaged or edited, and a few that are   *)
(* edited while they are verified.                                            *)
EXTENDS GitVerify

File(mode, name, oid) == [mode |-> mode, name |-> name, oid |-> oid]
Sub(name, oid) == File("tree", name, oid)

\* Commit 1 has the tree 5, with the tree 6 below it. 20 is another commit; 2 is a tag;
\* 30 to 37 are commits that no repository may have checked out. 3, 7 and 8 are bases.
RootTree == <<File("644", 1, 10), Sub(2, 6), File("755", 3, 11)>>
SubTree == <<File("link", 1, 12), File("644", 2, 10)>>
MCNamed ==
    1 :> <<"commit", <<5, 90, 91, 92>>>> @@ 2 :> <<"tag", <<1>>>> @@
    3 :> <<"commit", <<5, 90, 91, 92, 93>>>> @@
    5 :> <<"tree", RootTree>> @@ 6 :> <<"tree", SubTree>> @@
    7 :> <<"tree", SubSeq(RootTree, 1, 2)>> @@ 8 :> <<"tree", SubSeq(RootTree, 1, 1)>> @@
    10 :> <<"blob", <<7>>>> @@ 11 :> <<"blob", <<7, 8>>>> @@ 12 :> <<"blob", <<9>>>> @@
    13 :> <<"blob", <<8>>>> @@ 14 :> <<"blob", <<1, 2, 3, 4, 5>>>> @@
    20 :> <<"commit", <<21>>>> @@ 21 :> <<"tree", <<File("644", 1, 13)>>>> @@
    30 :> <<"commit", <<>>>> @@
    31 :> <<"commit", <<41>>>> @@ 41 :> <<"tree", <<File("644", 1, 10), File("644", 1, 13)>>>> @@
    32 :> <<"commit", <<42>>>> @@ 42 :> <<"tree", <<Sub(2, 8), Sub(2, 8)>>>> @@
    33 :> <<"commit", <<43>>>> @@ 43 :> <<"tree", <<File("module", 1, 20)>>>> @@
    34 :> <<"commit", <<44>>>> @@ 44 :> <<"tree", <<Sub(1, 45)>>>> @@ 45 :> <<"tree", <<Sub(1, 47)>>>> @@
    47 :> <<"tree", <<Sub(1, 8)>>>> @@
    35 :> <<"commit", <<48>>>> @@ 48 :> <<"tree", <<File("644", 1, 14)>>>> @@
    36 :> <<"commit", <<10>>>> @@
    37 :> <<"commit", <<49>>>> @@
    49 :> <<"tree", [i \in 1..4 |-> File("644", i, 10)] \o <<Sub(5, 8)>>>>

\* The files of every tree, from those of the trees in it.
MCTrees ==
    LET trees == {id \in DOMAIN MCNamed : MCNamed[id][1] = "tree"}
        files[id \in trees] ==
            LET data == MCNamed[id][2]
            IN  UNION {IF data[i].mode = "tree"
                       THEN {<<<<data[i].name>> \o f[1], f[2], f[3]>> : f \in files[data[i].oid]}
                       ELSE IF data[i].mode \in FileModes
                            THEN {<<<<data[i].name>>, data[i].mode, data[i].oid>>} ELSE {} :
                       i \in DOMAIN data}
    IN  files
-----------------------------------------------------------------------------
(* Encodings. *)

RECURSIVE Small(_)
Small(n) ==
    IF n < Radix THEN <<[more |-> FALSE, bits |-> n]>>
    ELSE <<[more |-> TRUE, bits |-> n % Radix]>> \o Small(n \div Radix)
Header(n) ==
    IF n < HeaderRadix THEN <<[more |-> FALSE, bits |-> n]>>
    ELSE <<[more |-> TRUE, bits |-> n % HeaderRadix]>> \o Small(n \div HeaderRadix)
Back(n) ==
    IF n < Radix THEN <<[more |-> FALSE, bits |-> n]>>
    ELSE <<[more |-> TRUE, bits |-> (n - Radix) \div Radix], [more |-> FALSE, bits |-> n % Radix]>>
Endless(n) == [i \in 1..n |-> [more |-> i < n, bits |-> 1]]

Entry == [type |-> "", size |-> <<>>, length |-> 0, distance |-> <<>>, base |-> 0, data |-> <<>>]
Whole(id) ==
    [Entry EXCEPT !.type = MCNamed[id][1], !.size = Header(Len(MCNamed[id][2])),
        !.length = Len(MCNamed[id][2]), !.data = MCNamed[id][2]]
Delta(base, result, commands) ==
    [base |-> Small(base), result |-> Small(result), commands |-> commands]
Far(distance, length, delta) ==
    [Entry EXCEPT !.type = "ofs", !.size = Header(length), !.length = length,
        !.distance = Back(distance), !.data = delta]
On(id, length, delta) ==
    [Entry EXCEPT !.type = "ref", !.size = Header(length), !.length = length, !.base = id, !.data = delta]
Nothing == [i \in {} |-> 0]
Copy(offset, length) == [copy |-> TRUE, literal |-> <<>>, offset |-> offset, length |-> length]
Literal(data) == [copy |-> FALSE, literal |-> data, offset |-> Nothing, length |-> Nothing]

\* 8 to 7, 7 to 5, and 3 to 1 by a copy that states neither offset nor length.
Grow8 == Delta(1, 2, <<Copy(Nothing, 0 :> 1), Literal(<<RootTree[2]>>)>>)
Grow7 == Delta(2, 3, <<Copy(Nothing, 0 :> 1), Copy(0 :> 1, 0 :> 1), Literal(<<RootTree[3]>>)>>)
Shrink3 == Delta(5, 4, <<Copy(Nothing, Nothing)>>)

\* A pack of ids, each with its offset and its entry.
Pack(content) ==
    LET names == SetToSortSeq(DOMAIN content, <)
        offset(i) == content[names[i]][1]
        high == SelectSeq(names, LAMBDA id : content[id][1] >= SmallOffsets)
        rank(id) == CHOOSE k \in DOMAIN high : high[k] = id
    IN  [names |-> names,
         offsets |-> [i \in DOMAIN names |-> IF offset(i) < SmallOffsets THEN offset(i)
                                             ELSE SmallOffsets + rank(names[i]) - 1],
         large |-> [k \in DOMAIN high |-> content[high[k]][1]],
         entries |-> [o \in {content[id][1] : id \in DOMAIN content} |->
                        (CHOOSE e \in {content[id] : id \in DOMAIN content} : e[1] = o)[2]],
         end |-> 40, sound |-> TRUE, bound |-> TRUE]

Objects(ids) == [id \in ids |-> [size |-> Len(MCNamed[id][2]), object |-> MCNamed[id]]]
Parts == 1 :> <<2, Whole(1)>> @@ 5 :> <<6, Whole(5)>> @@ 6 :> <<20, Whole(6)>>
Chain == 1 :> <<5, Far(3, 2, Shrink3)>> @@ 3 :> <<2, Whole(3)>> @@
         5 :> <<25, Far(9, 4, Grow7)>> @@ 7 :> <<16, Far(4, 3, Grow8)>> @@ 8 :> <<12, Whole(8)>> @@
         6 :> <<30, Whole(6)>>
Part(ids) == [id \in ids |-> Parts[id]]
-----------------------------------------------------------------------------
(* A clean repository, with its objects loose. *)

Plain(path, mode, oid) == [path |-> path, mode |-> mode, oid |-> oid, plain |-> TRUE]
GoodIndex == [sound |-> TRUE, entries |->
    <<Plain(<<1>>, "644", 10), Plain(<<2, 1>>, "link", 12), Plain(<<2, 2>>, "644", 10), Plain(<<3>>, "755", 11)>>]
Thing(kind, content, exec, behind) == [kind |-> kind, content |-> content, exec |-> exec, behind |-> behind]
Holding(content) == Thing("file", content, FALSE, <<>>)
GoodWork == <<1>> :> Holding(<<7>>) @@ <<2, 1>> :> Thing("link", <<9>>, FALSE, <<<<7>>>>) @@
            <<2, 2>> :> Holding(<<7>>) @@ <<3>> :> Thing("file", <<7, 8>>, TRUE, <<>>)
NoRefs == [name \in {} |-> Absent]
Base ==
    [safe |-> TRUE, linked |-> FALSE, head |-> <<"ref", "main">>,
     refs |-> [git |-> NoRefs, common |-> ("main" :> <<"oid", 1>>)], packed |-> <<>>,
     index |-> GoodIndex, loose |-> Objects({1, 5, 6}), packs |-> <<>>, spare |-> <<>>,
     config |-> [common |-> "true", worktree |-> "absent"], work |-> GoodWork,
     damage |-> "none", edited |-> FALSE]

Bare == [Base EXCEPT !.loose = Objects({})]
Packed(content) == [Bare EXCEPT !.packs = <<Pack(content)>>]
OnRef(content, ids) == [Packed(content) EXCEPT !.loose = Objects(ids)]
Line(name, value) == [name |-> name, value |-> value]

\* The same repository, stored in other ways.
Stored ==
    {Base, Packed(Parts), Packed(Chain),
     OnRef(1 :> Parts[1] @@ 6 :> Parts[6] @@ 5 :> <<9, On(7, 4, Grow7)>>, {7}),
     OnRef([Chain EXCEPT ![7] = <<16, On(8, 3, Grow8)>>], {8}),
     [Bare EXCEPT !.packs = <<Pack(Part({5, 6})), Pack(Part({1}))>>],
     [Bare EXCEPT !.packs = <<Pack(1 :> Parts[1] @@ 6 :> Parts[6] @@ 5 :> <<9, On(7, 4, Grow7)>>),
                              Pack(7 :> <<12, Whole(7)>>)>>],
     Packed([Parts EXCEPT ![6] = <<39, Whole(6)>>]),
     [Packed(Parts) EXCEPT !.packs[1].entries = (20 :> Whole(6)) @@ (21 :> Whole(8)) @@ @],
     [Base EXCEPT !.head = <<"oid", 1>>],
     [Base EXCEPT !.head = <<"ref", "a">>,
        !.refs.common = "a" :> <<"ref", "b">> @@ "b" :> <<"ref", "main">> @@ "main" :> <<"oid", 1>>],
     [Base EXCEPT !.refs.common = NoRefs, !.packed = <<Line("a", <<"oid", 20>>), Line("main", <<"oid", 1>>)>>],
     [Base EXCEPT !.packed = <<Line("main", <<"oid", 20>>)>>],
     [Base EXCEPT !.linked = TRUE, !.refs.git = ("main" :> <<"oid", 1>>),
        !.refs.common = ("main" :> <<"oid", 20>>)],
     [Base EXCEPT !.linked = TRUE],
     [Base EXCEPT !.config.common = "false", !.work[<<1>>].exec = TRUE],
     [Base EXCEPT !.config.common = "false", !.config.worktree = "true"],
     [Base EXCEPT !.config.worktree = "false", !.work[<<3>>].exec = FALSE],
     [Base EXCEPT !.config.common = "absent"]}

\* Sound, but not what was approved.
Entries(entries) == [sound |-> TRUE, entries |-> entries]
Bit(path, entry) == [Base EXCEPT !.work = (path :> entry) @@ @]
Lacking(path) == [Base EXCEPT !.work = [p \in DOMAIN @ \ {path} |-> @[p]]]
Dirty ==
    {[Base EXCEPT !.head = <<"oid", 20>>], [Base EXCEPT !.refs.common = ("main" :> <<"oid", 20>>)],
     [Base EXCEPT !.linked = TRUE, !.refs.git = ("main" :> <<"oid", 20>>)],
     [Base EXCEPT !.refs.common = NoRefs],
     [Base EXCEPT !.refs.common = ("main" :> <<"oid", 20>>), !.packed = <<Line("main", <<"oid", 1>>)>>],
     [Base EXCEPT !.index = Entries(Tail(GoodIndex.entries))],
     [Base EXCEPT !.index = Entries(SubSeq(GoodIndex.entries, 1, 3)), !.work = [p \in DOMAIN GoodWork \ {<<3>>} |-> GoodWork[p]]],
     [Base EXCEPT !.index.entries[1].mode = "755", !.work[<<1>>].exec = TRUE],
     [Base EXCEPT !.index.entries[1].oid = 13, !.work[<<1>>] = Holding(<<8>>)],
     [Base EXCEPT !.index.entries[4].path = <<4>>],
     Bit(<<1>>, Holding(<<8>>)), Bit(<<1>>, Holding(<<7, 8>>)), Bit(<<4>>, Holding(<<7>>)),
     Bit(<<1>>, Thing("link", <<7>>, FALSE, <<<<7>>>>)), Bit(<<1>>, Thing("other", <<7>>, FALSE, <<>>)),
     Bit(<<2, 1>>, Holding(<<9>>)), Bit(<<2, 1>>, Thing("link", <<8>>, FALSE, <<>>)),
     Bit(<<2, 3>>, Holding(<<7>>)), Bit(<<4, 1>>, Holding(<<7>>)), Bit(<<4>>, Thing("other", <<>>, FALSE, <<>>)),
     Lacking(<<1>>), Lacking(<<2, 2>>), [Base EXCEPT !.work[<<1>>].exec = TRUE], [Base EXCEPT !.work[<<3>>].exec = FALSE],
     [Base EXCEPT !.config.worktree = "true", !.config.common = "false", !.work[<<3>>].exec = FALSE]}
-----------------------------------------------------------------------------
(* Damaged repositories. *)

Bad(what, r) == [r EXCEPT !.damage = what]
BadObject(id, size, object) == [Base EXCEPT !.loose[id] = [size |-> size, object |-> object]]
Beyond(n, delta) == Packed([Chain EXCEPT ![1] = <<5, Far(n, 2, delta)>>])
Broken(delta) == Beyond(3, delta)
Twice(path) == Plain(path, "644", 10)
Damaged ==
    {Bad("unsafe", [Base EXCEPT !.safe = FALSE]),
     Bad("HEAD", [Base EXCEPT !.head = <<"bad", 0>>]), Bad("name", [Base EXCEPT !.head = <<"ref", "">>]),
     Bad("reference", [Base EXCEPT !.refs.common = ("main" :> <<"bad", 0>>)]),
     Bad("loop", [Base EXCEPT !.refs.common = ("main" :> <<"ref", "main">>)]),
     Bad("hops", [Base EXCEPT !.head = <<"ref", "a">>, !.refs.common =
        "a" :> <<"ref", "b">> @@ "b" :> <<"ref", "c">> @@ "c" :> <<"ref", "main">> @@ "main" :> <<"oid", 1>>]),
     Bad("packed-refs", [Base EXCEPT !.refs.common = NoRefs, !.packed =
        <<Line("a", <<"bad", 0>>), Line("main", <<"oid", 1>>)>>]),
     Bad("index", [Base EXCEPT !.index.sound = FALSE]),
     Bad("order", [Base EXCEPT !.index.entries = <<@[2], @[1], @[3], @[4]>>]),
     Bad("duplicate", [Base EXCEPT !.index.entries = <<@[1], @[1], @[2], @[3]>>]),
     Bad("stage", [Base EXCEPT !.index.entries[1].plain = FALSE]),
     Bad("path", [Base EXCEPT !.index.entries = <<Twice(<<>>)>> \o Tail(@)]),
     Bad("mode", [Base EXCEPT !.index.entries[1].mode = "module"]),
     Bad("many", [Base EXCEPT !.index.entries = @ \o <<Twice(<<4>>), Twice(<<5>>)>>]),
     Bad("missing", [Base EXCEPT !.loose = Objects({1, 5})]), Bad("all", Bare),
     Bad("size", BadObject(5, 2, MCNamed[5])), Bad("longer", BadObject(5, 4, MCNamed[5])),
     Bad("other", BadObject(5, 2, MCNamed[7])), Bad("kind", BadObject(5, 3, <<"blob", RootTree>>))}
DamagedPacks ==
    {Bad("checksum", [Packed(Parts) EXCEPT !.packs[1].sound = FALSE]),
     Bad("sorted", [Packed(Parts) EXCEPT !.packs[1].names = <<1, 6, 5>>]),
     Bad("binding", [Packed(Parts) EXCEPT !.packs[1].bound = FALSE]),
     Bad("offset", [Packed(Parts) EXCEPT !.packs[1].offsets[1] = 1]),
     Bad("end", [Packed(Parts) EXCEPT !.packs[1].end = 20]),
     Bad("large", [Packed([Parts EXCEPT ![6] = <<39, Whole(6)>>]) EXCEPT !.packs[1].large = <<>>]),
     Bad("swapped", [Packed(Parts) EXCEPT !.packs[1].offsets = <<6, 2, 20>>]),
     Bad("type", [Packed(Parts) EXCEPT !.packs[1].entries[2].type = "five"]),
     Bad("header", [Packed(Parts) EXCEPT !.packs[1].entries[2].size = Header(3)]),
     Bad("unended", [Packed(Parts) EXCEPT !.packs[1].entries[2].size = <<[more |-> TRUE, bits |-> 1]>>]),
     Bad("overflow", [Packed(Parts) EXCEPT !.packs[1].entries[2].size = Endless(6)]),
     Bad("first of packs", [Bare EXCEPT !.packs = <<[Pack(Parts) EXCEPT !.sound = FALSE], Pack(Parts)>>]),
     Bad("packs", [Bare EXCEPT !.packs = <<Pack(Parts), Pack(Parts), Pack(Parts)>>]),
     Bad("itself", Beyond(0, Shrink3)), Bad("below", Beyond(4, Shrink3)), Bad("before", Beyond(9, Shrink3)),
     Bad("far", [Broken(Shrink3) EXCEPT !.packs[1].entries[5].distance = Endless(6)]),
     Bad("cycle", Packed([Parts EXCEPT ![5] = <<9, On(5, 4, Grow7)>>])),
     Bad("deep", [Packed([Chain EXCEPT ![8] = <<12, Far(2, 2, Delta(2, 1, <<Copy(Nothing, 0 :> 1)>>))>>])
                 EXCEPT !.packs[1].entries = (10 :> Whole(7)) @@ @]),
     Bad("base size", Broken([Shrink3 EXCEPT !.base = Small(4)])),
     Bad("result size", Broken([Shrink3 EXCEPT !.result = Small(3)])),
     Bad("short", Broken([Shrink3 EXCEPT !.result = Small(5)])),
     Bad("huge", Broken([Shrink3 EXCEPT !.result = Small(MaxObject + 1)])),
     Bad("empty literal", Broken([Shrink3 EXCEPT !.commands = @ \o <<Literal(<<>>)>>])),
     Bad("copy", Broken([Shrink3 EXCEPT !.commands = <<Copy(0 :> 2, Nothing)>>])),
     Bad("copy end", Broken([Shrink3 EXCEPT !.commands = <<Copy(1 :> 2, 0 :> 1)>>])),
     Bad("result", Broken([Shrink3 EXCEPT !.commands = <<Copy(0 :> 1, Nothing)>>])),
     Bad("endless size", Broken([Shrink3 EXCEPT !.base = Endless(6)])),
     Bad("budget", Packed([Chain EXCEPT ![5] = <<25, Far(9, 5, Grow7)>>])),
     Bad("budget", Packed([Chain EXCEPT ![5] = <<25, Far(9, 5, Grow7)>>, ![7] = <<16, Far(4, 4, Grow8)>>]))}

\* Commits that are not well formed; nobody can check them out.
Requested(commit, ids) ==
    <<commit, Bad("commit", [Base EXCEPT !.head = <<"oid", commit>>, !.loose = Objects(ids),
        !.index = Entries(<<Plain(<<1>>, "644", 10)>>), !.work = (<<1>> :> Holding(<<7>>))])>>
Malformed ==
    {Requested(2, {1, 2, 5, 6}), Requested(30, {30}), Requested(31, {31, 41}), Requested(32, {32, 42, 8}),
     Requested(33, {33, 43}), Requested(34, {34, 44, 45, 8, 47}), Requested(36, {10, 36}),
     Requested(37, {37, 49, 8}),
     <<35, Bad("file", [Base EXCEPT !.head = <<"oid", 35>>, !.loose = Objects({35, 48}),
        !.index = Entries(<<Plain(<<1>>, "644", 14)>>), !.work = (<<1>> :> Holding(<<1, 2, 3, 4, 5>>))])>>}
-----------------------------------------------------------------------------
\* Edited: by a user, and by Git, which packs references and repacks.
Edited ==
    {[Base EXCEPT !.edited = TRUE, !.head = <<"ref", "main">>, !.spare = (3 :> Pack(Chain))],
     [Base EXCEPT !.edited = TRUE, !.linked = TRUE, !.loose = Objects({7, 6, 1}),
        !.packs = <<Pack(5 :> <<9, On(7, 4, Grow7)>>)>>, !.spare = (0 :> Pack(7 :> <<12, Whole(7)>>))],
     [Packed(Chain) EXCEPT !.edited = TRUE, !.spare = (2 :> Pack(Parts))],
     [Packed(Parts) EXCEPT !.edited = TRUE, !.spare = (0 :> Pack(Chain))],
     [Base EXCEPT !.edited = TRUE, !.refs.common = ("main" :> <<"oid", 20>>),
        !.work = (<<1>> :> Holding(<<8>>)) @@ @],
     [Base EXCEPT !.edited = TRUE, !.work = (<<4>> :> Holding(<<7>>)) @@ @]}

MCRequests ==
    {<<1, r>> : r \in Stored \union Dirty \union Damaged \union DamagedPacks \union Edited} \union Malformed

MCWrites ==
    {<<<<1>>, Holding(<<7>>)>>, <<<<1>>, Holding(<<8>>)>>, <<<<1>>, Thing("link", <<4>>, FALSE, <<<<7>>>>)>>,
     <<<<4>>, Holding(<<7>>)>>}
MCRemovals == {<<1>>, <<4>>}
MCHeads == {<<"oid", 20>>, <<"ref", "main">>}
MCBranches == {<<"main", <<"oid", 1>>>>, <<"main", <<"oid", 20>>>>}
MCIndexes == {GoodIndex, Entries(<<Plain(<<1>>, "644", 13)>>)}
=============================================================================
