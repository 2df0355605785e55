---------------------------- MODULE GitVerifySafety ----------------------------
(***************************************************************************)
(* Proofs that what the Git verifier accepts was there.                    *)
(***************************************************************************)
EXTENDS GitVerify, FiniteSetTheorems, SequenceTheorems, WellFoundedInduction, TLAPS

-----------------------------------------------------------------------------
(* Lists and paths.                                                        *)

IsList(s) == s \in Seq(Range(s))

\* A list is the function of its positions.
LEMMA Listed1 ==
    ASSUME NEW s, IsList(s)
    PROVE  /\ Len(s) \in Nat /\ DOMAIN s = 1..Len(s) /\ s = [i \in 1..Len(s) |-> s[i]]
           /\ Range(s) = {s[i] : i \in 1..Len(s)}
<1>1. PICK S : S = Range(s)
  OBVIOUS
<1>2. s \in Seq(S)
  BY <1>1 DEF IsList
<1>3. Len(s) \in Nat /\ DOMAIN s = 1..Len(s) /\ s \in [1..Len(s) -> S]
  BY <1>2, LenProperties
<1> QED BY <1>3 DEF Range

\* A function of the numbers from 1 is a list.
LEMMA MadeList ==
    ASSUME NEW n \in Nat, NEW s, DOMAIN s = 1..n, s = [i \in 1..n |-> s[i]]
    PROVE  IsList(s) /\ Len(s) = n
<1>1. PICK S : S = Range(s)
  OBVIOUS
<1>2. s \in [1..n -> S]
  BY <1>1 DEF Range
<1>3. s \in Seq(S)
  BY <1>2, SeqDef
<1>4. Len(s) \in Nat /\ DOMAIN s = 1..Len(s)
  BY <1>3, LenProperties
<1>5. Len(s) = n
  <2>1. PICK m \in Nat : m = Len(s)
    BY <1>4
  <2>2. 1..m = 1..n
    BY <1>4, <2>1
  <2>3. m <= n
    <3>1. m = 0 \/ m \in 1..n
      BY <2>2
    <3> QED BY <3>1
  <2>4. n <= m
    <3>1. n = 0 \/ n \in 1..m
      BY <2>2
    <3> QED BY <3>1
  <2> QED BY <2>1, <2>3, <2>4
<1> QED BY <1>1, <1>3, <1>5 DEF IsList

\* What is where in two lists that are joined.
LEMMA Joined ==
    ASSUME NEW s, IsList(s), NEW t, IsList(t)
    PROVE  /\ IsList(s \o t) /\ Len(s \o t) = Len(s) + Len(t)
           /\ \A i \in 1..Len(s) : (s \o t)[i] = s[i]
           /\ \A i \in 1..Len(t) : (s \o t)[Len(s) + i] = t[i]
<1>1. PICK S : S = Range(s) \union Range(t)
  OBVIOUS
<1>2. s \in Seq(S) /\ t \in Seq(S)
  BY <1>1, SeqMonotonic DEF IsList
<1>3. /\ s \o t \in Seq(S) /\ Len(s \o t) = Len(s) + Len(t)
      /\ \A i \in 1..(Len(s) + Len(t)) :
            (s \o t)[i] = IF i <= Len(s) THEN s[i] ELSE t[i - Len(s)]
  BY <1>2, ConcatProperties
<1>4. Len(s) \in Nat /\ Len(t) \in Nat
  BY Listed1
<1>5. IsList(s \o t)
  BY <1>3, SeqOfRange DEF IsList
<1>6. ASSUME NEW i \in 1..Len(s) PROVE (s \o t)[i] = s[i]
  BY <1>3, <1>4, <1>6
<1>7. ASSUME NEW i \in 1..Len(t) PROVE (s \o t)[Len(s) + i] = t[i]
  <2>1. Len(s) + i \in 1..(Len(s) + Len(t)) /\ ~ (Len(s) + i <= Len(s)) /\ (Len(s) + i) - Len(s) = i
    BY <1>4
  <2> QED BY <1>3, <2>1
<1> QED BY <1>3, <1>5, <1>6, <1>7

\* A list of one element.
LEMMA OneElement ==
    ASSUME NEW x
    PROVE  IsList(<<x>>) /\ Len(<<x>>) = 1 /\ <<x>>[1] = x
<1>1. Range(<<x>>) = {x}
  BY DEF Range
<1> QED BY <1>1 DEF IsList

\* A list without its first element.
LEMMA Rest ==
    ASSUME NEW s, IsList(s), s # <<>>
    PROVE  /\ IsList(Tail(s)) /\ Len(Tail(s)) = Len(s) - 1 /\ Len(s) \in Nat \ {0}
           /\ Head(s) = s[1]
           /\ \A i \in 1..Len(Tail(s)) : Tail(s)[i] = s[i + 1]
<1>1. PICK S : S = Range(s)
  OBVIOUS
<1>2. s \in Seq(S)
  BY <1>1 DEF IsList
<1>3. /\ Tail(s) \in Seq(S) /\ Len(Tail(s)) = Len(s) - 1
      /\ \A i \in 1..Len(Tail(s)) : Tail(s)[i] = s[i + 1]
  BY <1>2, HeadTailProperties
<1>4. Len(s) \in Nat \ {0}
  BY <1>2, EmptySeq
<1>5. IsList(Tail(s))
  BY <1>3, SeqOfRange DEF IsList
<1> QED BY <1>3, <1>4, <1>5

\* A list without its first elements.
LEMMA After ==
    ASSUME NEW s, IsList(s), NEW k \in 1..Len(s)
    PROVE  /\ IsList(SubSeq(s, k + 1, Len(s))) /\ Len(SubSeq(s, k + 1, Len(s))) = Len(s) - k
           /\ \A i \in 1..(Len(s) - k) : SubSeq(s, k + 1, Len(s))[i] = s[k + i]
<1>1. Len(s) \in Nat /\ DOMAIN s = 1..Len(s)
  BY Listed1
<1>2. PICK S, m, n : S = Range(s) /\ m = k + 1 /\ n = Len(s)
  OBVIOUS
<1>3. m \in Int /\ n \in Int /\ \A i \in m..n : s[i] \in S
  BY <1>1, <1>2 DEF Range
<1>4. /\ SubSeq(s, m, n) \in Seq(S)
      /\ Len(SubSeq(s, m, n)) = IF m <= n THEN n - m + 1 ELSE 0
      /\ \A i \in 1..(n - m + 1) : SubSeq(s, m, n)[i] = s[m + i - 1]
  BY <1>3, SubSeqProperties
<1>5. IsList(SubSeq(s, m, n))
  BY <1>4, SeqOfRange DEF IsList
<1>6. Len(SubSeq(s, m, n)) = n - k /\ n - m + 1 = n - k
  <2>1. n \in Nat /\ k \in 1..n /\ m = k + 1
    BY <1>1, <1>2
  <2>2. m <= n \/ n = k
    BY <2>1
  <2>3. n - m + 1 = n - k
    BY <2>1
  <2>4. (IF m <= n THEN n - m + 1 ELSE 0) = n - k
    BY ONLY <2>1, <2>2
  <2> QED BY <1>4, <2>3, <2>4
<1>7. ASSUME NEW i \in 1..(n - k) PROVE SubSeq(s, m, n)[i] = s[k + i]
  <2>1. i \in 1..(n - m + 1) /\ m + i - 1 = k + i
    BY <1>1, <1>2
  <2> QED BY <1>4, <2>1
<1> QED BY <1>2, <1>5, <1>6, <1>7

-----------------------------------------------------------------------------
(* The order of paths.                                                     *)

\* Induction, for a set of numbers.
LEMMA EveryNumber ==
    ASSUME NEW P, 0 \in P, \A n \in Nat : n \in P => n + 1 \in P
    PROVE  \A n \in Nat : n \in P
<1> DEFINE others == Nat \ P
<1>1. SUFFICES ASSUME others # {} PROVE FALSE
  OBVIOUS
<1>2. PICK x \in others : \A y \in others : ~ (<<y, x>> \in OpToRel(<, Nat))
  BY <1>1, NatLessThanWellFounded, WFMin
<1>3. x \in Nat /\ x # 0 /\ x \notin P
  BY <1>2
<1>4. x - 1 \in Nat /\ x - 1 < x /\ (x - 1) + 1 = x
  BY <1>3
<1>5. <<x - 1, x>> \in OpToRel(<, Nat)
  BY <1>3, <1>4 DEF OpToRel
<1> QED BY <1>2, <1>3, <1>4, <1>5

\* The order of the index (git index order) is transitive.
LEMMA BeforeTransitive ==
    ASSUME NEW a \in Seq(Nat), NEW b \in Seq(Nat), NEW c \in Seq(Nat), Before(a, b), Before(b, c)
    PROVE  Before(a, c)
<1>1. Len(a) \in Nat /\ Len(b) \in Nat /\ Len(c) \in Nat
  BY LenProperties
<1>2. PICK m \in 0..Len(a) :
        /\ m < Len(b) /\ \A i \in 1..m : a[i] = b[i]
        /\ m = Len(a) \/ a[m + 1] < b[m + 1]
  BY DEF Before
<1>3. PICK n \in 0..Len(b) :
        /\ n < Len(c) /\ \A i \in 1..n : b[i] = c[i]
        /\ n = Len(b) \/ b[n + 1] < c[n + 1]
  BY DEF Before
<1>4. CASE m < n
  <2>1. m + 1 \in 1..n /\ m \in 0..Len(a) /\ m < Len(c)
    BY <1>1, <1>3, <1>4
  <2>2. \A i \in 1..m : i \in 1..n
    BY <1>1, <1>4
  <2>3. \A i \in 1..m : a[i] = c[i]
    BY <1>2, <1>3, <2>2
  <2>4. m = Len(a) \/ a[m + 1] < c[m + 1]
    BY <1>2, <1>3, <2>1
  <2> QED BY <2>1, <2>3, <2>4 DEF Before
<1>5. CASE n < m
  <2>1. n + 1 \in 1..m /\ n \in 0..Len(a) /\ n # Len(b)
    BY <1>1, <1>2, <1>5
  <2>2. \A i \in 1..n : i \in 1..m
    BY <1>1, <1>5
  <2>3. \A i \in 1..n : a[i] = c[i]
    BY <1>2, <1>3, <2>2
  <2>4. a[n + 1] < c[n + 1]
    BY <1>2, <1>3, <2>1
  <2> QED BY <1>3, <2>1, <2>3, <2>4 DEF Before
<1>6. CASE n = m
  <2>1. \A i \in 1..m : a[i] = c[i]
    BY <1>2, <1>3, <1>6
  <2>2. m = Len(a) \/ a[m + 1] < c[m + 1]
    <3>1. SUFFICES ASSUME m # Len(a) PROVE a[m + 1] < c[m + 1]
      OBVIOUS
    <3>2. m + 1 \in 1..Len(a) /\ m + 1 \in 1..Len(b) /\ m + 1 \in 1..Len(c)
      BY <1>1, <1>2, <1>3, <1>6, <3>1
    <3>3. a[m + 1] \in Nat /\ b[m + 1] \in Nat /\ c[m + 1] \in Nat
      BY <3>2, ElementOfSeq
    <3>4. a[m + 1] < b[m + 1] /\ b[m + 1] < c[m + 1]
      BY <1>1, <1>2, <1>3, <1>6, <3>1
    <3> QED BY <3>3, <3>4
  <2> QED BY <1>2, <1>3, <1>6, <2>1, <2>2 DEF Before
<1> QED BY <1>1, <1>2, <1>3, <1>4, <1>5, <1>6

\* No path is before itself.
LEMMA NotBeforeItself ==
    ASSUME NEW a \in Seq(Nat)
    PROVE  ~ Before(a, a)
<1>1. SUFFICES ASSUME Before(a, a) PROVE FALSE
  OBVIOUS
<1>2. Len(a) \in Nat
  BY LenProperties
<1>3. PICK n \in 0..Len(a) : n < Len(a) /\ (n = Len(a) \/ a[n + 1] < a[n + 1])
  BY <1>1 DEF Before
<1>4. n + 1 \in 1..Len(a) /\ n # Len(a)
  BY <1>2, <1>3
<1>5. a[n + 1] \in Nat
  BY <1>4, ElementOfSeq
<1> QED BY <1>3, <1>4, <1>5

\* An index that is in order names no path twice.
LEMMA OrderedIsDistinct ==
    ASSUME NEW index, IsIndex(index), ValidIndex(index)
    PROVE  \A i, j \in DOMAIN index.entries :
                index.entries[i].path = index.entries[j].path => i = j
<1> DEFINE path(i) == index.entries[i].path
           n == Len(index.entries)
           P == {k \in Nat : \A i \in 1..n : i + k + 1 <= n => Before(path(i), path(i + k + 1))}
<1>1. n \in Nat /\ DOMAIN index.entries = 1..n
  BY Listed1 DEF IsIndex, IsList
<1>2. \A i \in 1..n : path(i) \in Seq(Nat)
  BY <1>1 DEF IsIndex
<1>3. \A i \in 1..n : i > 1 => Before(path(i - 1), path(i))
  BY <1>1 DEF ValidIndex
<1> HIDE DEF path, n
<1>4. 0 \in P
  <2>1. ASSUME NEW i \in 1..n, i + 0 + 1 <= n PROVE Before(path(i), path(i + 0 + 1))
    <3>1. i + 1 \in 1..n /\ i + 1 > 1 /\ (i + 1) - 1 = i /\ i + 0 + 1 = i + 1
      BY <1>1, <2>1
    <3>2. Before(path((i + 1) - 1), path(i + 1))
      BY <1>3, <3>1
    <3> QED BY <3>1, <3>2
  <2> QED BY <2>1
<1>5. ASSUME NEW k \in Nat, k \in P PROVE k + 1 \in P
  <2>1. ASSUME NEW i \in 1..n, i + (k + 1) + 1 <= n
        PROVE  Before(path(i), path(i + (k + 1) + 1))
    <3>1. PICK j, l : j = i + k + 1 /\ l = i + (k + 1) + 1
      OBVIOUS
    <3>2. j \in 1..n /\ l \in 1..n /\ l > 1 /\ l - 1 = j
      BY <1>1, <2>1, <3>1
    <3>3. Before(path(i), path(j))
      <4>1. i + k + 1 <= n
        BY <1>1, <3>1, <3>2
      <4> QED BY <1>5, <3>1, <4>1
    <3>4. Before(path(j), path(l))
      BY <1>3, <3>2
    <3>5. Before(path(i), path(l))
      BY <1>2, <3>2, <3>3, <3>4, BeforeTransitive
    <3> QED BY <3>1, <3>5
  <2> QED BY <2>1
<1>6. \A k \in Nat : k \in P
  <2> HIDE DEF P
  <2> QED BY <1>4, <1>5, EveryNumber
<1>7. ASSUME NEW i \in 1..n, NEW j \in 1..n, i < j PROVE path(i) # path(j)
  <2>1. PICK k \in Nat : j = i + k + 1
    <3>1. (j - i) - 1 \in Nat /\ j = i + ((j - i) - 1) + 1
      BY <1>1, <1>7
    <3> QED BY <3>1
  <2>2. Before(path(i), path(j))
    <3>1. k \in P
      <4> HIDE DEF P
      <4> QED BY <1>6
    <3>2. i + k + 1 <= n
      BY ONLY <1>1, <2>1, j \in 1..n
    <3>3. Before(path(i), path(i + k + 1))
      BY <3>1, <3>2
    <3> QED BY <2>1, <3>3
  <2>3. PICK a, b : a = path(i) /\ b = path(j)
    OBVIOUS
  <2>4. a \in Seq(Nat) /\ Before(a, b)
    BY <1>2, <2>2, <2>3
  <2>5. a # b
    BY <2>4, NotBeforeItself
  <2> QED BY <2>3, <2>5
<1>8. \A i, j \in 1..n : path(i) = path(j) => i = j
  <2>1. \A i, j \in 1..n : i < j \/ i = j \/ j < i
    BY <1>1
  <2> QED BY <1>7, <2>1
<1> QED BY <1>1, <1>8 DEF path, n

-----------------------------------------------------------------------------
(* The inductive invariant.                                                *)

Fetching == {"loose", "packs", "search", "entry", "object"}
Working == {"stat", "hash", "walk"}
Steps == {"head", "reference", "index", "compare", "accepted", "rejected"} \union Fetching \union Working

\* Every repository that was seen can be decoded, and the configuration stays.
WorldInv ==
    /\ DOMAIN past = {"since", "walk"} /\ repo \in past.since /\ past.walk \subseteq past.since
    /\ \A r \in past.since : Repository(r) /\ r.config = repo.config /\ r.linked = repo.linked
    /\ v.step = "walk" => repo \in past.walk
    /\ touched \in BOOLEAN /\ swept \in BOOLEAN /\ edits \in 0..MaxEdits

\* The verifier's state: each pack entry that is waited for costs a level of the depth,
\* and each level has one look-up and one delta.
ShapeInv ==
    /\ DOMAIN v = DOMAIN Idle /\ v.step \in Steps
    /\ v.budget \in 0..TotalBudget /\ v.depth \in 0..MaxDepth /\ v.hops \in 0..MaxReferences
    /\ IsList(v.frames) /\ IsList(v.index)
    /\ v.step \in {"loose", "packs", "search"} => Len(v.frames) <= 2 * v.depth
    /\ v.step \in {"packs", "search"} => v.depth < MaxDepth
    /\ v.step = "entry" =>
            Len(v.frames) <= 2 * v.depth + 1 /\ Len(v.frames) <= 2 * MaxDepth /\ v.frames # <<>>
    /\ Len(v.frames) <= 2 * MaxDepth
    /\ v.step \notin Working => v.at = 0
    /\ v.step # "walk" => v.found = {}
    /\ v.step = "stat" => v.at \in 1..(Len(v.index) + 1)
    /\ v.step = "hash" => v.at \in 1..Len(v.index)
    /\ v.step = "walk" => v.at = Len(v.index) + 1

\* The references that were there lead from HEAD to where the verifier is.
SeenHeads == {r.head : r \in past.since}
SeenReferences == UNION {References(r) : r \in past.since}
HeadInv ==
    /\ v.step = "reference" =>
        /\ v.place \in DOMAIN Places(repo) /\ v.hops < MaxReferences
        /\ \E value : /\ Leads(SeenHeads, SeenReferences, v.hops, value)
                      /\ value[1] = "ref" /\ value[2] = v.name
    /\ v.step \notin {"head", "reference", "rejected"} =>
        ReachesApproved(SeenHeads, SeenReferences)

\* The index that is compared was there, and in order.
IndexInv ==
    v.step \in Fetching \union {"compare"} \union Working =>
        \E r \in past.since : r.index.entries = v.index /\ ValidIndex(r.index)

\* The object that was asked for, and the look-up that waits for it.
Asked == IF v.goal = <<>> THEN expected ELSE v.goal[1].oid
LastFrame == v.frames[Len(v.frames)]
AskInv ==
    v.step \in Fetching =>
        /\ v.frames = <<>> =>
            /\ v.step \in {"loose", "packs", "search"} => v.want = Asked
            /\ v.step = "object" => HasDigest(v.object, Asked)
        /\ v.frames # <<>> => LastFrame.check = TRUE /\ LastFrame.oid = Asked

\* The files of the commit are those that were found and those below what is still to be read.
FilesUnder(item) ==
    IF item.mode = "tree" THEN {<<item.prefix \o f[1], f[2], f[3]>> : f \in FilesOf(item.oid)} ELSE {}
Found(tree) == {<<path, tree[path].mode, tree[path].oid>> : path \in DOMAIN tree}
Under(items) == UNION {FilesUnder(items[i]) : i \in DOMAIN items}
TreeInv ==
    /\ v.step = "index" => v.tree = <<>> /\ v.todo = <<>>
    /\ v.step \in Fetching =>
        \/ v.goal = <<>> /\ v.tree = <<>> /\ v.todo = <<>>
        \/ /\ v.goal = <<v.goal[1]>> /\ v.goal[1].mode = "tree" /\ v.goal[1].prefix \in Seq(Nat)
           /\ IsList(v.todo) /\ \A i \in DOMAIN v.todo : v.todo[i].prefix \in Seq(Nat)
           /\ IsFiniteSet(DOMAIN v.tree)
           /\ InCommit = Found(v.tree) \union FilesUnder(v.goal[1]) \union Under(v.todo)
    /\ v.step = "compare" => IsFiniteSet(DOMAIN v.tree) /\ InCommit = Found(v.tree)

\* What was seen of the file of an entry.
KindSeen(entry) ==
    \E r \in past.since :
        /\ entry.path \in DOMAIN r.work
        /\ RightKind(r.work[entry.path], entry.mode, ModesMatter(r.config))
ContentSeen(entry) ==
    \E r \in past.since :
        /\ entry.path \in DOMAIN r.work
        /\ Hashed(r.work[entry.path], entry.mode) = <<Named[entry.oid][2]>>
Entries3(index) == {<<index[i].path, index[i].mode, index[i].oid>> : i \in DOMAIN index}
WorkInv ==
    /\ v.step \in Working =>
        /\ Entries3(v.index) = InCommit
        /\ \A i \in DOMAIN v.index : v.index[i].mode \in FileModes
        /\ v.modes = ModesMatter(repo.config)
        /\ \A i \in 1..(v.at - 1) : KindSeen(v.index[i]) /\ ContentSeen(v.index[i])
    /\ v.step = "hash" => KindSeen(v.index[v.at])

\* What was there all the time of the walk is found, or still to be met.
Covers(entry, path) == entry.path = path \/ (entry.directory /\ IsStrictPrefix(entry.path, path))
WalkInv ==
    v.step = "walk" =>
        /\ v.found \subseteq Tracked
        /\ \A path \in v.found : \E r \in past.walk : path \in DOMAIN r.work
        /\ \A entry \in v.pending : entry.path \in Paths
        /\ \A path : (\A r \in past.walk : path \in DOMAIN r.work) =>
                        path \in v.found \/ \E entry \in v.pending : Covers(entry, path)

\* The inductive invariant: with it every step keeps what an acceptance rests on.
VerifierInv ==
    ShapeInv /\ HeadInv /\ IndexInv /\ AskInv /\ TreeInv /\ WorkInv /\ WalkInv /\ AcceptedWasThere
IInv == WorldInv /\ VerifierInv

-----------------------------------------------------------------------------
(* What every step of the verifier leaves alone, and what an answer starts from. *)

\* What is assumed of the limits.
LEMMA Bounds ==
    /\ MaxEdits \in Nat /\ MaxReferences \in Nat \ {0} /\ MaxDepth \in Nat \ {0}
    /\ MaxObject \in Nat \ {0} /\ TotalBudget \in Nat \ {0}
BY GitAssumption

\* The fields of the verifier's state.
LEMMA IdleFields ==
    DOMAIN Idle = {"step", "name", "place", "hops", "index", "goal", "todo", "tree", "want", "object",
        "frames", "depth", "listed", "pack", "offset", "seen", "budget", "at", "size", "modes", "pending", "found"}
BY DEF Idle

\* The empty list.
LEMMA EmptyList == IsList(<<>>) /\ Len(<<>>) = 0
BY DEF IsList

\* A phase starts with nothing read.
LEMMA StartsIdle ==
    ASSUME NEW s, v' = [Idle EXCEPT !.step = s]
    PROVE  /\ DOMAIN v' = DOMAIN Idle /\ v'.step = s
           /\ v'.budget = TotalBudget /\ v'.depth = 0 /\ v'.hops = 0 /\ v'.at = 0
           /\ v'.frames = <<>> /\ v'.index = <<>> /\ v'.found = {} /\ v'.tree = <<>>
           /\ v'.todo = <<>> /\ v'.goal = <<>>
BY DEF Idle

\* A phase that starts with nothing read has the shape it should have.
LEMMA IdleShape ==
    ASSUME NEW s \in {"rejected", "accepted", "index"}, v' = [Idle EXCEPT !.step = s]
    PROVE  ShapeInv'
<1>1. /\ DOMAIN v' = DOMAIN Idle /\ v'.step = s /\ v'.budget = TotalBudget /\ v'.depth = 0 /\ v'.hops = 0
      /\ v'.at = 0 /\ v'.frames = <<>> /\ v'.index = <<>> /\ v'.found = {}
  BY StartsIdle
<1>2. s \in Steps /\ s \notin Fetching /\ s \notin Working
  BY DEF Steps, Fetching, Working
<1>3. IsList(v'.frames) /\ IsList(v'.index) /\ Len(v'.frames) <= 2 * MaxDepth
  BY <1>1, EmptyList, Bounds
<1>4. v'.budget \in 0..TotalBudget /\ v'.depth \in 0..MaxDepth /\ v'.hops \in 0..MaxReferences
  BY <1>1, Bounds
<1> QED BY <1>1, <1>2, <1>3, <1>4 DEF ShapeInv, Fetching, Working

\* A rejection keeps everything.
LEMMA Rejects ==
    ASSUME Reject
    PROVE  VerifierInv'
<1>1. v'.step = "rejected"
  BY StartsIdle DEF Reject
<1>2. ShapeInv'
  BY IdleShape DEF Reject
<1> QED BY <1>1, <1>2 DEF VerifierInv, HeadInv, IndexInv, AskInv, TreeInv, WorkInv, WalkInv,
           AcceptedWasThere, Fetching, Working

\* A step of the verifier changes no repository, and forgets none that it saw.
LEMMA StepsOn ==
    ASSUME WorldInv, VerifierStep
    PROVE  /\ expected' = expected /\ repo' = repo /\ past'.since = past.since
           /\ v.step = "walk" \/ v'.step # "walk" => past' = past
           /\ v.step # "walk" /\ v'.step = "walk" => past'.walk = {repo}
           /\ SeenHeads' = SeenHeads /\ SeenReferences' = SeenReferences
           /\ ReachesApproved(SeenHeads, SeenReferences) <=> ReachesApproved(SeenHeads, SeenReferences)'
           /\ InCommit' = InCommit
           /\ \A entry : (KindSeen(entry) => KindSeen(entry)') /\ (ContentSeen(entry) => ContentSeen(entry)')
           /\ WorldInv'
<1>1. UNCHANGED <<expected, repo, touched, edits, swept>>
  BY DEF VerifierStep
<1>2. past' = IF v.step # "walk" /\ v'.step = "walk" THEN [past EXCEPT !.walk = {repo}] ELSE past
  BY DEF VerifierStep
<1>3. DOMAIN past = {"since", "walk"}
  BY DEF WorldInv
<1>4. past'.since = past.since /\ DOMAIN past' = DOMAIN past
  BY <1>2, <1>3
<1>5. v.step # "walk" /\ v'.step = "walk" => past'.walk = {repo}
  BY <1>2, <1>3
<1>6. v.step = "walk" \/ v'.step # "walk" => past' = past
  BY <1>2
<1>7. SeenHeads' = SeenHeads /\ SeenReferences' = SeenReferences
  BY <1>4 DEF SeenHeads, SeenReferences
<1>8. ReachesApproved(SeenHeads, SeenReferences) <=> ReachesApproved(SeenHeads, SeenReferences)'
  BY <1>1, <1>7 DEF ReachesApproved
<1>9. InCommit' = InCommit
  BY <1>1 DEF InCommit
<1>10. WorldInv'
  <2>1. /\ repo' \in past'.since
        /\ \A r \in past'.since : Repository(r) /\ r.config = repo'.config /\ r.linked = repo'.linked
    BY <1>1, <1>4 DEF WorldInv
  <2>2. touched' \in BOOLEAN /\ swept' \in BOOLEAN /\ edits' \in 0..MaxEdits
    BY <1>1 DEF WorldInv
  <2>3. past'.walk \subseteq past'.since /\ (v'.step = "walk" => repo' \in past'.walk)
    BY <1>1, <1>4, <1>5, <1>6 DEF WorldInv
  <2> QED BY <1>3, <1>4, <2>1, <2>2, <2>3 DEF WorldInv
<1>11. \A entry : (KindSeen(entry) => KindSeen(entry)') /\ (ContentSeen(entry) => ContentSeen(entry)')
  BY <1>4 DEF KindSeen, ContentSeen
<1> QED BY <1>1, <1>4, <1>5, <1>6, <1>7, <1>8, <1>9, <1>10, <1>11

\* Verify starts in the invariant.
LEMMA InitHolds == Init => IInv
<1> SUFFICES ASSUME Init PROVE IInv
  OBVIOUS
<1>1. PICK request \in Requests : expected = request[1] /\ repo = request[2]
  BY DEF Init
<1>2. /\ v = Idle /\ past = [since |-> {repo}, walk |-> {}] /\ touched = FALSE /\ edits = 0
      /\ swept = FALSE
  BY DEF Init
<1>3. Repository(repo)
  BY <1>1, RepositoriesAssumption
<1>4. WorldInv
  <2>1. v.step = "head"
    BY <1>2 DEF Idle
  <2>2. past = [since |-> {repo}, walk |-> {}]
    BY <1>2
  <2>3. DOMAIN past = {"since", "walk"} /\ past.since = {repo} /\ past.walk = {}
    BY <2>2
  <2>4. touched \in BOOLEAN /\ swept \in BOOLEAN /\ edits \in 0..MaxEdits
    <3>1. touched = FALSE /\ swept = FALSE /\ edits = 0
      BY <1>2
    <3>2. touched \in BOOLEAN /\ swept \in BOOLEAN
      BY <3>1
    <3>3. edits \in 0..MaxEdits
      BY <3>1, Bounds
    <3> QED BY <3>2, <3>3
  <2>5. \A r \in past.since : Repository(r) /\ r.config = repo.config /\ r.linked = repo.linked
    <3>1. \A r \in past.since : r = repo
      BY <2>3
    <3> QED BY <1>3, <3>1
  <2>6. repo \in past.since /\ past.walk \subseteq past.since
    BY <2>3
  <2> QED BY <2>1, <2>3, <2>4, <2>5, <2>6 DEF WorldInv
<1>5. v.step = "head"
  BY <1>2 DEF Idle
<1>6. ShapeInv
  <2>1. /\ v.budget = TotalBudget /\ v.depth = 0 /\ v.hops = 0
        /\ v.at = 0 /\ v.frames = <<>> /\ v.index = <<>> /\ v.found = {}
    BY <1>2 DEF Idle
  <2>2. v.step \in Steps
    BY <1>5 DEF Steps
  <2>3. IsList(v.frames) /\ IsList(v.index) /\ Len(v.frames) <= 2 * MaxDepth
    BY <2>1, EmptyList, Bounds
  <2>4. v.budget \in 0..TotalBudget /\ v.depth \in 0..MaxDepth /\ v.hops \in 0..MaxReferences
    BY <2>1, Bounds
  <2> QED BY <1>2, <1>5, <2>1, <2>2, <2>3, <2>4 DEF ShapeInv, Fetching, Working
<1> QED BY <1>4, <1>5, <1>6 DEF IInv, VerifierInv, HeadInv, IndexInv, AskInv, TreeInv, WorkInv, WalkInv,
           AcceptedWasThere, Fetching, Working

-----------------------------------------------------------------------------
(* References.                                                             *)

\* HEAD itself is reached in no hops.
LEMMA LeadsNowhere ==
    ASSUME NEW heads, NEW references, NEW value \in heads
    PROVE  Leads(heads, references, 0, value)
<1> DEFINE chain == [i \in 0..0 |-> value]
<1>1. chain \in [0..0 -> heads \union {reference[2] : reference \in references}]
  OBVIOUS
<1>2. chain[0] = value
  OBVIOUS
<1>3. \A i \in 1..0 : FALSE
  OBVIOUS
<1> QED BY <1>1, <1>2, <1>3 DEF Leads

\* A reference is one hop more.
LEMMA LeadsOn ==
    ASSUME NEW heads, NEW references, NEW n \in Nat, NEW value, NEW next,
           Leads(heads, references, n, value), value[1] = "ref", <<value[2], next>> \in references
    PROVE  Leads(heads, references, n + 1, next)
<1> DEFINE values == heads \union {reference[2] : reference \in references}
           Linked(a, b) == a[1] = "ref" /\ <<a[2], b>> \in references
<1>1. PICK chain \in [0..n -> values] :
        /\ chain[0] \in heads /\ chain[n] = value
        /\ \A i \in 1..n : Linked(chain[i - 1], chain[i])
  BY DEF Leads
<1>2. next \in values
  <2>1. <<value[2], next>>[2] = next
    OBVIOUS
  <2> QED BY <2>1
<1> DEFINE longer == [i \in 0..(n + 1) |-> IF i <= n THEN chain[i] ELSE next]
<1>3. Linked(value, next)
  OBVIOUS
<1> HIDE DEF values, Linked
<1>4. longer \in [0..(n + 1) -> values]
  <2>1. \A i \in 0..(n + 1) : i <= n => i \in 0..n
    OBVIOUS
  <2> QED BY <1>1, <1>2, <2>1
<1>5. longer[0] = chain[0] /\ longer[n] = chain[n] /\ longer[n + 1] = next
  OBVIOUS
<1>6. ASSUME NEW i \in 1..(n + 1) PROVE Linked(longer[i - 1], longer[i])
  <2>1. CASE i \in 1..n
    <3>1. longer[i - 1] = chain[i - 1] /\ longer[i] = chain[i]
      BY <2>1
    <3> QED BY <1>1, <2>1, <3>1
  <2>2. CASE i = n + 1
    <3>1. i - 1 = n
      BY <2>2
    <3> QED BY <1>1, <1>3, <1>5, <2>2, <3>1
  <2> QED BY <2>1, <2>2
<1> HIDE DEF longer
<1> QED BY <1>1, <1>4, <1>5, <1>6 DEF Leads, values, Linked

\* What leads somewhere still does when more was seen.
LEMMA LeadsStill ==
    ASSUME NEW heads, NEW references, NEW more, NEW others, heads \subseteq more, references \subseteq others,
           NEW n, NEW value, Leads(heads, references, n, value)
    PROVE  Leads(more, others, n, value)
<1>1. PICK chain \in [0..n -> heads \union {reference[2] : reference \in references}] :
        /\ chain[0] \in heads /\ chain[n] = value
        /\ \A i \in 1..n : chain[i - 1][1] = "ref" /\ <<chain[i - 1][2], chain[i]>> \in references
  BY DEF Leads
<1>2. chain \in [0..n -> more \union {reference[2] : reference \in others}]
  OBVIOUS
<1> QED BY <1>1, <1>2 DEF Leads

\* What a look-up finds is a reference of the repository.
LEMMA LookedUp ==
    ASSUME NEW r, r.refs = [git |-> r.refs.git, common |-> r.refs.common],
           NEW place \in {"git", "common", "packed"}, NEW name,
           ValueAt(r, place, name)[1] \in {"oid", "ref"}
    PROVE  <<name, ValueAt(r, place, name)>> \in References(r)
<1>1. SUFFICES name \in DOMAIN r.refs.git \union DOMAIN r.refs.common \union PackedNames(r)
  BY DEF References
<1>2. Absent[1] = "absent" /\ <<"bad", 0>>[1] = "bad"
  BY DEF Absent
<1>3. CASE place \in {"git", "common"}
  <2>1. ValueAt(r, place, name) = LooseValue(r, place, name)
    BY <1>3 DEF ValueAt
  <2>2. name \in DOMAIN r.refs[place]
    BY <1>2, <2>1 DEF LooseValue
  <2> QED BY <1>3, <2>2
<1>4. CASE place = "packed"
  <2> DEFINE matters(i) == r.packed[i].name = name \/ r.packed[i].value[1] = "bad"
             first == {i \in DOMAIN r.packed : matters(i) /\ \A j \in 1..(i - 1) : ~matters(j)}
             line == r.packed[CHOOSE i \in first : TRUE]
  <2>1. /\ first # {}
        /\ line.value[1] = "oid"
    BY <1>2, <1>4 DEF ValueAt, PackedValue
  <2>2. PICK i \in first : i = CHOOSE j \in first : TRUE
    BY <2>1
  <2>3. i \in DOMAIN r.packed /\ r.packed[i].name = name
    BY <2>1, <2>2
  <2> QED BY <2>3 DEF PackedNames
<1> QED BY <1>3, <1>4

\* A value of HEAD or of a reference is followed to what was seen to be there.
LEMMA Followed ==
    ASSUME IInv, VerifierStep, NEW value, NEW hops, Follow(value, hops), hops \in 0..MaxReferences,
           value[1] \in {"oid", "ref"} => Leads(SeenHeads, SeenReferences, hops, value)
    PROVE  VerifierInv'
<1>1. /\ repo' = repo /\ SeenHeads' = SeenHeads /\ SeenReferences' = SeenReferences
      /\ ReachesApproved(SeenHeads, SeenReferences) <=> ReachesApproved(SeenHeads, SeenReferences)'
  BY StepsOn DEF IInv
<1>2. CASE value = <<"oid", expected>>
  <2>1. v' = [Idle EXCEPT !.step = "index"]
    BY <1>2 DEF Follow
  <2>2. ReachesApproved(SeenHeads, SeenReferences)
    BY <1>2 DEF ReachesApproved
  <2>3. v'.step = "index" /\ v'.tree = <<>> /\ v'.todo = <<>>
    BY <2>1, StartsIdle
  <2>4. ShapeInv'
    BY <2>1, IdleShape
  <2> QED BY <1>1, <2>2, <2>3, <2>4 DEF VerifierInv, HeadInv, IndexInv, AskInv, TreeInv, WorkInv, WalkInv,
             AcceptedWasThere, Fetching, Working
<1>3. CASE value # <<"oid", expected>> /\ value[1] = "ref" /\ ValidName(value[2]) /\ hops < MaxReferences
  <2>1. v' = [Idle EXCEPT !.step = "reference", !.name = value[2], !.place = 1, !.hops = hops]
    BY <1>3 DEF Follow
  <2>2. /\ DOMAIN v' = DOMAIN Idle /\ v'.step = "reference" /\ v'.name = value[2] /\ v'.place = 1
        /\ v'.hops = hops /\ v'.budget = TotalBudget /\ v'.depth = 0 /\ v'.at = 0
        /\ v'.frames = <<>> /\ v'.index = <<>> /\ v'.found = {}
    BY <2>1 DEF Idle
  <2>3. ShapeInv'
    <3>1. IsList(v'.frames) /\ IsList(v'.index) /\ Len(v'.frames) <= 2 * MaxDepth
      BY <2>2, EmptyList, Bounds
    <3>2. v'.budget \in 0..TotalBudget /\ v'.depth \in 0..MaxDepth /\ v'.hops \in 0..MaxReferences
      BY <2>2, Bounds
    <3> QED BY <2>2, <3>1, <3>2 DEF ShapeInv, Steps, Fetching, Working
  <2>4. 1 \in DOMAIN Places(repo)
    BY DEF Places
  <2>5. HeadInv'
    <3>1. Leads(SeenHeads, SeenReferences, hops, value)
      BY <1>3
    <3>2. Leads(SeenHeads', SeenReferences', v'.hops, value)
      BY <1>1, <2>2, <3>1
    <3>3. v'.place \in DOMAIN Places(repo') /\ v'.hops < MaxReferences
      BY <1>1, <1>3, <2>2, <2>4
    <3>4. value[1] = "ref" /\ value[2] = v'.name
      BY <1>3, <2>2
    <3>5. v'.step = "reference"
      BY <2>2
    <3> QED BY <3>2, <3>3, <3>4, <3>5 DEF HeadInv
  <2> QED BY <2>2, <2>3, <2>5 DEF VerifierInv, IndexInv, AskInv, TreeInv, WorkInv, WalkInv,
             AcceptedWasThere, Fetching, Working
<1>4. CASE /\ value # <<"oid", expected>>
           /\ ~ (value[1] = "ref" /\ ValidName(value[2]) /\ hops < MaxReferences)
  <2>1. Reject
    BY <1>4 DEF Follow
  <2> QED BY <2>1, Rejects
<1> QED BY <1>2, <1>3, <1>4

\* Reading HEAD.
LEMMA ReadHeadKeeps ==
    ASSUME IInv, VerifierStep, ReadHead
    PROVE  VerifierInv'
<1>1. CASE repo.safe
  <2>1. Follow(repo.head, 0)
    BY <1>1 DEF ReadHead
  <2>2. repo.head \in SeenHeads
    BY DEF SeenHeads, IInv, WorldInv
  <2>3. Leads(SeenHeads, SeenReferences, 0, repo.head)
    BY <2>2, LeadsNowhere
  <2>4. 0 \in 0..MaxReferences
    BY Bounds
  <2> QED BY <2>1, <2>3, <2>4, Followed
<1>2. CASE ~ repo.safe
  BY <1>2, Rejects DEF ReadHead
<1> QED BY <1>1, <1>2

\* Reading a reference, loose or packed.
LEMMA ReadReferenceKeeps ==
    ASSUME IInv, VerifierStep, ReadReference
    PROVE  VerifierInv'
<1> DEFINE places == Places(repo)
           value == ValueAt(repo, places[v.place], v.name)
<1>1. v.step = "reference"
  BY DEF ReadReference
<1>2. v.place \in DOMAIN places /\ v.hops < MaxReferences /\ v.hops \in 0..MaxReferences
  BY <1>1 DEF IInv, VerifierInv, HeadInv, ShapeInv
<1>3. PICK last : /\ Leads(SeenHeads, SeenReferences, v.hops, last)
                  /\ last[1] = "ref" /\ last[2] = v.name
  BY <1>1 DEF IInv, VerifierInv, HeadInv
<1>4. places[v.place] \in {"git", "common", "packed"}
  BY <1>2 DEF Places
<1>5. CASE value # Absent
  <2>1. Follow(value, v.hops + 1)
    BY <1>5 DEF ReadReference
  <2>2. v.hops \in Nat /\ v.hops + 1 \in 0..MaxReferences
    BY <1>2, Bounds
  <2>3. ASSUME value[1] \in {"oid", "ref"}
        PROVE  Leads(SeenHeads, SeenReferences, v.hops + 1, value)
    <3>1. repo \in past.since /\ repo.refs = [git |-> repo.refs.git, common |-> repo.refs.common]
      BY DEF IInv, WorldInv, Repository
    <3>2. <<v.name, value>> \in References(repo)
      BY <1>4, <2>3, <3>1, LookedUp
    <3>3. <<last[2], value>> \in SeenReferences
      BY <1>3, <3>1, <3>2 DEF SeenReferences
    <3> HIDE DEF value
    <3> QED BY <1>3, <2>2, <3>3, LeadsOn
  <2> HIDE DEF value
  <2> QED BY <2>1, <2>2, <2>3, Followed
<1>6. CASE value = Absent /\ v.place < Len(places)
  <2>1. v' = [v EXCEPT !.place = @ + 1]
    BY <1>1, <1>6 DEF ReadReference
  <2>2. DOMAIN v = DOMAIN Idle
    BY DEF IInv, VerifierInv, ShapeInv
  <2>3. /\ DOMAIN v' = DOMAIN Idle /\ v'.step = "reference" /\ v'.place = v.place + 1
        /\ v'.name = v.name /\ v'.hops = v.hops /\ v'.budget = v.budget /\ v'.depth = v.depth
        /\ v'.frames = v.frames /\ v'.index = v.index /\ v'.at = v.at /\ v'.found = v.found
    BY <1>1, <2>1, <2>2, IdleFields
  <2>4. ShapeInv'
    <3>1. ShapeInv
      BY DEF IInv, VerifierInv
    <3> QED BY <1>1, <2>3, <3>1 DEF ShapeInv, Fetching, Working
  <2>5. v.place + 1 \in DOMAIN places
    BY <1>2, <1>6 DEF Places
  <2>6. repo' = repo /\ SeenHeads' = SeenHeads /\ SeenReferences' = SeenReferences
    BY StepsOn DEF IInv
  <2>7. HeadInv'
    <3>1. v'.place \in DOMAIN Places(repo') /\ v'.hops < MaxReferences
      BY <1>2, <2>3, <2>5, <2>6
    <3>2. Leads(SeenHeads', SeenReferences', v'.hops, last) /\ last[1] = "ref" /\ last[2] = v'.name
      BY <1>3, <2>3, <2>6
    <3> QED BY <2>3, <3>1, <3>2 DEF HeadInv
  <2> QED BY <2>3, <2>4, <2>7 DEF VerifierInv, IndexInv, AskInv, TreeInv, WorkInv, WalkInv,
             AcceptedWasThere, Fetching, Working
<1>7. CASE value = Absent /\ ~ (v.place < Len(places))
  BY <1>7, Rejects DEF ReadReference
<1> QED BY <1>5, <1>6, <1>7

-----------------------------------------------------------------------------
(* Objects.                                                                *)

\* A look-up starts from what is known of the references, the index and the trees.
LEMMA FetchKeeps ==
    ASSUME IInv, VerifierStep, NEW next, NEW goal, NEW id, Fetch(next, goal, id),
           DOMAIN next = DOMAIN Idle, next.budget = v.budget, next.hops = v.hops, next.at = 0,
           next.found = {},
           IsList(next.index),
           \E r \in past.since : r.index.entries = next.index /\ ValidIndex(r.index),
           ReachesApproved(SeenHeads, SeenReferences),
           id = IF goal = <<>> THEN expected ELSE goal[1].oid,
           \/ goal = <<>> /\ next.tree = <<>> /\ next.todo = <<>>
           \/ /\ goal = <<goal[1]>> /\ goal[1].mode = "tree" /\ goal[1].prefix \in Seq(Nat)
              /\ IsList(next.todo) /\ \A i \in DOMAIN next.todo : next.todo[i].prefix \in Seq(Nat)
              /\ IsFiniteSet(DOMAIN next.tree)
              /\ InCommit = Found(next.tree) \union FilesUnder(goal[1]) \union Under(next.todo)
    PROVE  VerifierInv'
<1>1. v' = [next EXCEPT !.step = "loose", !.goal = goal, !.want = id, !.frames = <<>>,
              !.depth = 0, !.seen = {}, !.object = <<>>]
  BY DEF Fetch
<1>2. /\ DOMAIN v' = DOMAIN Idle /\ v'.step = "loose" /\ v'.goal = goal /\ v'.want = id /\ v'.frames = <<>>
      /\ v'.depth = 0 /\ v'.tree = next.tree /\ v'.todo = next.todo /\ v'.index = next.index
      /\ v'.budget = next.budget /\ v'.hops = next.hops /\ v'.found = next.found /\ v'.at = next.at
  BY <1>1, IdleFields
<1>3. /\ expected' = expected /\ past'.since = past.since /\ InCommit' = InCommit
      /\ ReachesApproved(SeenHeads, SeenReferences)'
  BY StepsOn DEF IInv
<1>4. ShapeInv'
  <2>1. IsList(v'.frames) /\ IsList(v'.index) /\ Len(v'.frames) = 0
    BY <1>2, EmptyList
  <2>2. v'.budget \in 0..TotalBudget /\ v'.hops \in 0..MaxReferences
    BY <1>2 DEF IInv, VerifierInv, ShapeInv
  <2>3. v'.depth \in 0..MaxDepth /\ v'.depth = 0 /\ 0 <= 2 * 0 /\ 0 <= 2 * MaxDepth
    BY <1>2, Bounds
  <2> QED BY <1>2, <2>1, <2>2, <2>3 DEF ShapeInv, Steps, Fetching, Working
<1>5. HeadInv' /\ IndexInv'
  <2>1. HeadInv'
    BY <1>2, <1>3 DEF HeadInv
  <2>2. IndexInv'
    BY <1>2, <1>3 DEF IndexInv
  <2> QED BY <2>1, <2>2
<1>6. AskInv'
  <2>1. v'.want = Asked'
    BY <1>2, <1>3 DEF Asked
  <2> QED BY <1>2, <2>1 DEF AskInv
<1>7. TreeInv'
  <2>1. CASE goal = <<>> /\ next.tree = <<>> /\ next.todo = <<>>
    BY <1>2, <2>1 DEF TreeInv
  <2>2. CASE ~ (goal = <<>> /\ next.tree = <<>> /\ next.todo = <<>>)
    <3>1. /\ v'.goal = <<v'.goal[1]>> /\ v'.goal[1].mode = "tree" /\ v'.goal[1].prefix \in Seq(Nat)
          /\ IsList(v'.todo) /\ \A i \in DOMAIN v'.todo : v'.todo[i].prefix \in Seq(Nat)
          /\ IsFiniteSet(DOMAIN v'.tree)
      BY <1>2, <2>2
    <3>2. InCommit' = Found(v'.tree) \union FilesUnder(v'.goal[1]) \union Under(v'.todo)
      BY <1>2, <1>3, <2>2
    <3> QED BY <1>2, <3>1, <3>2 DEF TreeInv
  <2> QED BY <2>1, <2>2
<1> QED BY <1>2, <1>4, <1>5, <1>6, <1>7 DEF VerifierInv, WorkInv, WalkInv, AcceptedWasThere, Working

\* Reading the index.
LEMMA ReadIndexKeeps ==
    ASSUME IInv, VerifierStep, ReadIndex
    PROVE  VerifierInv'
<1>1. v.step = "index"
  BY DEF ReadIndex
<1>2. CASE ValidIndex(repo.index)
  <2> DEFINE next == [v EXCEPT !.index = repo.index.entries]
  <2>1. Fetch(next, <<>>, expected)
    BY <1>1, <1>2 DEF ReadIndex
  <2>2. DOMAIN v = DOMAIN Idle /\ v.at = 0 /\ v.found = {} /\ v.tree = <<>> /\ v.todo = <<>>
    BY <1>1 DEF IInv, VerifierInv, ShapeInv, TreeInv, Working
  <2>3. /\ DOMAIN next = DOMAIN Idle /\ next.budget = v.budget /\ next.hops = v.hops /\ next.at = 0
        /\ next.found = {} /\ next.index = repo.index.entries /\ next.tree = <<>> /\ next.todo = <<>>
    BY <2>2, IdleFields
  <2>4. repo \in past.since /\ IsList(repo.index.entries)
    BY DEF IInv, WorldInv, Repository, IsIndex, IsList
  <2>5. ReachesApproved(SeenHeads, SeenReferences)
    BY <1>1 DEF IInv, VerifierInv, HeadInv
  <2> HIDE DEF next
  <2> QED BY <1>2, <2>1, <2>3, <2>4, <2>5, FetchKeeps
<1>3. CASE ~ ValidIndex(repo.index)
  BY <1>3, Rejects DEF ReadIndex
<1> QED BY <1>2, <1>3

\* A step of the search for an object leaves alone what was known before it.
LEMMA SearchKeeps ==
    ASSUME IInv, VerifierStep, v.step \in Fetching, ShapeInv', v'.step \in Fetching, AskInv',
           v'.index = v.index, v'.goal = v.goal, v'.tree = v.tree, v'.todo = v.todo
    PROVE  VerifierInv'
<1>1. /\ expected' = expected /\ past'.since = past.since /\ InCommit' = InCommit
      /\ ReachesApproved(SeenHeads, SeenReferences)'
  BY StepsOn DEF IInv, VerifierInv, HeadInv, Fetching
<1>2. HeadInv' /\ IndexInv'
  <2>1. HeadInv'
    BY <1>1 DEF HeadInv, Fetching
  <2>2. IndexInv'
    BY <1>1 DEF IInv, VerifierInv, IndexInv
  <2> QED BY <2>1, <2>2
<1>3. TreeInv'
  <2>1. v'.step \notin {"index", "compare"}
    BY DEF Fetching
  <2>2. CASE v.goal = <<>> /\ v.tree = <<>> /\ v.todo = <<>>
    BY <2>1, <2>2 DEF TreeInv
  <2>3. CASE ~ (v.goal = <<>> /\ v.tree = <<>> /\ v.todo = <<>>)
    <3>1. /\ v.goal = <<v.goal[1]>> /\ v.goal[1].mode = "tree" /\ v.goal[1].prefix \in Seq(Nat)
          /\ IsList(v.todo) /\ \A i \in DOMAIN v.todo : v.todo[i].prefix \in Seq(Nat)
          /\ IsFiniteSet(DOMAIN v.tree)
          /\ InCommit = Found(v.tree) \union FilesUnder(v.goal[1]) \union Under(v.todo)
      BY <2>3 DEF IInv, VerifierInv, TreeInv
    <3>2. InCommit' = Found(v'.tree) \union FilesUnder(v'.goal[1]) \union Under(v'.todo)
      BY <1>1, <3>1
    <3> QED BY <2>1, <3>1, <3>2 DEF TreeInv
  <2> QED BY <2>2, <2>3
<1>4. v'.step \notin Working /\ v'.step # "hash" /\ v'.step # "walk" /\ v'.step # "accepted"
  BY DEF Fetching, Working
<1> QED BY <1>2, <1>3, <1>4 DEF VerifierInv, WorkInv, WalkInv, AcceptedWasThere

\* The look-up that waits is the last of what waits, whatever is put before it.
LEMMA PutBefore ==
    ASSUME NEW frame, NEW frames, IsList(frames)
    PROVE  /\ IsList(<<frame>> \o frames) /\ Len(<<frame>> \o frames) = Len(frames) + 1
           /\ Len(frames) \in Nat /\ <<frame>> \o frames # <<>>
           /\ frames = <<>> => (<<frame>> \o frames)[Len(<<frame>> \o frames)] = frame
           /\ frames # <<>> => (<<frame>> \o frames)[Len(<<frame>> \o frames)] = frames[Len(frames)]
<1>1. /\ IsList(<<frame>> \o frames) /\ Len(<<frame>> \o frames) = 1 + Len(frames)
      /\ (<<frame>> \o frames)[1] = frame
      /\ \A i \in 1..Len(frames) : (<<frame>> \o frames)[1 + i] = frames[i]
  <2>1. IsList(<<frame>>) /\ Len(<<frame>>) = 1 /\ <<frame>>[1] = frame
    BY OneElement
  <2> QED BY <2>1, Joined
<1>2. Len(frames) \in Nat /\ Len(frames) + 1 = 1 + Len(frames) /\ Len(<<frame>> \o frames) # 0
  BY <1>1, Listed1
<1>3. <<frame>> \o frames # <<>>
  BY <1>2, EmptyList
<1>4. ASSUME frames = <<>> PROVE (<<frame>> \o frames)[Len(<<frame>> \o frames)] = frame
  <2>1. Len(frames) = 0
    BY <1>4, EmptyList
  <2> QED BY <1>1, <2>1
<1>5. ASSUME frames # <<>> PROVE (<<frame>> \o frames)[Len(<<frame>> \o frames)] = frames[Len(frames)]
  <2>1. Len(frames) \in 1..Len(frames)
    <3>1. Len(frames) \in Nat \ {0}
      BY <1>5, Rest
    <3> QED BY <3>1
  <2> QED BY <1>1, <1>2, <2>1
<1> QED BY <1>1, <1>2, <1>3, <1>4, <1>5

\* Frames without the first.
LEMMA TakeFirst ==
    ASSUME NEW frames, IsList(frames), frames # <<>>
    PROVE  /\ IsList(Tail(frames)) /\ Len(Tail(frames)) = Len(frames) - 1 /\ Len(frames) \in Nat \ {0}
           /\ Head(frames) = frames[1]
           /\ Tail(frames) = <<>> => frames[1] = frames[Len(frames)]
           /\ Tail(frames) # <<>> => Tail(frames)[Len(Tail(frames))] = frames[Len(frames)]
<1>1. /\ IsList(Tail(frames)) /\ Len(Tail(frames)) = Len(frames) - 1 /\ Len(frames) \in Nat \ {0}
      /\ Head(frames) = frames[1]
      /\ \A i \in 1..Len(Tail(frames)) : Tail(frames)[i] = frames[i + 1]
  BY Rest
<1>2. ASSUME Tail(frames) = <<>> PROVE frames[1] = frames[Len(frames)]
  <2>1. Len(frames) = 1
    BY <1>1, <1>2, EmptyList
  <2> QED BY <2>1
<1>3. ASSUME Tail(frames) # <<>> PROVE Tail(frames)[Len(Tail(frames))] = frames[Len(frames)]
  <2>1. Len(Tail(frames)) \in Nat \ {0}
    BY <1>1, <1>3, Rest
  <2>2. Len(Tail(frames)) \in 1..Len(Tail(frames)) /\ Len(Tail(frames)) + 1 = Len(frames)
    BY <1>1, <2>1
  <2> QED BY <1>1, <2>2
<1> QED BY <1>1, <1>2, <1>3

\* Between the packs of a look-up nothing else changes.
LEMMA KeptInSearch ==
    ASSUME ShapeInv, AskInv, v.step \in {"loose", "packs", "search"}, v.depth < MaxDepth,
           expected' = expected, DOMAIN v' = DOMAIN Idle, v'.step \in {"packs", "search"},
           v'.index = v.index, v'.goal = v.goal, v'.want = v.want, v'.frames = v.frames,
           v'.budget = v.budget, v'.depth = v.depth, v'.hops = v.hops, v'.found = v.found, v'.at = v.at
    PROVE  v'.step \in Fetching /\ ShapeInv' /\ AskInv'
<1>1. ShapeInv'
  BY DEF ShapeInv, Steps, Fetching, Working
<1>2. v.step \in Fetching /\ v'.step \in Fetching /\ v'.step # "object"
  BY DEF Fetching
<1>3. Asked' = Asked /\ LastFrame' = LastFrame
  BY DEF Asked, LastFrame
<1> QED BY <1>1, <1>2, <1>3 DEF AskInv

\* A look-up among the loose objects.
LEMMA FindLooseKeeps ==
    ASSUME IInv, VerifierStep, FindLoose
    PROVE  VerifierInv'
<1> DEFINE stored == repo.loose[v.want]
<1>1. v.step = "loose" /\ v.step \in Fetching /\ v.step \notin Working
  BY DEF FindLoose, Fetching, Working
<1>2. ShapeInv /\ AskInv /\ DOMAIN v = DOMAIN Idle
  BY DEF IInv, VerifierInv, ShapeInv
<1>3. expected' = expected
  BY StepsOn DEF IInv
<1>4. CASE v.depth < MaxDepth /\ v.want \notin DOMAIN repo.loose
  <2>1. v' = [v EXCEPT !.step = "packs"]
    <3>1. ~ (v.depth >= MaxDepth)
      BY <1>2, <1>4, Bounds DEF ShapeInv
    <3> QED BY <1>4, <3>1 DEF FindLoose
  <2>2. /\ DOMAIN v' = DOMAIN Idle /\ v'.step = "packs" /\ v'.index = v.index /\ v'.goal = v.goal
        /\ v'.tree = v.tree /\ v'.todo = v.todo /\ v'.want = v.want /\ v'.frames = v.frames
        /\ v'.budget = v.budget /\ v'.depth = v.depth /\ v'.hops = v.hops /\ v'.found = v.found
        /\ v'.at = v.at
    BY <1>2, <2>1, IdleFields
  <2>3. v'.step \in Fetching /\ ShapeInv' /\ AskInv'
    BY <1>1, <1>2, <1>3, <1>4, <2>2, KeptInSearch
  <2> QED BY <1>1, <2>2, <2>3, SearchKeeps
<1>5. CASE /\ ~ (v.depth >= MaxDepth)
           /\ ~ (v.depth < MaxDepth /\ v.want \notin DOMAIN repo.loose)
           /\ stored.size <= MaxObject /\ stored.size <= v.budget
           /\ stored.size = Len(stored.object[2]) /\ HasDigest(stored.object, v.want)
  <2>1. v' = [[v EXCEPT !.budget = Reserve(@, stored.size)]
                    EXCEPT !.step = "object", !.object = stored.object]
    BY <1>5 DEF FindLoose, Return
  <2>2. /\ DOMAIN v' = DOMAIN Idle /\ v'.step = "object" /\ v'.index = v.index /\ v'.goal = v.goal
        /\ v'.tree = v.tree /\ v'.todo = v.todo /\ v'.object = stored.object /\ v'.frames = v.frames
        /\ v'.budget = Reserve(v.budget, stored.size) /\ v'.depth = v.depth /\ v'.hops = v.hops
        /\ v'.found = v.found
        /\ v'.at = v.at
    BY <1>2, <2>1, IdleFields
  <2>3. v.want \in DOMAIN repo.loose
    BY <1>2, <1>5, Bounds DEF ShapeInv
  <2>4. stored.size \in Nat
    BY <2>3 DEF IInv, WorldInv, Repository
  <2>5. v'.budget \in 0..TotalBudget
    <3>1. PICK budget, size : budget = v.budget /\ size = stored.size
      OBVIOUS
    <3>2. budget \in 0..TotalBudget /\ size \in Nat /\ size <= budget
      BY <1>2, <1>5, <2>4, <3>1 DEF ShapeInv
    <3>3. v'.budget = budget - size
      BY <2>2, <3>1, <3>2 DEF Reserve
    <3> QED BY <3>2, <3>3, Bounds
  <2>6. ShapeInv'
    BY <1>1, <1>2, <2>2, <2>5 DEF ShapeInv, Steps, Fetching, Working
  <2>7. v'.step \in Fetching
    BY <2>2 DEF Fetching
  <2>8. AskInv'
    <3>1. Asked' = Asked /\ LastFrame' = LastFrame
      BY <1>3, <2>2 DEF Asked, LastFrame
    <3>2. v'.frames = <<>> => HasDigest(v'.object, Asked')
      BY <1>1, <1>2, <1>5, <2>2, <3>1 DEF AskInv
    <3>3. v'.step \notin {"loose", "packs", "search"}
      BY <2>2
    <3> QED BY <1>1, <1>2, <2>2, <3>1, <3>2, <3>3 DEF AskInv
  <2> HIDE DEF stored
  <2> QED BY <1>1, <2>2, <2>6, <2>7, <2>8, SearchKeeps
<1>6. CASE \/ v.depth >= MaxDepth
           \/ /\ ~ (v.depth < MaxDepth /\ v.want \notin DOMAIN repo.loose)
              /\ ~ (/\ stored.size <= MaxObject /\ stored.size <= v.budget
                    /\ stored.size = Len(stored.object[2]) /\ HasDigest(stored.object, v.want))
  <2>1. Reject
    <3>1. v.depth >= MaxDepth => ~ (v.depth < MaxDepth)
      BY <1>2, Bounds DEF ShapeInv
    <3> QED BY <1>6, <3>1 DEF FindLoose
  <2> QED BY <2>1, Rejects
<1> QED BY <1>4, <1>5, <1>6

\* Listing the packs.
LEMMA ListPacksKeeps ==
    ASSUME IInv, VerifierStep, ListPacks
    PROVE  VerifierInv'
<1>1. v.step = "packs" /\ v.step \in Fetching /\ v.step \notin Working
  BY DEF ListPacks, Fetching, Working
<1>2. ShapeInv /\ AskInv /\ DOMAIN v = DOMAIN Idle
  BY DEF IInv, VerifierInv, ShapeInv
<1>3. expected' = expected
  BY StepsOn DEF IInv
<1>4. CASE Reject
  BY <1>4, Rejects
<1>5. CASE v' = [v EXCEPT !.step = "search", !.listed = DOMAIN repo.packs]
  <2>1. /\ DOMAIN v' = DOMAIN Idle /\ v'.step = "search" /\ v'.index = v.index /\ v'.goal = v.goal
        /\ v'.tree = v.tree /\ v'.todo = v.todo /\ v'.want = v.want /\ v'.frames = v.frames
        /\ v'.budget = v.budget /\ v'.depth = v.depth /\ v'.hops = v.hops /\ v'.found = v.found
        /\ v'.at = v.at
    BY <1>2, <1>5, IdleFields
  <2>2. v'.step \in Fetching /\ ShapeInv' /\ AskInv'
    BY <1>1, <1>2, <1>3, <2>1, KeptInSearch DEF ShapeInv
  <2> QED BY <1>1, <2>1, <2>2, SearchKeeps
<1> QED BY <1>4, <1>5 DEF ListPacks

\* The next pack of the list: if it has the object, a frame that checks the digest is
\* put before the others.
LEMMA SearchPackKeeps ==
    ASSUME IInv, VerifierStep, SearchPack
    PROVE  VerifierInv'
<1> DEFINE name == Min(v.listed)
           place == Find(repo.packs[name], v.want)
           frame == [check |-> TRUE, oid |-> v.want, delta |-> <<>>]
<1>1. v.step = "search" /\ v.step \in Fetching /\ v.step \notin Working
  BY DEF SearchPack, Fetching, Working
<1>2. ShapeInv /\ AskInv /\ DOMAIN v = DOMAIN Idle
  BY DEF IInv, VerifierInv, ShapeInv
<1>3. expected' = expected
  BY StepsOn DEF IInv
<1>4. \/ Reject
      \/ v' = [v EXCEPT !.listed = @ \ {name}]
      \/ v' = [v EXCEPT !.step = "entry", !.pack = name, !.listed = {}, !.seen = {},
                !.offset = place, !.frames = <<frame>> \o @]
  BY DEF SearchPack
<1>5. CASE Reject
  BY <1>5, Rejects
<1>6. CASE v' = [v EXCEPT !.listed = @ \ {name}]
  <2> HIDE DEF name
  <2>1. /\ DOMAIN v' = DOMAIN Idle /\ v'.step = "search" /\ v'.index = v.index /\ v'.goal = v.goal
        /\ v'.tree = v.tree /\ v'.todo = v.todo /\ v'.want = v.want /\ v'.frames = v.frames
        /\ v'.budget = v.budget /\ v'.depth = v.depth /\ v'.hops = v.hops /\ v'.found = v.found
        /\ v'.at = v.at
    BY <1>1, <1>2, <1>6, IdleFields
  <2>2. v'.step \in Fetching /\ ShapeInv' /\ AskInv'
    BY <1>1, <1>2, <1>3, <2>1, KeptInSearch DEF ShapeInv
  <2> QED BY <1>1, <2>1, <2>2, SearchKeeps
<1>7. CASE v' = [v EXCEPT !.step = "entry", !.pack = name, !.listed = {}, !.seen = {},
                  !.offset = place, !.frames = <<frame>> \o @]
  <2> HIDE DEF name, place
  <2>1. v' = [v EXCEPT !.step = "entry", !.pack = name, !.listed = {}, !.seen = {},
                  !.offset = place, !.frames = <<frame>> \o @]
    BY <1>7
  <2>2. /\ DOMAIN v' = DOMAIN Idle /\ v'.step = "entry" /\ v'.index = v.index /\ v'.goal = v.goal
        /\ v'.tree = v.tree /\ v'.todo = v.todo /\ v'.frames = <<frame>> \o v.frames
        /\ v'.budget = v.budget /\ v'.depth = v.depth /\ v'.hops = v.hops /\ v'.found = v.found
        /\ v'.at = v.at
    <3> HIDE DEF frame
    <3> QED BY <1>2, <2>1, IdleFields
  <2>3. /\ IsList(v'.frames) /\ Len(v'.frames) = Len(v.frames) + 1 /\ Len(v.frames) \in Nat
        /\ v'.frames # <<>>
        /\ v.frames = <<>> => LastFrame' = frame
        /\ v.frames # <<>> => LastFrame' = LastFrame
    <3>1. IsList(v.frames)
      BY <1>2 DEF ShapeInv
    <3> HIDE DEF frame
    <3> QED BY <2>2, <3>1, PutBefore DEF LastFrame
  <2>4. Len(v'.frames) <= 2 * v.depth + 1 /\ Len(v'.frames) <= 2 * MaxDepth
    <3>1. PICK n, d : n = Len(v.frames) /\ d = v.depth
      OBVIOUS
    <3>2. n \in Nat /\ d \in Nat /\ d < MaxDepth /\ n <= 2 * d
      BY <1>1, <1>2, <2>3, <3>1, Bounds DEF ShapeInv
    <3> QED BY <2>3, <3>1, <3>2, Bounds
  <2>5. ShapeInv'
    BY <1>1, <1>2, <2>2, <2>3, <2>4 DEF ShapeInv, Steps, Fetching, Working
  <2>6. v'.step \in Fetching
    BY <2>2 DEF Fetching
  <2>7. AskInv'
    <3>1. Asked' = Asked
      BY <1>3, <2>2 DEF Asked
    <3>2. frame.check = TRUE /\ frame.oid = v.want
      OBVIOUS
    <3>3. LastFrame'.check = TRUE /\ LastFrame'.oid = Asked
      <4> HIDE DEF frame
      <4> QED BY <1>1, <1>2, <2>3, <3>2 DEF AskInv
    <3> QED BY <2>3, <3>1, <3>3 DEF AskInv
  <2> QED BY <1>1, <2>2, <2>5, <2>6, <2>7, SearchKeeps
<1> QED BY <1>4, <1>5, <1>6, <1>7

\* An entry of a pack: an object, or a delta that costs a level of the depth.
LEMMA ReadEntryKeeps ==
    ASSUME IInv, VerifierStep, ReadEntry
    PROVE  VerifierInv'
<1> DEFINE pack == repo.packs[v.pack]
           entry == pack.entries[v.offset]
           size == HeaderSize(entry.size)
           left == Reserve(v.budget, size)
           base == v.offset - Distance(entry.distance)
           frame == [check |-> FALSE, oid |-> 0, delta |-> entry.data]
           deeper == [v EXCEPT !.depth = @ + 1, !.budget = left, !.frames = <<frame>> \o @]
<1>1. v.step = "entry" /\ v.step \in Fetching /\ v.step \notin Working
  BY DEF ReadEntry, Fetching, Working
<1>2. ShapeInv /\ AskInv /\ DOMAIN v = DOMAIN Idle
  BY DEF IInv, VerifierInv, ShapeInv
<1>3. expected' = expected
  BY StepsOn DEF IInv
<1>4. CASE Reject
  BY <1>4, Rejects
<1>5. CASE ~Reject
  <2>1. /\ ~ (v.depth >= MaxDepth) /\ size \in 0..MaxObject /\ left # Wrong
        /\ \/ v' = [[v EXCEPT !.budget = left] EXCEPT !.step = "object", !.object = <<entry.type, entry.data>>]
           \/ v' = [deeper EXCEPT !.offset = base, !.seen = @ \union {v.offset}]
           \/ v' = [deeper EXCEPT !.step = "loose", !.want = entry.base]
    BY <1>5 DEF ReadEntry, Return
  <2>2. left \in 0..TotalBudget
    <3>1. PICK budget, n : budget = v.budget /\ n = size
      OBVIOUS
    <3>2. budget \in 0..TotalBudget /\ n \in 0..MaxObject
      BY <1>2, <2>1, <3>1 DEF ShapeInv
    <3>3. left = IF n <= budget THEN budget - n ELSE Wrong
      BY <3>1 DEF Reserve
    <3>4. n <= budget
      BY <2>1, <3>3
    <3> QED BY <3>2, <3>3, <3>4, Bounds
  <2>3. CASE v' = [[v EXCEPT !.budget = left] EXCEPT !.step = "object", !.object = <<entry.type, entry.data>>]
    <3>1. /\ DOMAIN v' = DOMAIN Idle /\ v'.step = "object" /\ v'.index = v.index /\ v'.goal = v.goal
          /\ v'.tree = v.tree /\ v'.todo = v.todo /\ v'.frames = v.frames
          /\ v'.budget = left /\ v'.depth = v.depth /\ v'.hops = v.hops /\ v'.found = v.found /\ v'.at = v.at
      <4> HIDE DEF left, entry
      <4> QED BY <1>2, <2>3, IdleFields
    <3>2. ShapeInv'
      <4> HIDE DEF left, entry
      <4> QED BY <1>1, <1>2, <2>2, <3>1 DEF ShapeInv, Steps, Fetching, Working
    <3>3. v'.step \in Fetching
      BY <3>1 DEF Fetching
    <3>4. AskInv'
      <4>1. Asked' = Asked /\ LastFrame' = LastFrame
        BY <1>3, <3>1 DEF Asked, LastFrame
      <4>2. v'.frames # <<>>
        BY <1>1, <1>2, <3>1 DEF ShapeInv
      <4> QED BY <1>1, <1>2, <3>1, <4>1, <4>2 DEF AskInv
    <3> HIDE DEF left, entry
    <3> QED BY <1>1, <3>1, <3>2, <3>3, <3>4, SearchKeeps
  <2>4. CASE \/ v' = [deeper EXCEPT !.offset = base, !.seen = @ \union {v.offset}]
             \/ v' = [deeper EXCEPT !.step = "loose", !.want = entry.base]
    <3>1. /\ DOMAIN v' = DOMAIN Idle /\ v'.step \in {"entry", "loose"} /\ v'.index = v.index
          /\ v'.goal = v.goal
          /\ v'.tree = v.tree /\ v'.todo = v.todo /\ v'.frames = <<frame>> \o v.frames
          /\ v'.budget = left /\ v'.depth = v.depth + 1 /\ v'.hops = v.hops
          /\ v'.found = v.found /\ v'.at = v.at
      <4> HIDE DEF left, entry, frame, base
      <4>1. /\ DOMAIN deeper = DOMAIN Idle /\ deeper.step = "entry" /\ deeper.index = v.index
            /\ deeper.goal = v.goal /\ deeper.tree = v.tree /\ deeper.todo = v.todo
            /\ deeper.frames = <<frame>> \o v.frames /\ deeper.budget = left /\ deeper.depth = v.depth + 1
            /\ deeper.hops = v.hops /\ deeper.found = v.found /\ deeper.at = v.at
        BY <1>1, <1>2, IdleFields
      <4> HIDE DEF deeper
      <4>2. CASE v' = [deeper EXCEPT !.offset = base, !.seen = @ \union {v.offset}]
        BY <4>1, <4>2, IdleFields
      <4>3. CASE v' = [deeper EXCEPT !.step = "loose", !.want = entry.base]
        BY <4>1, <4>3, IdleFields
      <4> QED BY <2>4, <4>2, <4>3
    <3>2. /\ IsList(v'.frames) /\ Len(v'.frames) = Len(v.frames) + 1 /\ Len(v.frames) \in Nat
          /\ v'.frames # <<>> /\ LastFrame' = LastFrame
      <4>1. IsList(v.frames) /\ v.frames # <<>>
        BY <1>1, <1>2 DEF ShapeInv
      <4> HIDE DEF frame
      <4> QED BY <3>1, <4>1, PutBefore DEF LastFrame
    <3>3. /\ v'.depth \in 0..MaxDepth /\ Len(v'.frames) <= 2 * v'.depth /\ Len(v'.frames) <= 2 * v'.depth + 1
          /\ Len(v'.frames) <= 2 * MaxDepth
      <4>1. PICK n, d : n = Len(v.frames) /\ d = v.depth
        OBVIOUS
      <4>2. n \in Nat /\ d \in Nat /\ n <= 2 * d + 1 /\ d < MaxDepth
        BY <1>1, <1>2, <2>1, <3>2, <4>1, Bounds DEF ShapeInv
      <4>3. v'.depth = d + 1 /\ Len(v'.frames) = n + 1
        BY <3>1, <3>2, <4>1
      <4> QED BY <4>2, <4>3, Bounds
    <3>4. ShapeInv'
      <4> HIDE DEF left, entry, frame
      <4> QED BY <1>1, <1>2, <2>2, <3>1, <3>2, <3>3 DEF ShapeInv, Steps, Fetching, Working
    <3>5. v'.step \in Fetching
      BY <3>1 DEF Fetching
    <3>6. AskInv'
      <4>1. Asked' = Asked
        BY <1>3, <3>1 DEF Asked
      <4>2. v.frames # <<>>
        BY <1>1, <1>2 DEF ShapeInv
      <4> QED BY <1>1, <1>2, <3>2, <4>1, <4>2 DEF AskInv
    <3> HIDE DEF left, entry, frame
    <3> QED BY <1>1, <3>1, <3>4, <3>5, <3>6, SearchKeeps
  <2> QED BY <2>1, <2>3, <2>4
<1> QED BY <1>4, <1>5

\* A frame gets its object; the last one compares the digest.
LEMMA UnwindKeeps ==
    ASSUME IInv, VerifierStep, Unwind
    PROVE  VerifierInv'
<1> DEFINE frame == Head(v.frames)
           result == Apply(v.object[2], frame.delta)
           size == DeltaSize(frame.delta.result)
           left == Reserve(v.budget, size)
           rest == [v EXCEPT !.frames = Tail(@)]
<1>1. v.step = "object" /\ v.step \in Fetching /\ v.step \notin Working /\ v.frames # <<>>
  BY DEF Unwind, Fetching, Working
<1>2. ShapeInv /\ AskInv /\ DOMAIN v = DOMAIN Idle
  BY DEF IInv, VerifierInv, ShapeInv
<1>3. expected' = expected
  BY StepsOn DEF IInv
<1>4. /\ IsList(Tail(v.frames)) /\ Len(Tail(v.frames)) = Len(v.frames) - 1 /\ Len(v.frames) \in Nat \ {0}
      /\ frame = v.frames[1]
      /\ Tail(v.frames) = <<>> => v.frames[1] = LastFrame
      /\ Tail(v.frames) # <<>> => Tail(v.frames)[Len(Tail(v.frames))] = LastFrame
  <2>1. IsList(v.frames)
    BY <1>2 DEF ShapeInv
  <2> QED BY <1>1, <2>1, TakeFirst DEF LastFrame
<1>5. LastFrame.check = TRUE /\ LastFrame.oid = Asked
  BY <1>1, <1>2 DEF AskInv
<1>6. CASE frame.check /\ HasDigest(v.object, frame.oid)
  <2>1. v' = rest
    BY <1>6 DEF Unwind
  <2> HIDE DEF frame
  <2>2. /\ DOMAIN v' = DOMAIN Idle /\ v'.step = "object" /\ v'.index = v.index /\ v'.goal = v.goal
        /\ v'.tree = v.tree /\ v'.todo = v.todo /\ v'.object = v.object /\ v'.frames = Tail(v.frames)
        /\ v'.budget = v.budget /\ v'.depth = v.depth /\ v'.hops = v.hops /\ v'.found = v.found
        /\ v'.at = v.at
    BY <1>1, <1>2, <2>1, IdleFields
  <2>3. Len(v'.frames) <= 2 * MaxDepth
    <3>1. PICK n : n = Len(v.frames)
      OBVIOUS
    <3>2. n \in Nat \ {0} /\ n <= 2 * MaxDepth /\ Len(v'.frames) = n - 1
      BY <1>2, <1>4, <2>2, <3>1 DEF ShapeInv
    <3> QED BY <3>2, Bounds
  <2>4. ShapeInv'
    BY <1>1, <1>2, <1>4, <2>2, <2>3 DEF ShapeInv, Steps, Fetching, Working
  <2>5. v'.step \in Fetching
    BY <2>2 DEF Fetching
  <2>6. AskInv'
    <3>1. Asked' = Asked
      BY <1>3, <2>2 DEF Asked
    <3>2. v'.frames = <<>> => HasDigest(v'.object, Asked)
      BY <1>4, <1>5, <1>6, <2>2
    <3>3. v'.frames # <<>> => LastFrame' = LastFrame
      BY <1>4, <2>2 DEF LastFrame
    <3>4. v'.step \notin {"loose", "packs", "search"}
      BY <2>2
    <3> QED BY <1>5, <3>1, <3>2, <3>3, <3>4 DEF AskInv
  <2> QED BY <1>1, <2>2, <2>4, <2>5, <2>6, SearchKeeps
<1>7. CASE ~frame.check /\ result # <<>> /\ left # Wrong
  <2>1. v' = [rest EXCEPT !.budget = left, !.object = <<@[1], result[1]>>]
    BY <1>7 DEF Unwind
  <2>2. size \in 0..MaxObject
    BY <1>7 DEF Apply
  <2>3. left \in 0..TotalBudget
    <3>1. PICK budget, n : budget = v.budget /\ n = size
      OBVIOUS
    <3>2. budget \in 0..TotalBudget /\ n \in 0..MaxObject
      BY <1>2, <2>2, <3>1 DEF ShapeInv
    <3>3. left = IF n <= budget THEN budget - n ELSE Wrong
      BY <3>1 DEF Reserve
    <3>4. n <= budget
      BY <1>7, <3>3
    <3> QED BY <3>2, <3>3, <3>4, Bounds
  <2>4. Tail(v.frames) # <<>>
    BY <1>4, <1>5, <1>7
  <2> HIDE DEF frame, result, left, size
  <2>5. /\ DOMAIN v' = DOMAIN Idle /\ v'.step = "object" /\ v'.index = v.index /\ v'.goal = v.goal
        /\ v'.tree = v.tree /\ v'.todo = v.todo /\ v'.frames = Tail(v.frames)
        /\ v'.budget = left /\ v'.depth = v.depth /\ v'.hops = v.hops /\ v'.found = v.found /\ v'.at = v.at
    BY <1>1, <1>2, <2>1, IdleFields
  <2>6. Len(v'.frames) <= 2 * MaxDepth
    <3>1. PICK n : n = Len(v.frames)
      OBVIOUS
    <3>2. n \in Nat \ {0} /\ n <= 2 * MaxDepth /\ Len(v'.frames) = n - 1
      BY <1>2, <1>4, <2>5, <3>1 DEF ShapeInv
    <3> QED BY <3>2, Bounds
  <2>7. ShapeInv'
    BY <1>1, <1>2, <1>4, <2>3, <2>5, <2>6 DEF ShapeInv, Steps, Fetching, Working
  <2>8. v'.step \in Fetching
    BY <2>5 DEF Fetching
  <2>9. AskInv'
    <3>1. Asked' = Asked
      BY <1>3, <2>5 DEF Asked
    <3>2. LastFrame' = LastFrame
      BY <1>4, <2>4, <2>5 DEF LastFrame
    <3> QED BY <1>5, <2>4, <2>5, <3>1, <3>2 DEF AskInv
  <2> QED BY <1>1, <2>5, <2>7, <2>8, <2>9, SearchKeeps
<1>8. CASE /\ ~ (frame.check /\ HasDigest(v.object, frame.oid))
           /\ ~ (~frame.check /\ result # <<>> /\ left # Wrong)
  <2>1. Reject
    BY <1>8 DEF Unwind
  <2> QED BY <2>1, Rejects
<1> QED BY <1>6, <1>7, <1>8

-----------------------------------------------------------------------------
(* Trees.                                                                  *)

\* A name appended to a path.
LEMMA PathJoin ==
    ASSUME NEW p \in Seq(Nat), NEW n \in Nat, NEW q \in Seq(Nat)
    PROVE  /\ p \o <<n>> = Append(p, n) /\ Append(p, n) \in Seq(Nat)
           /\ p \o (<<n>> \o q) = Append(p, n) \o q
<1>1. p \o <<n>> = Append(p, n) /\ Append(p, n) \in Seq(Nat) /\ <<n>> \in Seq(Nat)
  OBVIOUS
<1>2. (p \o <<n>>) \o q = p \o (<<n>> \o q)
  BY <1>1, ConcatAssociative
<1> QED BY <1>1, <1>2

\* Two names appended to one path differ.
LEMMA SameAppended ==
    ASSUME NEW p \in Seq(Nat), NEW m \in Nat, NEW n \in Nat, Append(p, m) = Append(p, n)
    PROVE  m = n
<1>1. Len(p) \in Nat /\ Append(p, m)[Len(p) + 1] = m /\ Append(p, n)[Len(p) + 1] = n
  OBVIOUS
<1> QED BY <1>1

\* The files below two lists of trees.
LEMMA UnderJoined ==
    ASSUME NEW a, IsList(a), NEW b, IsList(b)
    PROVE  Under(a \o b) = Under(a) \union Under(b)
<1>1. PICK m, n, c : m = Len(a) /\ n = Len(b) /\ c = a \o b
  OBVIOUS
<1>2. /\ m \in Nat /\ n \in Nat /\ DOMAIN a = 1..m /\ DOMAIN b = 1..n
      /\ DOMAIN c = 1..(m + n)
      /\ \A i \in 1..m : c[i] = a[i]
      /\ \A i \in 1..n : c[m + i] = b[i]
  <2>1. /\ IsList(a \o b) /\ Len(a \o b) = Len(a) + Len(b)
        /\ \A i \in 1..Len(a) : (a \o b)[i] = a[i]
        /\ \A i \in 1..Len(b) : (a \o b)[Len(a) + i] = b[i]
    BY Joined
  <2>2. /\ Len(a) \in Nat /\ DOMAIN a = 1..Len(a) /\ Len(b) \in Nat /\ DOMAIN b = 1..Len(b)
        /\ DOMAIN (a \o b) = 1..Len(a \o b)
    BY <2>1, Listed1
  <2> QED BY <1>1, <2>1, <2>2
<1>3. \A i \in DOMAIN a : i \in DOMAIN c /\ c[i] = a[i]
  BY <1>2
<1>4. \A i \in DOMAIN b : m + i \in DOMAIN c /\ c[m + i] = b[i]
  BY <1>2
<1>5. ASSUME NEW i \in DOMAIN c
      PROVE  (\E j \in DOMAIN a : c[i] = a[j]) \/ (\E j \in DOMAIN b : c[i] = b[j])
  <2>1. CASE i <= m
    <3>1. i \in DOMAIN a /\ c[i] = a[i]
      BY <1>2, <2>1
    <3> QED BY <3>1
  <2>2. CASE ~ (i <= m)
    <3>1. i - m \in 1..n /\ m + (i - m) = i
      BY <1>2, <2>2
    <3>2. c[i] = b[i - m] /\ i - m \in DOMAIN b
      BY <1>2, <3>1
    <3> QED BY <3>2
  <2> QED BY <2>1, <2>2
<1>6. Under(c) \subseteq Under(a) \union Under(b)
  BY <1>5 DEF Under
<1>7. Under(a) \subseteq Under(c) /\ Under(b) \subseteq Under(c)
  BY <1>3, <1>4 DEF Under
<1> QED BY <1>1, <1>6, <1>7

\* The files below one tree, and below none.
LEMMA UnderOne ==
    ASSUME NEW item
    PROVE  Under(<<item>>) = FilesUnder(item) /\ Under(<<>>) = {} /\ Found(<<>>) = {}
<1>1. DOMAIN <<item>> = {1} /\ <<item>>[1] = item
  OBVIOUS
<1>2. DOMAIN <<>> = {}
  OBVIOUS
<1> QED BY <1>1, <1>2 DEF Under, Found

OwnFiles(data, prefix) ==
    {<<Append(prefix, data[i].name), data[i].mode, data[i].oid>> : i \in Files(data)}

FilesIn(data, prefix, depth) == OwnFiles(data, prefix) \union Under(Listed(data, prefix, depth))

\* The entries of a tree are a list, and so are its subtrees.
LEMMA TreeLists ==
    ASSUME NEW id \in DOMAIN Trees, NEW data, data = Named[id][2], NEW prefix \in Seq(Nat), NEW depth
    PROVE  /\ IsList(data) /\ IsList(Listed(data, prefix, depth))
           /\ \A i \in DOMAIN data : data[i].name \in Nat
           /\ \A i \in DOMAIN Listed(data, prefix, depth) : Listed(data, prefix, depth)[i].prefix \in Seq(Nat)
<1> DEFINE list == Listed(data, prefix, depth)
<1>1. IsList(data) /\ \A i \in DOMAIN data : data[i].name \in Nat
  BY TreesAssumption DEF IsList
<1>2. PICK n \in Nat : DOMAIN data = 1..n
  BY <1>1, Listed1
<1>3. DOMAIN list = DOMAIN data /\ \A i \in DOMAIN data : list[i].prefix = Append(prefix, data[i].name)
  BY DEF Listed
<1>4. IsList(list)
  <2>1. list = [i \in 1..n |-> list[i]]
    BY <1>2 DEF Listed
  <2>2. DOMAIN list = 1..n
    BY <1>2, <1>3
  <2> HIDE DEF list
  <2> QED BY <2>1, <2>2, MadeList
<1>5. \A i \in DOMAIN data : Append(prefix, data[i].name) \in Seq(Nat)
  BY <1>1, PathJoin
<1>6. ASSUME NEW i \in DOMAIN list PROVE list[i].prefix \in Seq(Nat)
  <2> HIDE DEF list
  <2> QED BY <1>3, <1>5
<1> QED BY <1>1, <1>4, <1>6

\* The files below a tree are its own, and those below what it lists.
LEMMA BelowTree ==
    ASSUME NEW id \in DOMAIN Trees, NEW prefix \in Seq(Nat), NEW depth,
           NEW item, item.mode = "tree", item.oid = id, item.prefix = prefix
    PROVE  FilesUnder(item) = FilesIn(Named[id][2], prefix, depth)
<1> DEFINE data == Named[id][2]
           below(i) == {<<<<data[i].name>> \o f[1], f[2], f[3]>> : f \in FilesOf(data[i].oid)}
           own(i) == <<<<data[i].name>>, data[i].mode, data[i].oid>>
           list == Listed(data, prefix, depth)
           full(f) == <<prefix \o f[1], f[2], f[3]>>
<1>1. /\ IsList(data) /\ \A i \in DOMAIN data : data[i].name \in Nat
      /\ Trees[id] = FilesBelow(data)
  BY TreesAssumption DEF IsList
<1>2. \A other : \A f \in FilesOf(other) : f = <<f[1], f[2], f[3]>> /\ f[1] \in Seq(Nat)
  BY TreesAssumption DEF FilesOf, Paths
<1>3. FilesUnder(item) = {full(f) : f \in FilesBelow(data)}
  BY <1>1 DEF FilesUnder, FilesOf
<1>4. /\ DOMAIN list = DOMAIN data
      /\ \A i \in DOMAIN data : /\ list[i].mode = data[i].mode /\ list[i].oid = data[i].oid
                                /\ list[i].prefix = Append(prefix, data[i].name)
  BY DEF Listed
<1>5. ASSUME NEW i \in Files(data)
      PROVE  full(own(i)) = <<Append(prefix, data[i].name), data[i].mode, data[i].oid>>
  <2>1. i \in DOMAIN data /\ data[i].name \in Nat
    BY <1>1 DEF Files
  <2>2. prefix \o <<data[i].name>> = Append(prefix, data[i].name)
    <3>1. <<>> \in Seq(Nat)
      OBVIOUS
    <3> QED BY <2>1, <3>1, PathJoin
  <2>3. full(own(i)) = <<prefix \o <<data[i].name>>, data[i].mode, data[i].oid>>
    OBVIOUS
  <2> QED BY <2>2, <2>3
<1>6. ASSUME NEW i \in DOMAIN data, data[i].mode = "tree"
      PROVE  {full(f) : f \in below(i)} = FilesUnder(list[i])
  <2> DEFINE name == data[i].name
             ends == FilesOf(data[i].oid)
  <2>1. FilesUnder(list[i]) = {<<Append(prefix, name) \o f[1], f[2], f[3]>> : f \in ends}
    BY <1>4, <1>6 DEF FilesUnder
  <2>2. ASSUME NEW f \in ends
        PROVE  full(<<<<name>> \o f[1], f[2], f[3]>>) = <<Append(prefix, name) \o f[1], f[2], f[3]>>
    <3>1. f[1] \in Seq(Nat) /\ name \in Nat
      BY <1>1, <1>2
    <3>2. prefix \o (<<name>> \o f[1]) = Append(prefix, name) \o f[1]
      BY <3>1, PathJoin
    <3>3. full(<<<<name>> \o f[1], f[2], f[3]>>) = <<prefix \o (<<name>> \o f[1]), f[2], f[3]>>
      OBVIOUS
    <3> QED BY <3>2, <3>3
  <2>3. below(i) = {<<<<name>> \o f[1], f[2], f[3]>> : f \in ends}
    OBVIOUS
  <2>4. ASSUME NEW f \in ends
        PROVE  /\ full(<<<<name>> \o f[1], f[2], f[3]>>) \in FilesUnder(list[i])
               /\ <<Append(prefix, name) \o f[1], f[2], f[3]>> \in {full(g) : g \in below(i)}
    <3>1. PICK x, y : x = <<<<name>> \o f[1], f[2], f[3]>> /\ y = <<Append(prefix, name) \o f[1], f[2], f[3]>>
      OBVIOUS
    <3>2. x \in below(i) /\ full(x) = y
      BY <2>2, <2>3, <3>1
    <3>3. y \in FilesUnder(list[i])
      BY <2>1, <3>1
    <3> HIDE DEF full, below, name, ends, list
    <3> QED BY <3>1, <3>2, <3>3
  <2>5. {full(f) : f \in below(i)} \subseteq FilesUnder(list[i])
    <3> HIDE DEF full, name, ends, below, list
    <3> QED BY <2>3, <2>4
  <2>6. FilesUnder(list[i]) \subseteq {full(f) : f \in below(i)}
    <3> HIDE DEF full, name, ends, below, list
    <3> QED BY <2>1, <2>4
  <2> QED BY <2>5, <2>6
<1>7. FilesBelow(data) = {own(i) : i \in Files(data)}
                          \union UNION {below(i) : i \in {j \in DOMAIN data : data[j].mode = "tree"}}
  BY DEF FilesBelow, Files
<1>8. {full(own(i)) : i \in Files(data)} = OwnFiles(data, prefix)
  <2>1. ASSUME NEW x
        PROVE  x \in {full(own(i)) : i \in Files(data)}
                <=> x \in OwnFiles(data, prefix)
    <3>1. ASSUME NEW i \in Files(data), x = full(own(i)) PROVE x \in OwnFiles(data, prefix)
      <4> HIDE DEF full, own
      <4>1. x = <<Append(prefix, data[i].name), data[i].mode, data[i].oid>>
        BY <1>5, <3>1
      <4> QED BY <4>1 DEF OwnFiles
    <3>2. ASSUME x \in OwnFiles(data, prefix) PROVE \E i \in Files(data) : x = full(own(i))
      <4>1. PICK i \in Files(data) : x = <<Append(prefix, data[i].name), data[i].mode, data[i].oid>>
        BY <3>2 DEF OwnFiles
      <4> HIDE DEF full, own
      <4> QED BY <1>5, <4>1
    <3> HIDE DEF full, own
    <3> QED BY <3>1, <3>2
  <2> HIDE DEF full, own
  <2> QED BY <2>1
<1>9. UNION {{full(f) : f \in below(i)} : i \in {j \in DOMAIN data : data[j].mode = "tree"}} = Under(list)
  <2>1. \A i \in DOMAIN list : data[i].mode # "tree" => FilesUnder(list[i]) = {}
    BY <1>4 DEF FilesUnder
  <2>2. ASSUME NEW i \in DOMAIN list
        PROVE  data[i].mode # "tree" \/ {full(f) : f \in below(i)} = FilesUnder(list[i])
    BY <1>4, <1>6
  <2> HIDE DEF full, below, list
  <2>3. ASSUME NEW x \in Under(list)
        PROVE  x \in UNION {{full(f) : f \in below(i)} : i \in {j \in DOMAIN data : data[j].mode = "tree"}}
    <3>1. PICK i \in DOMAIN list : x \in FilesUnder(list[i])
      BY DEF Under
    <3>2. data[i].mode = "tree" /\ i \in DOMAIN data
      BY <1>4, <2>1, <3>1
    <3>3. x \in {full(f) : f \in below(i)}
      BY <2>2, <3>1, <3>2
    <3> QED BY <3>2, <3>3
  <2>4. ASSUME NEW x \in UNION {{full(f) : f \in below(i)} : i \in {j \in DOMAIN data : data[j].mode = "tree"}}
        PROVE  x \in Under(list)
    <3>1. PICK i \in DOMAIN data : data[i].mode = "tree" /\ x \in {full(f) : f \in below(i)}
      OBVIOUS
    <3>2. i \in DOMAIN list /\ x \in FilesUnder(list[i])
      BY <1>4, <1>6, <3>1
    <3> QED BY <3>2 DEF Under
  <2> QED BY <2>3, <2>4
<1>10. {full(f) : f \in FilesBelow(data)} =
        {full(own(i)) : i \in Files(data)}
        \union UNION {{full(f) : f \in below(i)} : i \in {j \in DOMAIN data : data[j].mode = "tree"}}
  <2> HIDE DEF full, below, own
  <2> QED BY <1>7
<1>11. FilesUnder(item) = FilesIn(data, prefix, depth)
  <2>1. FilesUnder(item) = OwnFiles(data, prefix) \union Under(list)
    <3> HIDE DEF full, below, own, list
    <3> QED BY <1>3, <1>8, <1>9, <1>10
  <2> QED BY <2>1 DEF FilesIn
<1> QED BY <1>11

\* The files of a sound tree are added to what was found.
LEMMA FilesAdded ==
    ASSUME NEW data, IsList(data), \A i \in DOMAIN data : data[i].name \in Nat,
           NEW prefix \in Seq(Nat), NEW tree, IsFiniteSet(DOMAIN tree), ValidTree(data, prefix, tree)
    PROVE  /\ Found(WithFiles(data, prefix, tree)) = Found(tree) \union OwnFiles(data, prefix)
           /\ IsFiniteSet(DOMAIN WithFiles(data, prefix, tree))
<1> DEFINE path(i) == Append(prefix, data[i].name)
           more == WithFiles(data, prefix, tree)
           new == {path(i) : i \in Files(data)}
<1>1. DOMAIN more = DOMAIN tree \union new
  BY DEF WithFiles
<1>2. \A p \in DOMAIN tree : more[p] = tree[p]
  BY DEF WithFiles
<1>3. ASSUME NEW i \in Files(data)
      PROVE  path(i) \notin DOMAIN tree /\ more[path(i)] = [mode |-> data[i].mode, oid |-> data[i].oid]
  <2>1. path(i) \notin DOMAIN tree
    BY DEF ValidTree
  <2>2. PICK j : j = CHOOSE k \in Files(data) : Append(prefix, data[k].name) = path(i)
    OBVIOUS
  <2>3. j \in Files(data) /\ path(j) = path(i)
    BY <2>2
  <2>4. data[i].name \in Nat /\ data[j].name \in Nat
    BY <2>3 DEF Files
  <2>5. data[i].name = data[j].name
    BY <2>3, <2>4, SameAppended
  <2>6. i = j
    BY <2>3, <2>5 DEF ValidTree
  <2>7. more[path(i)] = [mode |-> data[j].mode, oid |-> data[j].oid]
    BY <2>1, <2>2 DEF WithFiles
  <2> QED BY <2>1, <2>6, <2>7
<1>4. IsFiniteSet(new)
  <2>1. PICK n \in Nat : DOMAIN data = 1..n
    BY Listed1
  <2>2. IsFiniteSet(DOMAIN data)
    BY <2>1, FS_Interval
  <2>3. IsFiniteSet(Files(data))
    BY <2>2, FS_Subset DEF Files
  <2> DEFINE f == [i \in Files(data) |-> path(i)]
  <2>4. f \in Surjection(Files(data), new)
    <3>1. f \in [Files(data) -> new] /\ \A i \in Files(data) : f[i] = path(i)
      OBVIOUS
    <3> HIDE DEF f
    <3>2. \A p \in new : \E i \in Files(data) : f[i] = p
      BY <3>1
    <3> QED BY <3>1, <3>2 DEF Surjection
  <2> HIDE DEF f, new
  <2> QED BY <2>3, <2>4, FS_Surjection
<1>5. IsFiniteSet(DOMAIN more)
  BY <1>1, <1>4, FS_Union
<1>6. Found(more) = {<<p, more[p].mode, more[p].oid>> : p \in DOMAIN tree}
                    \union {<<path(i), more[path(i)].mode, more[path(i)].oid>> : i \in Files(data)}
  <2> HIDE DEF more, path
  <2> QED BY <1>1 DEF Found
<1>7. {<<p, more[p].mode, more[p].oid>> : p \in DOMAIN tree} = Found(tree)
  <2> HIDE DEF more
  <2> QED BY <1>2 DEF Found
<1>8. {<<path(i), more[path(i)].mode, more[path(i)].oid>> : i \in Files(data)} = OwnFiles(data, prefix)
  <2>1. ASSUME NEW i \in Files(data)
        PROVE  more[path(i)].mode = data[i].mode /\ more[path(i)].oid = data[i].oid
    <3>1. PICK e, m, o : e = more[path(i)] /\ m = data[i].mode /\ o = data[i].oid
      OBVIOUS
    <3>2. e = [mode |-> m, oid |-> o]
      BY <1>3, <3>1
    <3>3. e.mode = m /\ e.oid = o
      BY <3>2
    <3> QED BY <3>1, <3>3
  <2>2. ASSUME NEW x
        PROVE  x \in {<<path(i), more[path(i)].mode, more[path(i)].oid>> : i \in Files(data)}
                <=> x \in OwnFiles(data, prefix)
    <3> HIDE DEF more
    <3> QED BY <2>1 DEF OwnFiles
  <2> HIDE DEF more
  <2> QED BY <2>2
<1> QED BY <1>5, <1>6, <1>7, <1>8

\* The next tree is asked for, or the files of the commit are all found.
LEMMA NextTreeKeeps ==
    ASSUME IInv, VerifierStep, v.step = "object", v.frames = <<>>, NEW next, NextTree(next),
           DOMAIN next = DOMAIN Idle, next.budget = v.budget, next.hops = v.hops,
           next.found = v.found, next.at = v.at,
           next.depth = v.depth, next.frames = v.frames, next.index = v.index,
           IsList(next.todo), \A i \in DOMAIN next.todo : next.todo[i].prefix \in Seq(Nat),
           IsFiniteSet(DOMAIN next.tree),
           InCommit = Found(next.tree) \union Under(next.todo)
    PROVE  VerifierInv'
<1> DEFINE trees == {i \in DOMAIN next.todo : next.todo[i].mode = "tree"}
<1>1. v.step \in Fetching /\ v.step \notin Working
  BY DEF Fetching, Working
<1>2. ShapeInv /\ v.at = 0 /\ v.found = {} /\ IsList(v.index)
  BY <1>1 DEF IInv, VerifierInv, ShapeInv
<1>3. /\ ReachesApproved(SeenHeads, SeenReferences)
      /\ \E r \in past.since : r.index.entries = v.index /\ ValidIndex(r.index)
  BY <1>1 DEF IInv, VerifierInv, HeadInv, IndexInv, Fetching
<1>4. /\ expected' = expected /\ past'.since = past.since /\ InCommit' = InCommit
      /\ ReachesApproved(SeenHeads, SeenReferences)'
  BY <1>3, StepsOn DEF IInv
<1>5. \A i \in DOMAIN next.todo : i \notin trees => FilesUnder(next.todo[i]) = {}
  BY DEF FilesUnder
<1>6. CASE /\ trees = {}
           /\ v' = [next EXCEPT !.step = "compare", !.goal = <<>>, !.todo = <<>>, !.object = <<>>]
  <2>1. /\ DOMAIN v' = DOMAIN Idle /\ v'.step = "compare" /\ v'.index = v.index /\ v'.tree = next.tree
        /\ v'.budget = v.budget /\ v'.depth = v.depth /\ v'.hops = v.hops /\ v'.found = v.found
        /\ v'.at = v.at
        /\ v'.frames = v.frames
    BY <1>6, IdleFields
  <2>2. ShapeInv'
    BY <1>2, <2>1 DEF ShapeInv, Steps, Fetching, Working
  <2>3. Under(next.todo) = {}
    BY <1>5, <1>6 DEF Under
  <2>4. TreeInv'
    <3>1. InCommit' = Found(v'.tree)
      BY <1>4, <2>1, <2>3
    <3> QED BY <2>1, <3>1 DEF TreeInv, Fetching
  <2>5. HeadInv' /\ IndexInv'
    <3>1. HeadInv'
      BY <1>4, <2>1 DEF HeadInv
    <3>2. IndexInv'
      BY <1>3, <1>4, <2>1 DEF IndexInv
    <3> QED BY <3>1, <3>2
  <2> QED BY <2>1, <2>2, <2>4, <2>5 DEF VerifierInv, AskInv, WorkInv, WalkInv, AcceptedWasThere,
             Fetching, Working
<1>7. ASSUME NEW i \in trees, \A j \in trees : i <= j,
             IF next.todo[i].depth < MaxDepth
             THEN Fetch([next EXCEPT !.todo = SubSeq(@, i + 1, Len(@))], <<next.todo[i]>>, next.todo[i].oid)
             ELSE Reject
      PROVE  VerifierInv'
  <2>1. CASE ~ (next.todo[i].depth < MaxDepth)
    BY <1>7, <2>1, Rejects
  <2>2. CASE next.todo[i].depth < MaxDepth
    <3> DEFINE rest == SubSeq(next.todo, i + 1, Len(next.todo))
               on == [next EXCEPT !.todo = SubSeq(@, i + 1, Len(@))]
               goal == <<next.todo[i]>>
    <3>1. Fetch(on, goal, next.todo[i].oid)
      BY <1>7, <2>2
    <3>2. /\ DOMAIN on = DOMAIN Idle /\ on.budget = v.budget /\ on.hops = v.hops /\ on.found = {} /\ on.at = 0
          /\ on.index = v.index /\ on.tree = next.tree /\ on.todo = rest
      BY <1>2, IdleFields
    <3>3. Len(next.todo) \in Nat /\ DOMAIN next.todo = 1..Len(next.todo) /\ i \in 1..Len(next.todo)
      BY <1>7, Listed1
    <3>4. /\ IsList(rest) /\ Len(rest) = Len(next.todo) - i
          /\ \A j \in 1..(Len(next.todo) - i) : rest[j] = next.todo[i + j]
      BY <3>3, After
    <3>5. DOMAIN rest = 1..(Len(next.todo) - i)
      BY <3>4, Listed1
    <3> HIDE DEF rest, on
    <3>6. ASSUME NEW j \in DOMAIN rest PROVE i + j \in DOMAIN next.todo /\ rest[j] = next.todo[i + j]
      BY <3>3, <3>4, <3>5
    <3>7. \A j \in DOMAIN rest : rest[j].prefix \in Seq(Nat)
      BY <3>6
    <3>8. ASSUME NEW j \in DOMAIN next.todo, NEW x \in FilesUnder(next.todo[j])
          PROVE  x \in FilesUnder(next.todo[i]) \union Under(rest)
      <4>1. j \in trees
        BY <1>5, <3>8
      <4>2. i <= j
        BY <1>7, <4>1
      <4>3. CASE i = j
        BY <3>8, <4>3
      <4>4. CASE i # j
        <5>1. j - i \in 1..(Len(next.todo) - i) /\ i + (j - i) = j
          BY <3>3, <4>2, <4>4
        <5>2. j - i \in DOMAIN rest /\ rest[j - i] = next.todo[j]
          BY <3>4, <3>5, <5>1
        <5> QED BY <3>8, <5>2 DEF Under
      <4> QED BY <4>3, <4>4
    <3>9. Under(next.todo) = FilesUnder(next.todo[i]) \union Under(rest)
      <4>1. Under(next.todo) \subseteq FilesUnder(next.todo[i]) \union Under(rest)
        BY <3>8 DEF Under
      <4>2. FilesUnder(next.todo[i]) \subseteq Under(next.todo)
        BY <3>3 DEF Under
      <4>3. Under(rest) \subseteq Under(next.todo)
        BY <3>6 DEF Under
      <4> QED BY <4>1, <4>2, <4>3
    <3>10. /\ goal = <<goal[1]>> /\ goal[1] = next.todo[i] /\ goal # <<>>
           /\ goal[1].mode = "tree" /\ goal[1].prefix \in Seq(Nat)
      BY <1>7
    <3>11. InCommit = Found(on.tree) \union FilesUnder(goal[1]) \union Under(on.todo)
      BY <3>2, <3>9, <3>10
    <3>12. next.todo[i].oid = IF goal = <<>> THEN expected ELSE goal[1].oid
      BY <3>10
    <3>13. /\ IsList(on.index)
           /\ \E r \in past.since : r.index.entries = on.index /\ ValidIndex(r.index)
      BY <1>2, <1>3, <3>2
    <3>14. \/ goal = <<>> /\ on.tree = <<>> /\ on.todo = <<>>
           \/ /\ goal = <<goal[1]>> /\ goal[1].mode = "tree" /\ goal[1].prefix \in Seq(Nat)
              /\ IsList(on.todo) /\ \A j \in DOMAIN on.todo : on.todo[j].prefix \in Seq(Nat)
              /\ IsFiniteSet(DOMAIN on.tree)
              /\ InCommit = Found(on.tree) \union FilesUnder(goal[1]) \union Under(on.todo)
      BY <3>2, <3>4, <3>7, <3>10, <3>11
    <3> HIDE DEF goal
    <3> QED BY <1>3, <3>1, <3>2, <3>12, <3>13, <3>14, FetchKeeps
  <2> QED BY <2>1, <2>2
<1> QED BY <1>6, <1>7 DEF NextTree

\* The commit or a tree is read: its files are found, its directories are still to be read.
LEMMA DeliverKeeps ==
    ASSUME IInv, VerifierStep, Deliver
    PROVE  VerifierInv'
<1> DEFINE kind == v.object[1]
           data == v.object[2]
           goal == v.goal[1]
           top == [mode |-> "tree", oid |-> data[1], depth |-> 0, prefix |-> <<>>]
<1>1. v.step = "object" /\ v.step \in Fetching /\ v.step \notin Working /\ v.frames = <<>>
  BY DEF Deliver, Fetching, Working
<1>2. DOMAIN v = DOMAIN Idle
  BY DEF IInv, VerifierInv, ShapeInv
<1>3. HasDigest(v.object, Asked)
  BY <1>1 DEF IInv, VerifierInv, AskInv
<1>4. CASE v.goal = <<>> /\ kind = "commit" /\ data # <<>>
  <2> DEFINE next == [v EXCEPT !.todo = <<top>>]
  <2>1. NextTree(next)
    BY <1>4 DEF Deliver
  <2>2. v.tree = <<>>
    <3>1. v.goal # <<v.goal[1]>>
      BY <1>4
    <3> QED BY <1>1, <3>1 DEF IInv, VerifierInv, TreeInv
  <2>3. /\ DOMAIN next = DOMAIN Idle /\ next.budget = v.budget /\ next.hops = v.hops
        /\ next.found = v.found /\ next.at = v.at
        /\ next.depth = v.depth /\ next.frames = v.frames /\ next.index = v.index /\ next.tree = <<>>
        /\ next.todo = <<top>>
    <3> HIDE DEF top
    <3> QED BY <1>2, <2>2, IdleFields
  <2>4. data = Named[expected][2]
    BY <1>3, <1>4 DEF HasDigest, Asked
  <2>5. InCommit = Under(<<top>>)
    <3>1. top.mode = "tree" /\ top.prefix = <<>> /\ top.oid = data[1]
      OBVIOUS
    <3>2. InCommit = FilesOf(data[1])
      BY <2>4 DEF InCommit
    <3>3. \A f \in FilesOf(data[1]) : f = <<f[1], f[2], f[3]>> /\ f[1] \in Seq(Nat)
      BY TreesAssumption DEF FilesOf, Paths
    <3>4. \A f \in FilesOf(data[1]) : <<<<>> \o f[1], f[2], f[3]>> = f
      <4>1. \A p \in Seq(Nat) : <<>> \o p = p
        BY ConcatEmptySeq
      <4> QED BY <3>3, <4>1
    <3>5. FilesUnder(top) = {<<<<>> \o f[1], f[2], f[3]>> : f \in FilesOf(data[1])}
      <4> HIDE DEF top
      <4> QED BY <3>1 DEF FilesUnder
    <3>6. FilesUnder(top) = FilesOf(data[1])
      <4> HIDE DEF top
      <4>1. FilesUnder(top) \subseteq FilesOf(data[1])
        BY <3>4, <3>5
      <4>2. FilesOf(data[1]) \subseteq FilesUnder(top)
        BY <3>4, <3>5
      <4> QED BY <4>1, <4>2
    <3> HIDE DEF top
    <3> QED BY <3>2, <3>6, UnderOne
  <2>6. IsList(<<top>>) /\ \A i \in DOMAIN <<top>> : <<top>>[i].prefix \in Seq(Nat)
    <3>1. top.prefix \in Seq(Nat)
      OBVIOUS
    <3> HIDE DEF top
    <3> QED BY <3>1, OneElement
  <2>7. Found(<<>>) = {} /\ IsFiniteSet(DOMAIN <<>>)
    <3>1. DOMAIN <<>> = {}
      OBVIOUS
    <3> QED BY <3>1, UnderOne, FS_EmptySet
  <2>8. InCommit = Found(next.tree) \union Under(next.todo)
    BY <2>3, <2>5, <2>7
  <2>9. /\ IsList(next.todo) /\ \A i \in DOMAIN next.todo : next.todo[i].prefix \in Seq(Nat)
        /\ IsFiniteSet(DOMAIN next.tree)
    BY <2>3, <2>6, <2>7
  <2> HIDE DEF next
  <2> QED BY <1>1, <2>1, <2>3, <2>8, <2>9, NextTreeKeeps
<1>5. CASE v.goal # <<>> /\ kind = "tree" /\ ValidTree(data, goal.prefix, v.tree)
  <2> DEFINE list == Listed(data, goal.prefix, goal.depth + 1)
             next == [v EXCEPT !.tree = WithFiles(data, goal.prefix, @), !.todo = list \o @]
  <2>1. NextTree(next)
    BY <1>5 DEF Deliver
  <2>2. /\ goal.mode = "tree" /\ goal.prefix \in Seq(Nat)
        /\ IsList(v.todo) /\ \A i \in DOMAIN v.todo : v.todo[i].prefix \in Seq(Nat)
        /\ IsFiniteSet(DOMAIN v.tree)
        /\ InCommit = Found(v.tree) \union FilesUnder(goal) \union Under(v.todo)
    BY <1>1, <1>5 DEF IInv, VerifierInv, TreeInv
  <2>3. goal.oid \in DOMAIN Trees /\ data = Named[goal.oid][2]
    BY <1>3, <1>5, TreesAssumption DEF HasDigest, Asked
  <2>4. /\ FilesUnder(goal) = OwnFiles(data, goal.prefix) \union Under(list)
        /\ IsList(data) /\ IsList(list) /\ \A i \in DOMAIN data : data[i].name \in Nat
        /\ \A i \in DOMAIN list : list[i].prefix \in Seq(Nat)
    <3>1. PICK item, id, prefix, depth, some :
            item = goal /\ id = goal.oid /\ prefix = goal.prefix /\ depth = goal.depth + 1 /\ some = data
      OBVIOUS
    <3>2. id \in DOMAIN Trees /\ prefix \in Seq(Nat) /\ some = Named[id][2] /\ item.mode = "tree"
      BY <2>2, <2>3, <3>1
    <3>3. /\ FilesUnder(item) = OwnFiles(some, prefix) \union Under(Listed(some, prefix, depth))
          /\ IsList(some) /\ IsList(Listed(some, prefix, depth))
          /\ \A i \in DOMAIN some : some[i].name \in Nat
          /\ \A i \in DOMAIN Listed(some, prefix, depth) : Listed(some, prefix, depth)[i].prefix \in Seq(Nat)
      <4>1. item.oid = id /\ item.prefix = prefix
        BY <3>1
      <4> HIDE DEF list, goal, data
      <4>2. FilesUnder(item) = FilesIn(some, prefix, depth)
        BY ONLY <3>2, <4>1, BelowTree
      <4>3. IsList(some) /\ IsList(Listed(some, prefix, depth))
        BY ONLY <3>2, TreeLists
      <4>4. \A i \in DOMAIN some : some[i].name \in Nat
        BY ONLY <3>2, TreeLists
      <4>5. \A i \in DOMAIN Listed(some, prefix, depth) : Listed(some, prefix, depth)[i].prefix \in Seq(Nat)
        BY ONLY <3>2, TreeLists
      <4> QED BY <4>2, <4>3, <4>4, <4>5 DEF FilesIn
    <3>4. list = Listed(some, prefix, depth)
      BY <3>1
    <3> HIDE DEF list, goal, data
    <3> QED BY <3>1, <3>3, <3>4
  <2>5. /\ Found(WithFiles(data, goal.prefix, v.tree)) = Found(v.tree) \union OwnFiles(data, goal.prefix)
        /\ IsFiniteSet(DOMAIN WithFiles(data, goal.prefix, v.tree))
    <3>1. PICK some, prefix, tree : some = data /\ prefix = goal.prefix /\ tree = v.tree
      OBVIOUS
    <3>2. /\ IsList(some) /\ (\A i \in DOMAIN some : some[i].name \in Nat) /\ prefix \in Seq(Nat)
          /\ IsFiniteSet(DOMAIN tree) /\ ValidTree(some, prefix, tree)
      BY <1>5, <2>2, <2>4, <3>1
    <3>3. /\ Found(WithFiles(some, prefix, tree)) = Found(tree) \union OwnFiles(some, prefix)
          /\ IsFiniteSet(DOMAIN WithFiles(some, prefix, tree))
      BY <3>2, FilesAdded
    <3> QED BY <3>1, <3>3
  <2> HIDE DEF list, goal, data
  <2>6. /\ DOMAIN next = DOMAIN Idle /\ next.budget = v.budget /\ next.hops = v.hops
        /\ next.found = v.found /\ next.at = v.at
        /\ next.depth = v.depth /\ next.frames = v.frames /\ next.index = v.index
        /\ next.tree = WithFiles(data, goal.prefix, v.tree) /\ next.todo = list \o v.todo
    BY <1>2, IdleFields
  <2> HIDE DEF next
  <2>7. IsList(next.todo) /\ Under(next.todo) = Under(list) \union Under(v.todo)
    BY <2>2, <2>4, <2>6, Joined, UnderJoined
  <2>8. \A i \in DOMAIN next.todo : next.todo[i].prefix \in Seq(Nat)
    <3>1. PICK m, n : m = Len(list) /\ n = Len(v.todo)
      OBVIOUS
    <3>2. /\ m \in Nat /\ n \in Nat /\ DOMAIN list = 1..m /\ DOMAIN v.todo = 1..n
      BY <2>2, <2>4, <3>1, Listed1
    <3>3. Len(list \o v.todo) = m + n /\ DOMAIN (list \o v.todo) = 1..Len(list \o v.todo)
      BY <2>2, <2>4, <2>6, <2>7, <3>1, Joined, Listed1
    <3>4. /\ DOMAIN next.todo = 1..(m + n)
          /\ \A i \in 1..m : next.todo[i] = list[i]
          /\ \A i \in 1..n : next.todo[m + i] = v.todo[i]
      BY <2>2, <2>4, <2>6, <3>1, <3>3, Joined
    <3>5. TAKE i \in DOMAIN next.todo
    <3>6. CASE i <= m
      <4>1. i \in 1..m
        BY <3>2, <3>4, <3>6
      <4> QED BY <2>4, <3>2, <3>4, <4>1
    <3>7. CASE ~ (i <= m)
      <4>1. i - m \in 1..n /\ m + (i - m) = i
        BY <3>2, <3>4, <3>7
      <4>2. next.todo[i] = v.todo[i - m] /\ i - m \in DOMAIN v.todo
        BY <3>2, <3>4, <4>1
      <4> QED BY <2>2, <4>2
    <3> QED BY <3>6, <3>7
  <2>9. InCommit = Found(next.tree) \union Under(next.todo)
    BY <2>2, <2>4, <2>5, <2>6, <2>7
  <2>10. IsFiniteSet(DOMAIN next.tree)
    BY <2>5, <2>6
  <2> QED BY <1>1, <2>1, <2>6, <2>7, <2>8, <2>9, <2>10, NextTreeKeeps
<1>6. CASE /\ ~ (v.goal = <<>> /\ kind = "commit" /\ data # <<>>)
           /\ ~ (v.goal # <<>> /\ kind = "tree" /\ ValidTree(data, goal.prefix, v.tree))
  <2>1. Reject
    BY <1>6 DEF Deliver
  <2> QED BY <2>1, Rejects
<1> QED BY <1>4, <1>5, <1>6

-----------------------------------------------------------------------------
(* The comparison and the worktree.                                        *)

\* An index in order that agrees with a tree has exactly its files.
LEMMA Agreement ==
    ASSUME NEW index, IsIndex(index), ValidIndex(index), NEW tree, IsFiniteSet(DOMAIN tree),
           IndexAgrees(index.entries, tree)
    PROVE  /\ Entries3(index.entries) = Found(tree)
           /\ \A i \in DOMAIN index.entries : index.entries[i].mode \in FileModes
<1> DEFINE entries == index.entries
           n == Len(entries)
           path == [i \in 1..n |-> entries[i].path]
<1>1. n \in Nat /\ DOMAIN entries = 1..n
  BY Listed1 DEF IsIndex, IsList
<1>2. \A i \in DOMAIN entries : entries[i].mode \in FileModes
  BY DEF ValidIndex
<1>3. /\ n = Cardinality(DOMAIN tree)
      /\ \A i \in DOMAIN entries :
            /\ entries[i].path \in DOMAIN tree
            /\ tree[entries[i].path] = [mode |-> entries[i].mode, oid |-> entries[i].oid]
  BY DEF IndexAgrees
<1>4. \A i, j \in DOMAIN entries : entries[i].path = entries[j].path => i = j
  BY OrderedIsDistinct
<1> HIDE DEF entries, n
<1>5. ASSUME NEW i \in DOMAIN entries
      PROVE  tree[entries[i].path].mode = entries[i].mode /\ tree[entries[i].path].oid = entries[i].oid
  <2>1. PICK e, m, o : e = tree[entries[i].path] /\ m = entries[i].mode /\ o = entries[i].oid
    OBVIOUS
  <2>2. e = [mode |-> m, oid |-> o]
    BY <1>3, <2>1
  <2>3. e.mode = m /\ e.oid = o
    BY <2>2
  <2> QED BY <2>1, <2>3
<1>6. path \in Injection(1..n, DOMAIN tree)
  <2>1. path \in [1..n -> DOMAIN tree] /\ \A i \in 1..n : path[i] = entries[i].path
    BY <1>1, <1>3
  <2> HIDE DEF path
  <2> QED BY <1>1, <1>4, <2>1 DEF Injection, IsInjective
<1>7. Cardinality(1..n) = n
  BY <1>1, FS_Interval
<1>8. path \in Surjection(1..n, DOMAIN tree)
  <2> HIDE DEF path
  <2> QED BY <1>3, <1>6, <1>7, FS_Injection
<1>9. ASSUME NEW p \in DOMAIN tree PROVE \E i \in DOMAIN entries : entries[i].path = p
  <2>1. PICK i \in 1..n : path[i] = p
    <3> HIDE DEF path
    <3> QED BY <1>8 DEF Surjection
  <2>2. path[i] = entries[i].path
    BY <2>1
  <2> QED BY <1>1, <2>1, <2>2
<1>10. Entries3(entries) = Found(tree)
  <2>1. Entries3(entries) \subseteq Found(tree)
    BY <1>3, <1>5 DEF Entries3, Found
  <2>2. ASSUME NEW p \in DOMAIN tree PROVE <<p, tree[p].mode, tree[p].oid>> \in Entries3(entries)
    <3>1. PICK i \in DOMAIN entries : entries[i].path = p
      BY <1>9
    <3>2. <<p, tree[p].mode, tree[p].oid>> = <<entries[i].path, entries[i].mode, entries[i].oid>>
      BY <1>5, <3>1
    <3> QED BY <3>2 DEF Entries3
  <2> QED BY <2>1, <2>2 DEF Found
<1> QED BY <1>2, <1>10 DEF entries

\* Whether modes are checked is what the configuration says.
LEMMA ModesAgree ==
    ASSUME NEW config
    PROVE  ChecksModes(config) = ModesMatter(config)
<1>1. PICK worktree, common : worktree = config.worktree /\ common = config.common
  OBVIOUS
<1>2. ChecksModes(config) = (Stated(config) \in {"absent", "true"})
  BY DEF ChecksModes
<1>3. CASE worktree # "absent"
  <2>1. Stated(config) = worktree /\ ModesMatter(config) = (worktree = "true")
    BY <1>1, <1>3 DEF Stated, ModesMatter
  <2> QED BY <1>2, <1>3, <2>1
<1>4. CASE worktree = "absent" /\ common # "absent"
  <2>1. Stated(config) = common /\ ModesMatter(config) = (common = "true")
    BY <1>1, <1>4 DEF Stated, ModesMatter
  <2> QED BY <1>2, <1>4, <2>1
<1>5. CASE worktree = "absent" /\ common = "absent"
  <2>1. Stated(config) = "absent" /\ ModesMatter(config) = TRUE
    BY <1>1, <1>5 DEF Stated, ModesMatter
  <2> QED BY <1>2, <1>5, <2>1
<1> QED BY <1>3, <1>4, <1>5

\* An index that agrees with the tree names the files of the commit.
LEMMA CompareKeeps ==
    ASSUME IInv, VerifierStep, Compare
    PROVE  VerifierInv'
<1>1. v.step = "compare"
  BY DEF Compare
<1>2. CASE /\ v' = [v EXCEPT !.step = "stat", !.at = 1, !.modes = ChecksModes(repo.config), !.tree = <<>>]
           /\ IndexAgrees(v.index, v.tree)
  <2>1. ShapeInv /\ DOMAIN v = DOMAIN Idle
    BY DEF IInv, VerifierInv, ShapeInv
  <2>2. PICK modes : modes = ChecksModes(repo.config)
    OBVIOUS
  <2>3. v' = [v EXCEPT !.step = "stat", !.at = 1, !.modes = modes, !.tree = <<>>]
    BY <1>2, <2>2
  <2>4. /\ DOMAIN v' = DOMAIN Idle /\ v'.step = "stat" /\ v'.at = 1 /\ v'.modes = modes
        /\ v'.index = v.index /\ v'.budget = v.budget /\ v'.depth = v.depth /\ v'.hops = v.hops
        /\ v'.frames = v.frames /\ v'.found = v.found
    BY <2>1, <2>3, IdleFields
  <2>5. PICK r \in past.since : r.index.entries = v.index /\ ValidIndex(r.index)
    BY <1>1 DEF IInv, VerifierInv, IndexInv
  <2>6. IsIndex(r.index)
    BY DEF IInv, WorldInv, Repository
  <2>7. IsFiniteSet(DOMAIN v.tree) /\ InCommit = Found(v.tree)
    BY <1>1 DEF IInv, VerifierInv, TreeInv
  <2>8. /\ Entries3(v.index) = InCommit
        /\ \A i \in DOMAIN v.index : v.index[i].mode \in FileModes
    <3>1. PICK index, tree : index = r.index /\ tree = v.tree
      OBVIOUS
    <3>2. /\ IsIndex(index) /\ ValidIndex(index) /\ IsFiniteSet(DOMAIN tree)
          /\ IndexAgrees(index.entries, tree)
      BY <1>2, <2>5, <2>6, <2>7, <3>1
    <3>3. /\ Entries3(index.entries) = Found(tree)
          /\ \A i \in DOMAIN index.entries : index.entries[i].mode \in FileModes
      BY <3>2, Agreement
    <3> QED BY <2>5, <2>7, <3>1, <3>3
  <2>9. Len(v.index) \in Nat
    BY <2>1, Listed1 DEF ShapeInv
  <2>10. ShapeInv'
    <3>1. v'.at \in 1..(Len(v'.index) + 1)
      BY <2>4, <2>9
    <3> QED BY <1>1, <2>1, <2>4, <3>1 DEF ShapeInv, Steps, Fetching, Working
  <2>11. /\ repo' = repo /\ past'.since = past.since /\ InCommit' = InCommit
         /\ ReachesApproved(SeenHeads, SeenReferences)'
    BY <1>1, StepsOn DEF IInv, VerifierInv, HeadInv
  <2>12. WorkInv'
    <3>1. v'.modes = ModesMatter(repo'.config)
      BY <2>2, <2>4, <2>11, ModesAgree
    <3>2. Entries3(v'.index) = InCommit'
      BY <2>4, <2>8, <2>11
    <3>3. \A i \in DOMAIN v'.index : v'.index[i].mode \in FileModes
      BY <2>4, <2>8
    <3>4. 1..(v'.at - 1) = {}
      BY <2>4
    <3> QED BY <2>4, <3>1, <3>2, <3>3, <3>4 DEF WorkInv
  <2>13. HeadInv' /\ IndexInv'
    <3>1. HeadInv'
      BY <2>4, <2>11 DEF HeadInv
    <3>2. IndexInv'
      BY <2>4, <2>5, <2>11 DEF IndexInv
    <3> QED BY <3>1, <3>2
  <2> QED BY <2>4, <2>10, <2>12, <2>13 DEF VerifierInv, AskInv, TreeInv, WalkInv, AcceptedWasThere, Fetching
<1>3. CASE Reject
  BY <1>3, Rejects
<1> QED BY <1>2, <1>3 DEF Compare

\* A step of the work on the worktree leaves alone what was known before it.
LEMMA WorkKeeps ==
    ASSUME IInv, VerifierStep, v.step \in Working, ShapeInv', v'.step \in Working, WalkInv',
           v'.index = v.index, v'.modes = v.modes,
           \A i \in 1..(v'.at - 1) : KindSeen(v.index[i]) /\ ContentSeen(v.index[i]),
           v'.step = "hash" => KindSeen(v.index[v'.at])
    PROVE  VerifierInv'
<1>1. /\ repo' = repo /\ past'.since = past.since /\ InCommit' = InCommit
      /\ ReachesApproved(SeenHeads, SeenReferences)'
      /\ \A entry : (KindSeen(entry) => KindSeen(entry)') /\ (ContentSeen(entry) => ContentSeen(entry)')
  BY StepsOn DEF IInv, VerifierInv, HeadInv, Working
<1>2. HeadInv' /\ IndexInv'
  <2>1. HeadInv'
    BY <1>1 DEF HeadInv, Working
  <2>2. IndexInv'
    BY <1>1 DEF IInv, VerifierInv, IndexInv
  <2> QED BY <2>1, <2>2
<1>3. WorkInv'
  <2>1. /\ Entries3(v.index) = InCommit /\ v.modes = ModesMatter(repo.config)
        /\ \A i \in DOMAIN v.index : v.index[i].mode \in FileModes
    BY DEF IInv, VerifierInv, WorkInv
  <2>2. Entries3(v'.index) = InCommit' /\ v'.modes = ModesMatter(repo'.config)
    BY <1>1, <2>1
  <2>3. \A i \in DOMAIN v'.index : v'.index[i].mode \in FileModes
    BY <2>1
  <2>4. \A i \in 1..(v'.at - 1) : KindSeen(v.index[i])' /\ ContentSeen(v.index[i])'
    <3>1. TAKE i \in 1..(v'.at - 1)
    <3>2. PICK entry : entry = v.index[i]
      OBVIOUS
    <3>3. KindSeen(entry)' /\ ContentSeen(entry)'
      BY <1>1, <3>2
    <3>4. v'.index[i] = entry
      BY <3>2
    <3> QED BY <3>3, <3>4 DEF KindSeen, ContentSeen
  <2>5. v'.step = "hash" => KindSeen(v.index[v.at])'
    <3>1. SUFFICES ASSUME v'.step = "hash" PROVE KindSeen(v.index[v.at])'
      OBVIOUS
    <3>2. PICK entry : entry = v.index[v'.at]
      OBVIOUS
    <3>3. KindSeen(entry)' /\ v'.index[v'.at] = entry
      BY <1>1, <3>1, <3>2
    <3> QED BY <3>3 DEF KindSeen
  <2> QED BY <2>2, <2>3, <2>4, <2>5 DEF WorkInv
<1>4. v'.step \notin Fetching /\ v'.step \notin {"index", "compare", "accepted"}
  BY DEF Fetching, Working
<1> QED BY <1>2, <1>3, <1>4 DEF VerifierInv, AskInv, TreeInv, AcceptedWasThere

\* lstat saw the kind of the file.
LEMMA StatKeeps ==
    ASSUME IInv, VerifierStep, Stat
    PROVE  VerifierInv'
<1> DEFINE tracked == v.index[v.at]
           entry == repo.work[tracked.path]
<1>1. v.step = "stat" /\ v.step \in Working /\ v.at <= Len(v.index)
  BY DEF Stat, Working
<1>2. ShapeInv /\ DOMAIN v = DOMAIN Idle
  BY DEF IInv, VerifierInv, ShapeInv
<1>3. CASE tracked.path \in DOMAIN repo.work /\ KindFits(entry, tracked.mode, v.modes)
  <2>1. PICK size : v' = [v EXCEPT !.step = "hash", !.size = size]
    BY <1>3 DEF Stat
  <2>2. /\ DOMAIN v' = DOMAIN Idle /\ v'.step = "hash" /\ v'.at = v.at /\ v'.modes = v.modes
        /\ v'.index = v.index /\ v'.budget = v.budget /\ v'.depth = v.depth /\ v'.hops = v.hops
        /\ v'.frames = v.frames /\ v'.found = v.found
    BY <1>2, <2>1, IdleFields
  <2>3. v.at \in 1..Len(v.index)
    <3>1. Len(v.index) \in Nat
      BY <1>2, Listed1 DEF ShapeInv
    <3>2. v.at \in 1..(Len(v.index) + 1)
      BY <1>1, <1>2 DEF ShapeInv
    <3> QED BY <1>1, <3>1, <3>2
  <2>4. ShapeInv'
    BY <1>1, <1>2, <2>2, <2>3 DEF ShapeInv, Steps, Fetching, Working
  <2>5. KindSeen(v.index[v.at])
    <3>1. v.modes = ModesMatter(repo.config) /\ repo \in past.since
      BY <1>1 DEF IInv, VerifierInv, WorkInv, WorldInv
    <3>2. PICK mode, modes, e : mode = tracked.mode /\ modes = v.modes /\ e = entry
      OBVIOUS
    <3>3. KindFits(e, mode, modes)
      BY <1>3, <3>2
    <3>4. RightKind(e, mode, modes)
      BY <3>3 DEF KindFits, RightKind
    <3> QED BY <1>3, <3>1, <3>2, <3>4 DEF KindSeen
  <2>6. \A i \in 1..(v'.at - 1) : KindSeen(v.index[i]) /\ ContentSeen(v.index[i])
    BY <1>1, <2>2 DEF IInv, VerifierInv, WorkInv
  <2>7. v'.step \in Working /\ WalkInv'
    BY <2>2 DEF Working, WalkInv
  <2> QED BY <1>1, <2>2, <2>4, <2>5, <2>6, <2>7, WorkKeeps
<1>4. CASE ~ (tracked.path \in DOMAIN repo.work /\ KindFits(entry, tracked.mode, v.modes))
  BY <1>4, Rejects DEF Stat
<1> QED BY <1>3, <1>4

\* The digest saw what the file held.
LEMMA DigestKeeps ==
    ASSUME IInv, VerifierStep, Digest
    PROVE  VerifierInv'
<1> DEFINE tracked == v.index[v.at]
           entry == repo.work[tracked.path]
           read == IF tracked.path \in DOMAIN repo.work THEN Hashed(entry, tracked.mode) ELSE <<>>
           right == /\ read # <<>> /\ HasDigest(<<"blob", read[1]>>, tracked.oid)
                    /\ tracked.mode # "link" => Len(read[1]) = v.size /\ v.size <= MaxFile
<1>1. v.step = "hash" /\ v.step \in Working
  BY DEF Digest, Working
<1>2. ShapeInv /\ DOMAIN v = DOMAIN Idle
  BY DEF IInv, VerifierInv, ShapeInv
<1>3. CASE right
  <2>1. v' = [v EXCEPT !.step = "stat", !.at = @ + 1, !.size = 0]
    BY <1>3 DEF Digest
  <2>2. /\ DOMAIN v' = DOMAIN Idle /\ v'.step = "stat" /\ v'.at = v.at + 1 /\ v'.modes = v.modes
        /\ v'.index = v.index /\ v'.budget = v.budget /\ v'.depth = v.depth /\ v'.hops = v.hops
        /\ v'.frames = v.frames /\ v'.found = v.found
    BY <1>2, <2>1, IdleFields
  <2>3. v.at \in 1..Len(v.index) /\ Len(v.index) \in Nat
    BY <1>1, <1>2, Listed1 DEF ShapeInv
  <2>4. ShapeInv'
    <3>1. v'.at \in 1..(Len(v'.index) + 1)
      BY <2>2, <2>3
    <3> QED BY <1>1, <1>2, <2>2, <3>1 DEF ShapeInv, Steps, Fetching, Working
  <2>5. ContentSeen(v.index[v.at])
    <3>1. tracked.path \in DOMAIN repo.work /\ read = Hashed(entry, tracked.mode) /\ read # <<>>
      BY <1>3
    <3>2. repo \in past.since /\ Worktree(repo.work)
      BY DEF IInv, WorldInv, Repository
    <3>3. entry.behind = <<>> \/ entry.behind = <<entry.behind[1]>>
      BY <3>1, <3>2 DEF Worktree
    <3>4. read = <<read[1]>>
      <4>1. PICK content, x : x = <<content>> /\ content = entry.content
        OBVIOUS
      <4>2. x[1] = content
        BY <4>1
      <4>3. read = x \/ read = entry.behind
        BY <3>1, <4>1 DEF Hashed, Readable
      <4> QED BY <3>1, <3>3, <4>1, <4>2, <4>3
    <3>5. read[1] = Named[tracked.oid][2]
      BY <1>3 DEF HasDigest
    <3>6. Hashed(entry, tracked.mode) = <<Named[tracked.oid][2]>>
      BY <3>1, <3>4, <3>5
    <3> QED BY <3>1, <3>2, <3>6 DEF ContentSeen
  <2>6. \A i \in 1..(v'.at - 1) : KindSeen(v.index[i]) /\ ContentSeen(v.index[i])
    <3>1. KindSeen(v.index[v.at]) /\ \A i \in 1..(v.at - 1) : KindSeen(v.index[i]) /\ ContentSeen(v.index[i])
      BY <1>1 DEF IInv, VerifierInv, WorkInv
    <3>2. \A i \in 1..(v'.at - 1) : i = v.at \/ i \in 1..(v.at - 1)
      BY <2>2, <2>3
    <3> QED BY <2>5, <3>1, <3>2
  <2>7. v'.step \in Working /\ WalkInv' /\ v'.step # "hash"
    BY <2>2 DEF Working, WalkInv
  <2> QED BY <1>1, <2>2, <2>4, <2>6, <2>7, WorkKeeps
<1>4. CASE ~right
  <2>1. Reject
    BY <1>4 DEF Digest
  <2> QED BY <2>1, Rejects
<1> QED BY <1>3, <1>4

\* A file below a directory is a child of it, or below one.
LEMMA ChildCovers ==
    ASSUME Worktree(repo.work), NEW directory \in Seq(Nat), NEW path \in DOMAIN repo.work,
           IsStrictPrefix(directory, path)
    PROVE  \E entry \in Children(directory) : Covers(entry, path)
<1> DEFINE n == Len(directory)
           child == SubSeq(path, 1, n + 1)
           entry == [path |-> child, directory |-> child \notin DOMAIN repo.work]
<1>1. path \in Seq(Nat)
  BY DEF Worktree, Paths
<1>2. n \in Nat /\ Len(path) \in Nat /\ n < Len(path)
  <2>1. n \in Nat /\ Len(path) \in Nat /\ n <= Len(path)
    BY <1>1, LenProperties DEF IsStrictPrefix, IsPrefix
  <2>2. n # Len(path)
    <3>1. SUFFICES ASSUME n = Len(path) PROVE FALSE
      OBVIOUS
    <3>2. SubSeq(directory, 1, n) = directory /\ SubSeq(path, 1, Len(path)) = path
      BY <1>1, SubSeqFull
    <3> QED BY <3>1, <3>2 DEF IsStrictPrefix, IsPrefix
  <2> QED BY <2>1, <2>2
<1>3. child \in Seq(Nat) /\ Len(child) = n + 1
  <2>1. \A i \in 1..(n + 1) : path[i] \in Nat
    <3>1. TAKE i \in 1..(n + 1)
    <3>2. i \in 1..Len(path)
      BY <1>2
    <3> QED BY <1>1, <3>2, ElementOfSeq
  <2>2. PICK m : m = n + 1
    OBVIOUS
  <2>3. SubSeq(path, 1, m) \in Seq(Nat) /\ Len(SubSeq(path, 1, m)) = IF 1 <= m THEN m - 1 + 1 ELSE 0
    BY <1>2, <2>1, <2>2, SubSeqProperties
  <2> QED BY <1>2, <2>2, <2>3
<1>4. IsPrefix(child, path)
  <2>1. SubSeq(child, 1, Len(child)) = child
    BY <1>3, SubSeqFull
  <2>2. Len(child) <= Len(path) /\ SubSeq(path, 1, Len(child)) = child
    BY <1>2, <1>3
  <2> QED BY <2>1, <2>2 DEF IsPrefix
<1>5. entry \in Children(directory)
  BY DEF Children, Below
<1>6. CASE child = path
  <2>1. entry.path = path
    BY <1>6
  <2> QED BY <1>5, <2>1 DEF Covers
<1>7. CASE child # path
  <2>1. IsStrictPrefix(child, path)
    BY <1>4, <1>7 DEF IsStrictPrefix
  <2>2. child \notin DOMAIN repo.work
    BY <2>1 DEF Worktree
  <2> HIDE DEF child
  <2>3. entry.directory /\ entry.path = child
    BY <2>2
  <2> QED BY <1>5, <2>1, <2>3 DEF Covers
<1> QED BY <1>6, <1>7

\* The children of a directory have paths.
LEMMA ChildPaths ==
    ASSUME Worktree(repo.work), NEW directory \in Seq(Nat)
    PROVE  \A entry \in Children(directory) : entry.path \in Paths
<1> SUFFICES ASSUME NEW entry \in Children(directory) PROVE entry.path \in Paths
  OBVIOUS
<1>1. PICK below \in Below(directory) : entry.path = SubSeq(below, 1, Len(directory) + 1)
  BY DEF Children
<1>2. PICK n : n = Len(directory) + 1
  OBVIOUS
<1>3. below \in Seq(Nat) /\ IsStrictPrefix(directory, below)
  BY <1>1 DEF Below, Worktree, Paths
<1>4. n \in Nat \ {0} /\ Len(below) \in Nat /\ n <= Len(below)
  <2>1. Len(directory) \in Nat /\ Len(below) \in Nat /\ Len(directory) <= Len(below)
    BY <1>3, LenProperties DEF IsStrictPrefix, IsPrefix
  <2>2. Len(directory) # Len(below)
    <3>1. SUFFICES ASSUME Len(directory) = Len(below) PROVE FALSE
      OBVIOUS
    <3>2. SubSeq(directory, 1, Len(directory)) = directory /\ SubSeq(below, 1, Len(below)) = below
      BY <1>3, SubSeqFull
    <3> QED BY <1>3, <3>1, <3>2 DEF IsStrictPrefix, IsPrefix
  <2> QED BY <1>2, <2>1, <2>2
<1>5. \A i \in 1..n : below[i] \in Nat
  <2>1. TAKE i \in 1..n
  <2>2. i \in 1..Len(below)
    BY <1>4
  <2> QED BY <1>3, <2>2, ElementOfSeq
<1>6. SubSeq(below, 1, n) \in Seq(Nat) /\ Len(SubSeq(below, 1, n)) = IF 1 <= n THEN n - 1 + 1 ELSE 0
  BY <1>4, <1>5, SubSeqProperties
<1>7. Len(SubSeq(below, 1, n)) # 0
  BY <1>4, <1>6
<1>8. SubSeq(below, 1, n) # <<>>
  BY <1>7, EmptyList
<1> QED BY <1>1, <1>2, <1>6, <1>8 DEF Paths

\* The walk starts with the children of the root.
LEMMA StartWalkKeeps ==
    ASSUME IInv, VerifierStep, StartWalk
    PROVE  VerifierInv'
<1>1. v.step = "stat" /\ v.step \in Working /\ v.at > Len(v.index)
  BY DEF StartWalk, Working
<1>2. ShapeInv /\ DOMAIN v = DOMAIN Idle /\ v.found = {}
  BY <1>1 DEF IInv, VerifierInv, ShapeInv
<1>3. v' = [v EXCEPT !.step = "walk", !.pending = Children(<<>>)]
  BY DEF StartWalk
<1>4. /\ DOMAIN v' = DOMAIN Idle /\ v'.step = "walk" /\ v'.at = v.at /\ v'.modes = v.modes
      /\ v'.index = v.index /\ v'.budget = v.budget /\ v'.depth = v.depth /\ v'.hops = v.hops
      /\ v'.frames = v.frames /\ v'.found = {} /\ v'.pending = Children(<<>>)
  BY <1>2, <1>3, IdleFields
<1>5. v.at = Len(v.index) + 1
  <2>1. Len(v.index) \in Nat
    BY <1>2, Listed1 DEF ShapeInv
  <2>2. v.at \in 1..(Len(v.index) + 1)
    BY <1>1, <1>2 DEF ShapeInv
  <2> QED BY <1>1, <2>1, <2>2
<1>6. ShapeInv'
  BY <1>1, <1>2, <1>4, <1>5 DEF ShapeInv, Steps, Fetching, Working
<1>7. past'.walk = {repo} /\ Worktree(repo.work)
  <2>1. v.step # "walk" /\ v'.step = "walk"
    BY <1>1, <1>4
  <2> QED BY <2>1, StepsOn DEF IInv, WorldInv, Repository
<1>8. <<>> \in Seq(Nat) /\ Len(<<>>) = 0
  BY EmptySeq
<1>9. ASSUME NEW path \in DOMAIN repo.work
      PROVE  \E entry \in Children(<<>>) : Covers(entry, path)
  <2>1. path \in Seq(Nat) /\ path # <<>>
    BY <1>7 DEF Worktree, Paths
  <2>2. IsStrictPrefix(<<>>, path)
    <3>1. SubSeq(<<>>, 1, 0) = <<>> /\ SubSeq(path, 1, 0) = <<>>
      BY SubSeqEmpty
    <3>2. Len(path) \in Nat
      BY <2>1, LenProperties
    <3> QED BY <1>8, <2>1, <3>1, <3>2 DEF IsStrictPrefix, IsPrefix
  <2> QED BY <1>7, <1>8, <2>2, ChildCovers
<1>10. WalkInv'
  <2>1. \A entry \in v'.pending : entry.path \in Paths
    BY <1>4, <1>7, <1>8, ChildPaths
  <2>2. \A path : (\A r \in past'.walk : path \in DOMAIN r.work) =>
                    \E entry \in v'.pending : Covers(entry, path)
    BY <1>4, <1>7, <1>9
  <2>3. v'.found \subseteq Tracked' /\ \A path \in v'.found : \E r \in past'.walk : path \in DOMAIN r.work
    BY <1>4
  <2> QED BY <2>1, <2>2, <2>3 DEF WalkInv, Covers
<1>11. \A i \in 1..(v'.at - 1) : KindSeen(v.index[i]) /\ ContentSeen(v.index[i])
  BY <1>1, <1>4 DEF IInv, VerifierInv, WorkInv
<1>12. v'.step \in Working /\ v'.step # "hash"
  BY <1>4 DEF Working
<1> QED BY <1>1, <1>4, <1>6, <1>10, <1>11, <1>12, WorkKeeps

\* The walk lists a directory, or meets a file.
LEMMA VisitKeeps ==
    ASSUME IInv, VerifierStep, Visit
    PROVE  VerifierInv'
<1>1. v.step = "walk" /\ v.step \in Working
  BY DEF Visit, Working
<1>2. ShapeInv /\ WalkInv /\ DOMAIN v = DOMAIN Idle
  BY DEF IInv, VerifierInv, ShapeInv
<1>3. past' = past /\ repo \in past.walk /\ Worktree(repo.work)
  BY <1>1, StepsOn DEF IInv, WorldInv, Repository
<1>4. PICK entry \in v.pending :
        CASE entry.directory /\ Below(entry.path) # {} ->
                v' = [v EXCEPT !.pending = (@ \ {entry}) \union Children(entry.path)]
          [] entry.directory /\ Below(entry.path) = {} /\ entry.path \notin DOMAIN repo.work ->
                v' = [v EXCEPT !.pending = @ \ {entry}] \/ Reject
          [] ~entry.directory /\ entry.path \in DOMAIN repo.work \intersect Tracked
             /\ repo.work[entry.path].kind \in {"file", "link"} ->
                v' = [v EXCEPT !.pending = @ \ {entry}, !.found = @ \union {entry.path}]
          [] OTHER -> Reject
  BY DEF Visit
<1>5. entry.path \in Seq(Nat)
  BY <1>1, <1>2 DEF WalkInv, Paths
<1>6. ASSUME NEW pending, NEW found,
             v' = [v EXCEPT !.pending = pending] \/ v' = [v EXCEPT !.pending = pending, !.found = found],
             WalkInv'
      PROVE  VerifierInv'
  <2>1. /\ DOMAIN v' = DOMAIN Idle /\ v'.step = "walk" /\ v'.at = v.at /\ v'.modes = v.modes
        /\ v'.index = v.index /\ v'.budget = v.budget /\ v'.depth = v.depth /\ v'.hops = v.hops
        /\ v'.frames = v.frames
    <3>1. CASE v' = [v EXCEPT !.pending = pending]
      BY <1>1, <1>2, <3>1, IdleFields
    <3>2. CASE v' = [v EXCEPT !.pending = pending, !.found = found]
      BY <1>1, <1>2, <3>2, IdleFields
    <3> QED BY <1>6, <3>1, <3>2
  <2>2. ShapeInv'
    BY <1>1, <1>2, <2>1 DEF ShapeInv, Steps, Fetching, Working
  <2>3. \A i \in 1..(v'.at - 1) : KindSeen(v.index[i]) /\ ContentSeen(v.index[i])
    BY <1>1, <2>1 DEF IInv, VerifierInv, WorkInv
  <2>4. v'.step \in Working /\ v'.step # "hash"
    BY <2>1 DEF Working
  <2> QED BY <1>1, <1>6, <2>1, <2>2, <2>3, <2>4, WorkKeeps
<1>7. /\ v.found \subseteq Tracked
      /\ \A path \in v.found : \E r \in past.walk : path \in DOMAIN r.work
      /\ \A other \in v.pending : other.path \in Paths
      /\ \A path : (\A r \in past.walk : path \in DOMAIN r.work) =>
                      path \in v.found \/ \E other \in v.pending : Covers(other, path)
  BY <1>1, <1>2 DEF WalkInv
<1>8. CASE entry.directory /\ Below(entry.path) # {}
  <2> DEFINE pending == (v.pending \ {entry}) \union Children(entry.path)
  <2>1. v' = [v EXCEPT !.pending = pending]
    BY <1>4, <1>8
  <2>2. v'.pending = pending /\ v'.found = v.found /\ v'.index = v.index /\ v'.step = "walk"
    <3> HIDE DEF pending
    <3> QED BY <1>1, <1>2, <2>1, IdleFields
  <2>3. entry.path \notin DOMAIN repo.work
    <3>1. PICK below \in DOMAIN repo.work : IsStrictPrefix(entry.path, below)
      BY <1>8 DEF Below
    <3> QED BY <1>3, <3>1 DEF Worktree
  <2>4. \A other \in pending : other.path \in Paths
    BY <1>3, <1>5, <1>7, ChildPaths
  <2>5. ASSUME NEW path, \A r \in past.walk : path \in DOMAIN r.work
        PROVE  path \in v.found \/ \E other \in pending : Covers(other, path)
    <3>1. SUFFICES ASSUME path \notin v.found PROVE \E other \in pending : Covers(other, path)
      OBVIOUS
    <3>2. PICK other \in v.pending : Covers(other, path)
      BY <1>7, <2>5, <3>1
    <3>3. CASE other # entry
      BY <3>2, <3>3
    <3>4. CASE other = entry
      <4>1. path \in DOMAIN repo.work
        BY <1>3, <2>5
      <4>2. IsStrictPrefix(entry.path, path)
        BY <2>3, <3>2, <3>4, <4>1 DEF Covers
      <4>3. \E child \in Children(entry.path) : Covers(child, path)
        BY <1>3, <1>5, <4>1, <4>2, ChildCovers
      <4> QED BY <4>3
    <3> QED BY <3>3, <3>4
  <2>6. Tracked' = Tracked
    BY <2>2 DEF Tracked
  <2> HIDE DEF pending
  <2>7. WalkInv'
    BY <1>3, <1>7, <2>2, <2>4, <2>5, <2>6 DEF WalkInv, Covers
  <2> QED BY <1>6, <2>1, <2>7
<1>9. CASE /\ ~ (entry.directory /\ Below(entry.path) # {})
           /\ ~entry.directory /\ entry.path \in DOMAIN repo.work \intersect Tracked
           /\ repo.work[entry.path].kind \in {"file", "link"}
  <2> DEFINE pending == v.pending \ {entry}
             found == v.found \union {entry.path}
  <2>1. v' = [v EXCEPT !.pending = pending, !.found = found]
    BY <1>4, <1>9
  <2>2. v'.pending = pending /\ v'.found = found /\ v'.index = v.index /\ v'.step = "walk"
    <3> HIDE DEF pending, found
    <3> QED BY <1>1, <1>2, <2>1, IdleFields
  <2>3. ASSUME NEW path, \A r \in past.walk : path \in DOMAIN r.work
        PROVE  path \in found \/ \E other \in pending : Covers(other, path)
    <3>1. SUFFICES ASSUME path \notin found PROVE \E other \in pending : Covers(other, path)
      OBVIOUS
    <3>2. PICK other \in v.pending : Covers(other, path)
      BY <1>7, <2>3, <3>1
    <3>3. other # entry
      BY <1>9, <3>1, <3>2 DEF Covers
    <3> QED BY <3>2, <3>3
  <2>4. found \subseteq Tracked
    BY <1>7, <1>9
  <2>5. \A path \in found : \E r \in past.walk : path \in DOMAIN r.work
    BY <1>3, <1>7, <1>9
  <2>6. \A other \in pending : other.path \in Paths
    BY <1>7
  <2>7. Tracked' = Tracked
    BY <2>2 DEF Tracked
  <2> HIDE DEF pending, found
  <2>8. WalkInv'
    BY <1>3, <2>2, <2>3, <2>4, <2>5, <2>6, <2>7 DEF WalkInv, Covers
  <2> QED BY <1>6, <2>1, <2>8
<1>10. CASE /\ entry.directory /\ Below(entry.path) = {} /\ entry.path \notin DOMAIN repo.work
            /\ v' = [v EXCEPT !.pending = @ \ {entry}]
  <2> DEFINE pending == v.pending \ {entry}
  <2>1. v' = [v EXCEPT !.pending = pending]
    BY <1>10
  <2>2. v'.pending = pending /\ v'.found = v.found /\ v'.index = v.index /\ v'.step = "walk"
    <3> HIDE DEF pending
    <3> QED BY <1>1, <1>2, <2>1, IdleFields
  <2>3. ASSUME NEW path, \A r \in past.walk : path \in DOMAIN r.work
        PROVE  path \in v.found \/ \E other \in pending : Covers(other, path)
    <3>1. SUFFICES ASSUME path \notin v.found PROVE \E other \in pending : Covers(other, path)
      OBVIOUS
    <3>2. PICK other \in v.pending : Covers(other, path)
      BY <1>7, <2>3, <3>1
    <3>3. path \in DOMAIN repo.work
      BY <1>3, <2>3
    <3>4. other # entry
      BY <1>10, <3>2, <3>3 DEF Covers, Below
    <3> QED BY <3>2, <3>4
  <2>4. \A other \in pending : other.path \in Paths
    BY <1>7
  <2>5. Tracked' = Tracked
    BY <2>2 DEF Tracked
  <2> HIDE DEF pending
  <2>6. WalkInv'
    BY <1>3, <1>7, <2>2, <2>3, <2>4, <2>5 DEF WalkInv, Covers
  <2> QED BY <1>6, <2>1, <2>6
<1>11. \/ Reject
       \/ entry.directory /\ Below(entry.path) # {}
       \/ /\ ~ (entry.directory /\ Below(entry.path) # {})
          /\ ~entry.directory /\ entry.path \in DOMAIN repo.work \intersect Tracked
          /\ repo.work[entry.path].kind \in {"file", "link"}
       \/ /\ entry.directory /\ Below(entry.path) = {} /\ entry.path \notin DOMAIN repo.work
          /\ v' = [v EXCEPT !.pending = @ \ {entry}]
  BY <1>4
<1>12. CASE Reject
  BY <1>12, Rejects
<1> QED BY <1>8, <1>9, <1>10, <1>11, <1>12

\* The acceptance.
LEMMA EndWalkKeeps ==
    ASSUME IInv, VerifierStep, EndWalk
    PROVE  VerifierInv'
<1>1. v.step = "walk" /\ v.step \in Working /\ v.pending = {}
  BY DEF EndWalk, Working
<1>2. ShapeInv /\ WalkInv /\ WorkInv
  BY DEF IInv, VerifierInv
<1>3. CASE AllMet
  <2>1. v' = [Idle EXCEPT !.step = "accepted"]
    BY <1>3 DEF EndWalk, Accept
  <2>2. v'.step = "accepted"
    BY <2>1, StartsIdle
  <2>3. ShapeInv'
    BY <2>1, IdleShape
  <2>4. past' = past /\ expected' = expected /\ InCommit' = InCommit
    BY <1>1, StepsOn DEF IInv
  <2>5. ReachesApproved(SeenHeads, SeenReferences) /\ ReachesApproved(SeenHeads, SeenReferences)'
    BY <1>1, StepsOn DEF IInv, VerifierInv, HeadInv
  <2>6. HeadInv'
    BY <2>2, <2>5 DEF HeadInv
  <2>7. v.found = Tracked
    <3>1. PICK n \in Nat : DOMAIN v.index = 1..n
      BY <1>2, Listed1 DEF ShapeInv
    <3> DEFINE path == [i \in DOMAIN v.index |-> v.index[i].path]
    <3>2. path \in Surjection(DOMAIN v.index, Tracked)
      <4>1. path \in [DOMAIN v.index -> Tracked] /\ \A i \in DOMAIN v.index : path[i] = v.index[i].path
        BY DEF Tracked
      <4> HIDE DEF path
      <4>2. \A p \in Tracked : \E i \in DOMAIN v.index : path[i] = p
        BY <4>1 DEF Tracked
      <4> QED BY <4>1, <4>2 DEF Surjection
    <3> HIDE DEF path
    <3>3. IsFiniteSet(DOMAIN v.index)
      <4>1. IsFiniteSet(1..n)
        BY FS_Interval
      <4> QED BY <3>1, <4>1
    <3>4. IsFiniteSet(Tracked)
      BY <3>2, <3>3, FS_Surjection
    <3>5. v.found \subseteq Tracked /\ Cardinality(v.found) = Cardinality(Tracked)
      BY <1>1, <1>2, <1>3 DEF WalkInv, AllMet
    <3> QED BY <3>4, <3>5, FS_Subset
  <2>8. Entries3(v.index) = InCommit
    BY <1>1, <1>2 DEF WorkInv
  <2>9. Tracked = {f[1] : f \in InCommit}
    <3>1. ASSUME NEW i \in DOMAIN v.index PROVE v.index[i].path \in {f[1] : f \in InCommit}
      <4>1. <<v.index[i].path, v.index[i].mode, v.index[i].oid>> \in InCommit
        BY <2>8 DEF Entries3
      <4>2. <<v.index[i].path, v.index[i].mode, v.index[i].oid>>[1] = v.index[i].path
        OBVIOUS
      <4> QED BY <4>1, <4>2
    <3>2. ASSUME NEW f \in InCommit PROVE f[1] \in Tracked
      <4>1. PICK i \in DOMAIN v.index : f = <<v.index[i].path, v.index[i].mode, v.index[i].oid>>
        BY <2>8 DEF Entries3
      <4>2. f[1] = v.index[i].path
        BY <4>1
      <4> QED BY <4>2 DEF Tracked
    <3> QED BY <3>1, <3>2 DEF Tracked
  <2>10. \E r \in past.since : InIndex(r.index) = InCommit
    <3>1. PICK r \in past.since : r.index.entries = v.index
      BY <1>1 DEF IInv, VerifierInv, IndexInv
    <3> QED BY <2>8, <3>1 DEF InIndex, Entries3
  <2>11. ASSUME NEW f \in InCommit
         PROVE  LET here == {r \in past.since : f[1] \in DOMAIN r.work}
                IN  /\ \E r \in here : RightKind(r.work[f[1]], f[2], ModesMatter(r.config))
                    /\ \E r \in here : Hashed(r.work[f[1]], f[2]) = <<Named[f[3]][2]>>
                    /\ \E r \in past.walk : f[1] \in DOMAIN r.work
    <3>1. PICK i \in DOMAIN v.index : f = <<v.index[i].path, v.index[i].mode, v.index[i].oid>>
      BY <2>8 DEF Entries3
    <3>2. f[1] = v.index[i].path /\ f[2] = v.index[i].mode /\ f[3] = v.index[i].oid
      BY <3>1
    <3>3. i \in 1..(v.at - 1)
      <4>1. Len(v.index) \in Nat /\ DOMAIN v.index = 1..Len(v.index) /\ v.at = Len(v.index) + 1
        BY <1>1, <1>2, Listed1 DEF ShapeInv
      <4> QED BY <4>1
    <3>4. KindSeen(v.index[i]) /\ ContentSeen(v.index[i])
      BY <1>1, <1>2, <3>3 DEF WorkInv
    <3>5. \E r \in past.since : f[1] \in DOMAIN r.work /\ RightKind(r.work[f[1]], f[2], ModesMatter(r.config))
      BY <3>2, <3>4 DEF KindSeen
    <3>6. \E r \in past.since : f[1] \in DOMAIN r.work /\ Hashed(r.work[f[1]], f[2]) = <<Named[f[3]][2]>>
      BY <3>2, <3>4 DEF ContentSeen
    <3>7. \E r \in past.walk : f[1] \in DOMAIN r.work
      BY <1>1, <1>2, <2>7, <2>9 DEF WalkInv
    <3> QED BY <3>5, <3>6, <3>7
  <2>12. ASSUME NEW p \in (UNION {DOMAIN r.work : r \in past.walk}) \ {f[1] : f \in InCommit}
         PROVE  \E r \in past.walk : p \notin DOMAIN r.work
    <3>1. p \notin Tracked
      BY <2>9
    <3>2. (\A r \in past.walk : p \in DOMAIN r.work) =>
            p \in v.found \/ \E entry \in v.pending : Covers(entry, p)
      BY <1>1, <1>2 DEF WalkInv
    <3> QED BY <1>1, <2>7, <3>1, <3>2
  <2>13. AcceptedWasThere'
    <3>1. ReachesApproved({r.head : r \in past.since}, UNION {References(r) : r \in past.since})
      BY <2>5 DEF SeenHeads, SeenReferences
    <3>2. AcceptedWasThere' <=>
            (/\ ReachesApproved({r.head : r \in past.since}, UNION {References(r) : r \in past.since})
             /\ \E r \in past.since : InIndex(r.index) = InCommit
             /\ \A f \in InCommit :
                  LET here == {r \in past.since : f[1] \in DOMAIN r.work}
                  IN  /\ \E r \in here : RightKind(r.work[f[1]], f[2], ModesMatter(r.config))
                      /\ \E r \in here : Hashed(r.work[f[1]], f[2]) = <<Named[f[3]][2]>>
                      /\ \E r \in past.walk : f[1] \in DOMAIN r.work
             /\ \A p \in (UNION {DOMAIN r.work : r \in past.walk}) \ {f[1] : f \in InCommit} :
                  \E r \in past.walk : p \notin DOMAIN r.work)
      BY <2>2, <2>4 DEF AcceptedWasThere, ReachesApproved
    <3> QED BY <2>10, <2>11, <2>12, <3>1, <3>2
  <2> QED BY <2>2, <2>3, <2>6, <2>13 DEF VerifierInv, IndexInv, AskInv, TreeInv, WorkInv, WalkInv,
             Fetching, Working
<1>4. CASE ~AllMet
  BY <1>4, Rejects DEF EndWalk
<1> QED BY <1>3, <1>4

-----------------------------------------------------------------------------
(* Edits keep every repository decodable, its configuration and its layout. *)

Fields == {"safe", "linked", "head", "refs", "packed", "index", "loose", "packs", "spare", "config",
           "work", "damage", "edited"}
IsRecord(r) ==
    r = [safe |-> r.safe, linked |-> r.linked, head |-> r.head, refs |-> r.refs,
         packed |-> r.packed, index |-> r.index, loose |-> r.loose, packs |-> r.packs,
         spare |-> r.spare, config |-> r.config, work |-> r.work, damage |-> r.damage,
         edited |-> r.edited]

\* The fields of a repository.
LEMMA AllFields ==
    ASSUME NEW r
    PROVE  IsRecord(r) <=> r = [x \in Fields |-> r[x]]
BY DEF IsRecord, Fields

\* What Repository says, field by field.
LEMMA DecodedFields ==
    ASSUME NEW r
    PROVE  Repository(r) <=>
            /\ IsRecord(r) /\ r["refs"] = [git |-> r["refs"].git, common |-> r["refs"].common]
            /\ IsIndex(r["index"]) /\ Worktree(r["work"])
            /\ \A id \in DOMAIN r["loose"] : r["loose"][id].size \in Nat
BY DEF Repository, IsRecord

\* A file that is written where none is above or below keeps a worktree.
LEMMA WorkWritten ==
    ASSUME NEW work, Worktree(work), NEW p \in Paths, NEW e,
           e.behind = <<>> \/ e.behind = <<e.behind[1]>>,
           \A path \in DOMAIN work : ~IsStrictPrefix(path, p) /\ ~IsStrictPrefix(p, path)
    PROVE  Worktree(With(work, p, e))
<1> DEFINE new == With(work, p, e)
<1>1. DOMAIN new = DOMAIN work \union {p} /\ new[p] = e /\ \A q \in DOMAIN work \ {p} : new[q] = work[q]
  BY DEF With
<1> HIDE DEF new
<1>2. DOMAIN new \subseteq Paths
  BY <1>1 DEF Worktree
<1>3. ~IsStrictPrefix(p, p)
  BY DEF IsStrictPrefix
<1>4. \A path, other \in DOMAIN new : ~IsStrictPrefix(path, other)
  BY <1>1, <1>3 DEF Worktree
<1>5. \A path \in DOMAIN new : new[path].behind = <<>> \/ new[path].behind = <<new[path].behind[1]>>
  BY <1>1 DEF Worktree
<1> QED BY <1>2, <1>4, <1>5 DEF Worktree, new

\* A file that is removed keeps a worktree.
LEMMA WorkRemoved ==
    ASSUME NEW work, Worktree(work), NEW p
    PROVE  Worktree(Without(work, p))
<1> DEFINE new == Without(work, p)
<1>1. DOMAIN new = DOMAIN work \ {p} /\ \A q \in DOMAIN new : new[q] = work[q]
  BY DEF Without
<1> HIDE DEF new
<1> QED BY <1>1 DEF Worktree, new

Kept == Repository(repo') /\ repo'.config = repo.config /\ repo'.linked = repo.linked

\* An edit of one field keeps the others.
LEMMA FieldKept ==
    ASSUME Repository(repo), NEW x \in Fields \ {"config", "linked"}, NEW y, repo' = [repo EXCEPT ![x] = y],
           x = "refs" => y = [git |-> y.git, common |-> y.common],
           x = "index" => IsIndex(y), x = "work" => Worktree(y),
           x = "loose" => \A id \in DOMAIN y : y[id].size \in Nat
    PROVE  Kept
<1>1. PICK r : r = repo'
  OBVIOUS
<1>2. IsRecord(repo) /\ IsRecord(r) /\ r[x] = y /\ \A z \in Fields \ {x} : r[z] = repo[z]
  <2>1. IsRecord(repo)
    BY DecodedFields
  <2>2. repo = [z \in Fields |-> repo[z]]
    BY <2>1, AllFields
  <2>3. r = [z \in Fields |-> IF z = x THEN y ELSE repo[z]]
    BY <1>1, <2>2
  <2>4. r = [z \in Fields |-> r[z]]
    BY <2>3
  <2>5. r[x] = y /\ \A z \in Fields \ {x} : r[z] = repo[z]
    BY <2>3
  <2> QED BY <2>1, <2>4, <2>5, AllFields
<1>3. "config" \in Fields \ {x} /\ "linked" \in Fields \ {x}
  BY DEF Fields
<1>4. r.config = repo.config /\ r.linked = repo.linked
  BY <1>2, <1>3
<1>5. {"refs", "index", "work", "loose"} \subseteq Fields
  BY DEF Fields
<1>6. r["refs"] = [git |-> r["refs"].git, common |-> r["refs"].common]
  <2>1. CASE x = "refs"
    BY <1>2, <2>1
  <2>2. CASE x # "refs"
    BY <1>2, <1>5, <2>2, DecodedFields
  <2> QED BY <2>1, <2>2
<1>7. IsIndex(r["index"])
  <2>1. CASE x = "index"
    BY <1>2, <2>1
  <2>2. CASE x # "index"
    BY <1>2, <1>5, <2>2, DecodedFields
  <2> QED BY <2>1, <2>2
<1>8. Worktree(r["work"])
  <2>1. CASE x = "work"
    BY <1>2, <2>1
  <2>2. CASE x # "work"
    BY <1>2, <1>5, <2>2, DecodedFields
  <2> QED BY <2>1, <2>2
<1>9. \A id \in DOMAIN r["loose"] : r["loose"][id].size \in Nat
  <2>1. CASE x = "loose"
    BY <1>2, <2>1
  <2>2. CASE x # "loose"
    BY <1>2, <1>5, <2>2, DecodedFields
  <2> QED BY <2>1, <2>2
<1>10. Repository(r)
  BY <1>2, <1>6, <1>7, <1>8, <1>9, DecodedFields
<1> QED BY <1>1, <1>4, <1>10 DEF Kept

\* An edit of the branches.
LEMMA CommonKept ==
    ASSUME Repository(repo), NEW y, repo' = [repo EXCEPT !.refs.common = y]
    PROVE  Kept
<1> DEFINE refs == [git |-> repo.refs.git, common |-> y]
<1>1. repo.refs = [git |-> repo.refs.git, common |-> repo.refs.common]
  BY DEF Repository
<1>2. [repo.refs EXCEPT !.common = y] = refs
  BY <1>1
<1>3. repo' = [repo EXCEPT !["refs"] = [repo.refs EXCEPT !.common = y]]
  OBVIOUS
<1>4. repo' = [repo EXCEPT !["refs"] = refs]
  BY <1>2, <1>3
<1>5. refs = [git |-> refs.git, common |-> refs.common]
  OBVIOUS
<1>6. "refs" \in Fields \ {"config", "linked"}
  BY DEF Fields
<1> HIDE DEF refs
<1> QED BY <1>4, <1>5, <1>6, FieldKept

\* Each edit of a user.
LEMMA UserEditKept ==
    ASSUME Repository(repo), UserEdit
    PROVE  Kept
<1>0. {"work", "head", "index"} \subseteq Fields \ {"config", "linked"}
  BY DEF Fields
<1>1. ASSUME NEW w \in Writes,
             \A path \in DOMAIN repo.work : ~IsStrictPrefix(path, w[1]) /\ ~IsStrictPrefix(w[1], path),
             repo' = [repo EXCEPT !.work = With(@, w[1], w[2])]
      PROVE  Kept
  <2>1. w[1] \in Paths /\ (w[2].behind = <<>> \/ w[2].behind = <<w[2].behind[1]>>)
    BY RepositoriesAssumption
  <2>2. Worktree(repo.work)
    BY DEF Repository
  <2>3. Worktree(With(repo.work, w[1], w[2]))
    BY <1>1, <2>1, <2>2, WorkWritten
  <2>4. repo' = [repo EXCEPT !["work"] = With(repo.work, w[1], w[2])]
    BY <1>1
  <2> QED BY <1>0, <2>3, <2>4, FieldKept
<1>2. ASSUME NEW path \in Removals \intersect DOMAIN repo.work,
             repo' = [repo EXCEPT !.work = Without(@, path)]
      PROVE  Kept
  <2>1. Worktree(Without(repo.work, path))
    BY WorkRemoved DEF Repository
  <2>2. repo' = [repo EXCEPT !["work"] = Without(repo.work, path)]
    BY <1>2
  <2> QED BY <1>0, <2>1, <2>2, FieldKept
<1>3. ASSUME NEW head \in Heads, repo' = [repo EXCEPT !.head = head]
      PROVE  Kept
  <2>1. repo' = [repo EXCEPT !["head"] = head]
    BY <1>3
  <2> QED BY <1>0, <2>1, FieldKept
<1>4. ASSUME NEW b \in Branches, repo' = [repo EXCEPT !.refs.common = With(@, b[1], b[2])]
      PROVE  Kept
  <2>1. repo' = [repo EXCEPT !.refs.common = With(repo.refs.common, b[1], b[2])]
    BY <1>4
  <2> QED BY <2>1, CommonKept
<1>5. ASSUME NEW index \in Indexes, repo' = [repo EXCEPT !.index = index]
      PROVE  Kept
  <2>1. repo' = [repo EXCEPT !["index"] = index]
    BY <1>5
  <2>2. IsIndex(index)
    BY RepositoriesAssumption
  <2> QED BY <1>0, <2>1, <2>2, FieldKept
<1> QED BY <1>1, <1>2, <1>3, <1>4, <1>5 DEF UserEdit

\* Each step of Git's maintenance.
LEMMA MaintenanceKept ==
    ASSUME Repository(repo), Maintenance
    PROVE  Kept
<1>0. {"packed", "loose", "packs"} \subseteq Fields \ {"config", "linked"}
  BY DEF Fields
<1>1. ASSUME NEW packed, repo' = [repo EXCEPT !.packed = packed]
      PROVE  Kept
  <2>1. repo' = [repo EXCEPT !["packed"] = packed]
    BY <1>1
  <2> QED BY <1>0, <2>1, FieldKept
<1>2. ASSUME NEW name, repo' = [repo EXCEPT !.refs.common = Without(@, name)]
      PROVE  Kept
  <2>1. repo' = [repo EXCEPT !.refs.common = Without(repo.refs.common, name)]
    BY <1>2
  <2> QED BY <2>1, CommonKept
<1>3. ASSUME repo' = [repo EXCEPT !.packs = Merged(@, repo.spare), !.spare = <<>>]
      PROVE  Kept
  <2>1. PICK r : r = repo'
    OBVIOUS
  <2>2. repo = [w \in Fields |-> repo[w]]
    BY AllFields, DecodedFields
  <2>3. r = [w \in Fields |-> IF w = "packs" THEN Merged(repo.packs, repo.spare)
                               ELSE IF w = "spare" THEN <<>> ELSE repo[w]]
    BY <1>3, <2>1, <2>2
  <2>4. IsRecord(r) /\ \A w \in Fields \ {"packs", "spare"} : r[w] = repo[w]
    <3>1. r = [w \in Fields |-> r[w]]
      BY <2>3
    <3>2. \A w \in Fields \ {"packs", "spare"} : r[w] = repo[w]
      BY <2>3
    <3> QED BY <3>1, <3>2, AllFields
  <2>5. {"refs", "index", "work", "loose", "config", "linked"} \subseteq Fields \ {"packs", "spare"}
    BY DEF Fields
  <2>6. Repository(r)
    BY <2>4, <2>5, DecodedFields
  <2>7. r.config = repo.config /\ r.linked = repo.linked
    BY <2>4, <2>5
  <2> QED BY <2>1, <2>6, <2>7 DEF Kept
<1>4. ASSUME NEW id \in DOMAIN repo.loose, repo' = [repo EXCEPT !.loose = Without(@, id)]
      PROVE  Kept
  <2> DEFINE loose == Without(repo.loose, id)
  <2>1. repo' = [repo EXCEPT !["loose"] = loose]
    BY <1>4
  <2>2. \A other \in DOMAIN loose : other \in DOMAIN repo.loose /\ loose[other] = repo.loose[other]
    BY DEF Without
  <2>3. \A other \in DOMAIN loose : loose[other].size \in Nat
    BY <2>2 DEF Repository
  <2> HIDE DEF loose
  <2> QED BY <1>0, <2>1, <2>3, FieldKept
<1>5. \/ \E name : \/ \E packed : repo' = [repo EXCEPT !.packed = packed]
                   \/ repo' = [repo EXCEPT !.refs.common = Without(@, name)]
      \/ repo' = [repo EXCEPT !.packs = Merged(@, repo.spare), !.spare = <<>>]
      \/ \E id \in DOMAIN repo.loose : repo' = [repo EXCEPT !.loose = Without(@, id)]
      \/ \E packs : repo' = [repo EXCEPT !.packs = packs]
  BY DEF Maintenance
<1>6. ASSUME NEW packs, repo' = [repo EXCEPT !.packs = packs]
      PROVE  Kept
  <2>1. repo' = [repo EXCEPT !["packs"] = packs]
    BY <1>6
  <2> QED BY <1>0, <2>1, FieldKept
<1> QED BY <1>1, <1>2, <1>3, <1>4, <1>5, <1>6

\* An edit adds to what was seen; the verifier stays where it is, or rejects.
LEMMA EditKeeps ==
    ASSUME IInv, Edit
    PROVE  IInv'
<1>1. /\ UserEdit \/ Maintenance
      /\ expected' = expected /\ edits' = edits + 1 /\ edits < MaxEdits
  BY DEF Edit
<1>2. v' = v \/ Reject
  BY DEF Edit
<1>3. v.step \notin {"accepted", "rejected"}
  BY DEF Edit, Answered
<1>4. Repository(repo') /\ repo'.config = repo.config /\ repo'.linked = repo.linked
  BY <1>1, UserEditKept, MaintenanceKept DEF IInv, WorldInv, Kept
<1>5. /\ DOMAIN past' = {"since", "walk"} /\ past'.since = past.since \union {repo'}
      /\ past'.walk = IF v.step = "walk" THEN past.walk \union {repo'} ELSE {}
  BY DEF Edit
<1>6. WorldInv'
  <2>1. touched' \in BOOLEAN
    <3>1. touched' = TRUE \/ touched' = touched
      BY DEF Edit
    <3>2. touched \in BOOLEAN
      BY DEF IInv, WorldInv
    <3> QED BY <3>1, <3>2
  <2>2. edits' \in 0..MaxEdits
    BY <1>1, Bounds DEF IInv, WorldInv
  <2>3. \A r \in past'.since : Repository(r) /\ r.config = repo'.config /\ r.linked = repo'.linked
    BY <1>4, <1>5 DEF IInv, WorldInv
  <2>4. repo' \in past'.since /\ past'.walk \subseteq past'.since
    BY <1>5 DEF IInv, WorldInv
  <2>5. v'.step = "walk" => repo' \in past'.walk
    <3>1. v'.step = "walk" => v' = v
      BY <1>2, StartsIdle DEF Reject
    <3> QED BY <1>5, <3>1
  <2>6. swept' \in BOOLEAN
    <3>1. swept' = (swept \/ GoesBy \intersect (DOMAIN repo.packs \ DOMAIN repo'.packs) # {})
      BY DEF Edit
    <3> QED BY <3>1
  <2> QED BY <1>5, <2>1, <2>2, <2>3, <2>4, <2>5, <2>6 DEF WorldInv
<1>7. CASE Reject
  BY <1>6, <1>7, Rejects DEF IInv
<1>8. CASE v' = v
  <2>1. SeenHeads \subseteq SeenHeads' /\ SeenReferences \subseteq SeenReferences'
    BY <1>5 DEF SeenHeads, SeenReferences
  <2>2. InCommit' = InCommit /\ Asked' = Asked /\ LastFrame' = LastFrame /\ Tracked' = Tracked
    BY <1>1, <1>8 DEF InCommit, Asked, LastFrame, Tracked
  <2>3. \A entry : (KindSeen(entry) => KindSeen(entry)') /\ (ContentSeen(entry) => ContentSeen(entry)')
    BY <1>5 DEF KindSeen, ContentSeen
  <2>4. ShapeInv'
    BY <1>8 DEF IInv, VerifierInv, ShapeInv
  <2>5. HeadInv'
    <3>1. Places(repo') = Places(repo)
      BY <1>4 DEF Places
    <3>2. \A n, value :
            Leads(SeenHeads, SeenReferences, n, value) => Leads(SeenHeads', SeenReferences', n, value)
      BY <2>1, LeadsStill
    <3>3. v'.step = "reference" =>
            /\ v'.place \in DOMAIN Places(repo') /\ v'.hops < MaxReferences
            /\ \E value : /\ Leads(SeenHeads', SeenReferences', v'.hops, value)
                          /\ value[1] = "ref" /\ value[2] = v'.name
      BY <1>8, <3>1, <3>2 DEF IInv, VerifierInv, HeadInv
    <3>4. ReachesApproved(SeenHeads, SeenReferences) => ReachesApproved(SeenHeads, SeenReferences)'
      BY <1>1, <3>2 DEF ReachesApproved
    <3>5. v'.step \notin {"head", "reference", "rejected"} => ReachesApproved(SeenHeads, SeenReferences)'
      BY <1>8, <3>4 DEF IInv, VerifierInv, HeadInv
    <3> QED BY <3>3, <3>5 DEF HeadInv
  <2>6. IndexInv'
    BY <1>5, <1>8 DEF IInv, VerifierInv, IndexInv
  <2>7. AskInv'
    BY <1>8, <2>2 DEF IInv, VerifierInv, AskInv
  <2>8. TreeInv'
    BY <1>8, <2>2 DEF IInv, VerifierInv, TreeInv
  <2>9. WorkInv'
    <3>1. v'.step \in Working =>
            /\ Entries3(v'.index) = InCommit'
            /\ \A i \in DOMAIN v'.index : v'.index[i].mode \in FileModes
            /\ v'.modes = ModesMatter(repo'.config)
      BY <1>4, <1>8, <2>2 DEF IInv, VerifierInv, WorkInv
    <3>2. v'.step \in Working => \A i \in 1..(v'.at - 1) : KindSeen(v.index[i])' /\ ContentSeen(v.index[i])'
      BY <1>8, <2>3 DEF IInv, VerifierInv, WorkInv
    <3>3. v'.step = "hash" => KindSeen(v.index[v.at])'
      BY <1>8, <2>3 DEF IInv, VerifierInv, WorkInv
    <3> QED BY <3>1, <3>2, <3>3 DEF WorkInv
  <2>10. WalkInv'
    <3>1. CASE v.step = "walk"
      <4>1. past.walk \subseteq past'.walk
        BY <1>5, <3>1
      <4>2. WalkInv
        BY DEF IInv, VerifierInv
      <4>3. v'.found \subseteq Tracked' /\ \A path \in v'.found : \E r \in past'.walk : path \in DOMAIN r.work
        BY <1>8, <2>2, <3>1, <4>1, <4>2 DEF WalkInv
      <4>4. \A entry \in v'.pending : entry.path \in Paths
        BY <1>8, <3>1, <4>2 DEF WalkInv
      <4>5. \A path : (\A r \in past'.walk : path \in DOMAIN r.work) =>
                        path \in v'.found \/ \E entry \in v'.pending : Covers(entry, path)
        BY <1>8, <3>1, <4>1, <4>2 DEF WalkInv
      <4> QED BY <4>3, <4>4, <4>5 DEF WalkInv, Covers
    <3>2. CASE v.step # "walk"
      BY <1>8, <3>2 DEF WalkInv
    <3> QED BY <3>1, <3>2
  <2>11. AcceptedWasThere'
    BY <1>3, <1>8 DEF AcceptedWasThere
  <2> QED BY <1>6, <2>4, <2>5, <2>6, <2>7, <2>8, <2>9, <2>10, <2>11 DEF IInv, VerifierInv
<1> QED BY <1>2, <1>7, <1>8

-----------------------------------------------------------------------------
(* The theorems.                                                           *)

\* The invariant is inductive.
LEMMA StepHolds == IInv /\ [Next]_vars => IInv'
<1> SUFFICES ASSUME IInv, [Next]_vars PROVE IInv'
  OBVIOUS
<1>1. CASE VerifierStep
  <2>1. WorldInv'
    BY <1>1, StepsOn DEF IInv
  <2>2. VerifierInv'
    <3>1. CASE ReadHead
      BY <1>1, <3>1, ReadHeadKeeps
    <3>2. CASE ReadReference
      BY <1>1, <3>2, ReadReferenceKeeps
    <3>3. CASE ReadIndex
      BY <1>1, <3>3, ReadIndexKeeps
    <3>4. CASE FindLoose
      BY <1>1, <3>4, FindLooseKeeps
    <3>5. CASE ListPacks
      BY <1>1, <3>5, ListPacksKeeps
    <3>15. CASE SearchPack
      BY <1>1, <3>15, SearchPackKeeps
    <3>6. CASE ReadEntry
      BY <1>1, <3>6, ReadEntryKeeps
    <3>7. CASE Unwind
      BY <1>1, <3>7, UnwindKeeps
    <3>8. CASE Deliver
      BY <1>1, <3>8, DeliverKeeps
    <3>9. CASE Compare
      BY <1>1, <3>9, CompareKeeps
    <3>10. CASE Stat
      BY <1>1, <3>10, StatKeeps
    <3>11. CASE Digest
      BY <1>1, <3>11, DigestKeeps
    <3>12. CASE StartWalk
      BY <1>1, <3>12, StartWalkKeeps
    <3>13. CASE Visit
      BY <1>1, <3>13, VisitKeeps
    <3>14. CASE EndWalk
      BY <1>1, <3>14, EndWalkKeeps
    <3> QED BY <1>1, <3>1, <3>2, <3>3, <3>4, <3>5, <3>6, <3>7, <3>8, <3>9, <3>10, <3>11, <3>12, <3>13, <3>14,
            <3>15 DEF VerifierStep
  <2> QED BY <2>1, <2>2 DEF IInv
<1>2. CASE Edit
  BY <1>2, EditKeeps
<1>3. CASE UNCHANGED vars
  <2>1. /\ expected' = expected /\ repo' = repo /\ v' = v /\ past' = past
        /\ touched' = touched /\ edits' = edits /\ swept' = swept
    BY <1>3 DEF vars
  <2>2. WorldInv' /\ ShapeInv'
    BY <2>1 DEF IInv, VerifierInv, WorldInv, ShapeInv
  <2>3. HeadInv'
    BY <2>1 DEF IInv, VerifierInv, HeadInv, SeenHeads, SeenReferences, ReachesApproved
  <2>4. IndexInv' /\ AskInv'
    BY <2>1 DEF IInv, VerifierInv, IndexInv, AskInv, Asked, LastFrame
  <2>5. TreeInv'
    BY <2>1 DEF IInv, VerifierInv, TreeInv, InCommit
  <2>6. WorkInv'
    BY <2>1 DEF IInv, VerifierInv, WorkInv, InCommit, KindSeen, ContentSeen
  <2>7. WalkInv'
    BY <2>1 DEF IInv, VerifierInv, WalkInv, Tracked
  <2>8. AcceptedWasThere'
    BY <2>1 DEF IInv, VerifierInv, AcceptedWasThere, ReachesApproved, InCommit
  <2> QED BY <2>2, <2>3, <2>4, <2>5, <2>6, <2>7, <2>8 DEF IInv, VerifierInv
<1> QED BY <1>1, <1>2, <1>3 DEF Next

\* The invariant always holds.
LEMMA InvariantHolds == Spec => []IInv
<1> QED BY InitHolds, StepHolds, PTL DEF Spec

\* The invariant bounds every field.
LEMMA InvariantTypes == IInv => TypeOK
<1> SUFFICES ASSUME IInv PROVE TypeOK
  OBVIOUS
<1>1. ShapeInv
  BY DEF IInv, VerifierInv
<1>2. v.at \in 0..(Len(v.index) + 1)
  <2>1. Len(v.index) \in Nat
    BY <1>1, Listed1 DEF ShapeInv
  <2> QED BY <1>1, <2>1 DEF ShapeInv, Working
<1>3. /\ v.budget \in 0..TotalBudget /\ v.depth \in 0..MaxDepth /\ v.hops \in 0..MaxReferences
      /\ Len(v.frames) <= 2 * MaxDepth
  BY <1>1 DEF ShapeInv
<1>4. touched \in BOOLEAN /\ swept \in BOOLEAN /\ edits \in 0..MaxEdits /\ repo \in past.since
  BY DEF IInv, WorldInv
<1> QED BY <1>2, <1>3, <1>4 DEF TypeOK

\* However objects are stored, nothing that is read takes the budget of the verification
\* below nothing, and the waiting look-ups and deltas are bounded by the depth.
THEOREM TypeCorrect == Spec => []TypeOK
<1> QED BY InvariantHolds, InvariantTypes, PTL

\* Whatever a user edits and Git repacks while Verify runs, an acceptance rests on facts
\* that were true while it ran: the references from HEAD to the approved commit, the index,
\* and each file's kind, content and presence; and on no file staying that is not tracked.
THEOREM AcceptedWasThereHolds == Spec => []AcceptedWasThere
<1>1. IInv => AcceptedWasThere
  BY DEF IInv, VerifierInv
<1> QED BY <1>1, InvariantHolds, PTL
=============================================================================
