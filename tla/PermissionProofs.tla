--------------------------- MODULE PermissionProofs ---------------------------
(***************************************************************************)
(* Proofs about PermissionChecks: its index is exact, its order of use has *)
(* each entry once, a stale answer has a cause, and no cycle of parents is *)
(* closed.                                                                 *)
(***************************************************************************)
EXTENDS PermissionChecks, WellFoundedInduction, SequenceTheorems, FiniteSetTheorems, TLAPS

-----------------------------------------------------------------------------
(* Least elements, in place of induction                                   *)

Less == {pair \in Nat \X Nat : pair[1] < pair[2]}

\* The order of the numbers is well-founded.
LEMMA LessWellFounded == IsWellFoundedOn(Less, Nat)
  BY NatLessThanWellFounded DEF OpToRel, Less

\* A set of numbers that is not empty has a least one.
LEMMA Least ==
    ASSUME NEW T, T \subseteq Nat, T # {}
    PROVE  \E x \in T : \A y \in T : x <= y
<1>1. \E x \in T : \A y \in T : ~ (<<y, x>> \in Less)
  BY LessWellFounded, WFMin, Zenon
<1>2. ASSUME NEW x \in Nat, NEW y \in Nat, <<y, x>> \notin Less
      PROVE  x <= y
  BY <1>2 DEF Less
<1> QED  BY <1>1, <1>2

\* Likewise a greatest one, below a bound.
LEMMA Greatest ==
    ASSUME NEW b \in Nat, NEW T, T \subseteq 0 .. b, T # {}
    PROVE  \E x \in T : \A y \in T : y <= x
<1> DEFINE Rest == {b - x : x \in T}
<1>1. Rest \subseteq Nat /\ Rest # {}
  <2>1. \A x \in T : x \in Nat /\ x <= b
    OBVIOUS
  <2>2. PICK x \in T : TRUE
    OBVIOUS
  <2>3. b - x \in Rest
    OBVIOUS
  <2> QED  BY <2>1, <2>3
<1>2. PICK z \in Rest : \A y \in Rest : z <= y
  BY <1>1, Least, Zenon
<1>3. PICK x \in T : z = b - x
  BY <1>2
<1>4. ASSUME NEW y \in T PROVE y <= x
  <2>1. b - y \in Rest
    OBVIOUS
  <2>2. b - x <= b - y
    BY <1>2, <1>3, <2>1
  <2> QED  BY <2>2
<1> QED  BY <1>4

-----------------------------------------------------------------------------
(* Walks along the parents, of any graph                                   *)

Path(par, g, n, S) ==
    {s \in [1 .. n -> Groups] :
        /\ s[1] = g
        /\ \A i \in 1 .. n - 1 : s[i + 1] = par[s[i]] /\ s[i + 1] \in S}

Chain(par, S, g) ==
    LET lengths == {n \in 1 .. MaxDepth + 1 : Path(par, g, n, S) # {}}
        longest == CHOOSE n \in lengths : \A m \in lengths : m <= n
    IN  IF g \in S THEN CHOOSE s \in Path(par, g, longest, S) : TRUE ELSE <<>>

\* The chain of a live group is the longest walk from it.
LEMMA ChainLongest ==
    ASSUME NEW par, NEW S, NEW g \in Groups, g \in S
    PROVE  \E n \in 1 .. MaxDepth + 1 :
              /\ Chain(par, S, g) \in Path(par, g, n, S)
              /\ \A m \in 1 .. MaxDepth + 1 : Path(par, g, m, S) # {} => m <= n
<1> DEFINE lengths == {n \in 1 .. MaxDepth + 1 : Path(par, g, n, S) # {}}
           longest == CHOOSE n \in lengths : \A m \in lengths : m <= n
<1>0. MaxDepth \in Nat \ {0}
  BY ChecksAssumption
<1>1. 1 \in lengths
  <2>1. [i \in 1 .. 1 |-> g] \in Path(par, g, 1, S)
    BY DEF Path
  <2> QED  BY <2>1, <1>0
<1>2. lengths \subseteq 0 .. MaxDepth + 1 /\ MaxDepth + 1 \in Nat
  BY <1>0
<1>3. \E n \in lengths : \A m \in lengths : m <= n
  BY <1>1, <1>2, Greatest, Zenon
<1> HIDE DEF lengths
<1>4. longest \in lengths /\ \A m \in lengths : m <= longest
  BY <1>3
<1>5. Chain(par, S, g) = CHOOSE s \in Path(par, g, longest, S) : TRUE
  BY DEF Chain, lengths
<1> HIDE DEF longest
<1>6. longest \in 1 .. MaxDepth + 1 /\ Path(par, g, longest, S) # {}
  BY <1>4 DEF lengths
<1>7. Chain(par, S, g) \in Path(par, g, longest, S)
  BY <1>5, <1>6
<1>8. ASSUME NEW m \in 1 .. MaxDepth + 1, Path(par, g, m, S) # {} PROVE m <= longest
  BY <1>4, <1>8 DEF lengths
<1> QED  BY <1>6, <1>7, <1>8

\* There is one walk of each length.
LEMMA WalkUnique ==
    ASSUME NEW par, NEW S, NEW g, NEW n \in Nat, NEW s \in Path(par, g, n, S),
           NEW t \in Path(par, g, n, S)
    PROVE  s = t
<1> DEFINE T == {i \in 1 .. n : s[i] # t[i]}
<1>0. s \in [1 .. n -> Groups] /\ t \in [1 .. n -> Groups]
  BY DEF Path
<1> SUFFICES ASSUME T # {} PROVE FALSE
  BY <1>0
<1>1. T \subseteq Nat
  OBVIOUS
<1>2. PICK i \in T : \A j \in T : i <= j
  BY <1>1, Least, Zenon
<1>3. s[1] = g /\ t[1] = g
  BY DEF Path
<1>4. i \in 2 .. n
  BY <1>2, <1>3
<1>5. s[i - 1] = t[i - 1]
  BY <1>2, <1>4
<1>6. i - 1 \in 1 .. n - 1 /\ (i - 1) + 1 = i
  BY <1>4
<1>7. s[i] = par[s[i - 1]] /\ t[i] = par[t[i - 1]]
  BY <1>6 DEF Path
<1> QED  BY <1>2, <1>5, <1>7

\* A beginning of a walk is a walk, of any graph with the same pointers on it.
LEMMA Beginning ==
    ASSUME NEW par, NEW other, NEW S, NEW g, NEW n \in Nat, NEW s \in Path(par, g, n, S),
           NEW k \in 1 .. n, \A i \in 1 .. k - 1 : par[s[i]] = other[s[i]]
    PROVE  [i \in 1 .. k |-> s[i]] \in Path(other, g, k, S)
<1> DEFINE t == [i \in 1 .. k |-> s[i]]
<1>1. t \in [1 .. k -> Groups]
  BY DEF Path
<1>2. t[1] = g
  BY DEF Path
<1>3. ASSUME NEW i \in 1 .. k - 1 PROVE t[i + 1] = other[t[i]] /\ t[i + 1] \in S
  <2>1. i \in 1 .. n - 1 /\ i \in 1 .. k /\ i + 1 \in 1 .. k
    OBVIOUS
  <2>2. s[i + 1] = par[s[i]] /\ s[i + 1] \in S
    BY <2>1 DEF Path
  <2> QED  BY <2>1, <2>2
<1> QED  BY <1>1, <1>2, <1>3 DEF Path

\* A chain keeps its first n groups when the parents of these stay, and all of
\* itself when n is its length.
LEMMA ChainKept ==
    ASSUME NEW par, NEW other, NEW S, NEW g \in Groups, g \in S,
           NEW n \in 1 .. Len(Chain(par, S, g)),
           \A i \in 1 .. n : par[Chain(par, S, g)[i]] = other[Chain(par, S, g)[i]]
    PROVE  /\ n <= Len(Chain(other, S, g))
           /\ \A i \in 1 .. n : Chain(other, S, g)[i] = Chain(par, S, g)[i]
           /\ n = Len(Chain(par, S, g)) => Len(Chain(other, S, g)) = n
<1> DEFINE s == Chain(par, S, g)
           t == Chain(other, S, g)
<1>1. PICK a \in 1 .. MaxDepth + 1 :
         /\ s \in Path(par, g, a, S)
         /\ \A m \in 1 .. MaxDepth + 1 : Path(par, g, m, S) # {} => m <= a
  BY ChainLongest
<1>2. PICK b \in 1 .. MaxDepth + 1 :
         /\ t \in Path(other, g, b, S)
         /\ \A m \in 1 .. MaxDepth + 1 : Path(other, g, m, S) # {} => m <= b
  BY ChainLongest
<1>0. MaxDepth \in Nat
  BY ChecksAssumption
<1>3. a \in Nat /\ b \in Nat /\ Len(s) = a /\ Len(t) = b
  BY <1>0, <1>1, <1>2 DEF Path
<1> HIDE DEF s, t
<1>4. n \in 1 .. a /\ \A i \in 1 .. n : par[s[i]] = other[s[i]]
  BY <1>3 DEF s
<1>5. n <= b
  <2>1. [i \in 1 .. n |-> s[i]] \in Path(other, g, n, S)
    BY <1>1, <1>3, <1>4, Beginning
  <2>2. n \in 1 .. MaxDepth + 1
    BY <1>0, <1>1, <1>4
  <2> QED  BY <1>2, <2>1, <2>2
<1>6. \A i \in 1 .. n : s[i] = t[i]
  <2>1. [i \in 1 .. n |-> s[i]] \in Path(other, g, n, S)
    BY <1>1, <1>3, <1>4, Beginning
  <2>2. [i \in 1 .. n |-> t[i]] \in Path(other, g, n, S)
    BY <1>2, <1>3, <1>4, <1>5, Beginning
  <2>3. [i \in 1 .. n |-> s[i]] = [i \in 1 .. n |-> t[i]]
    BY <1>4, <2>1, <2>2, WalkUnique
  <2> QED  BY <2>3
<1>7. ASSUME n = a, b # n PROVE FALSE
  <2>1. n + 1 \in 1 .. b /\ n + 1 \in 1 .. MaxDepth + 1
    BY <1>0, <1>2, <1>4, <1>5, <1>7
  <2>2. \A i \in 1 .. (n + 1) - 1 : other[t[i]] = par[t[i]]
    BY <1>4, <1>6
  <2>3. [i \in 1 .. n + 1 |-> t[i]] \in Path(par, g, n + 1, S)
    BY <1>2, <1>3, <2>1, <2>2, Beginning
  <2> QED  BY <1>1, <1>3, <1>7, <2>1, <2>3
<1> QED  BY <1>3, <1>5, <1>6, <1>7 DEF s, t

-----------------------------------------------------------------------------
(* The cache: its operations keep the index exact, and change no entry but *)
(* to drop it                                                              *)

Values == [value : Levels, via : Groups \cup {NoGroup}]

EntryType ==
    [answer : Values, groups : SUBSET Groups, age : Nat, from : Nat, raced : BOOLEAN]

Exact(c) ==
    /\ c = [entry |-> c.entry, index |-> c.index, used |-> c.used]
    /\ c.entry \in [Keys -> EntryType]
    /\ c.index = [g \in Groups |-> {k \in Keys : g \in c.entry[k].groups}]

\* e is d, but for its age.
Same(e, d) ==
    /\ e.answer = d.answer /\ e.groups = d.groups
    /\ e.from = d.from /\ e.raced = d.raced

\* Whatever d holds, c held.
Keeps(c, d) == \A k \in Keys : d.entry[k] = NoEntry \/ Same(d.entry[k], c.entry[k])

\* No entry is an entry without groups.
LEMMA NoEntryType == NoEntry \in EntryType /\ NoEntry.groups = {} /\ NoEntry.from = 0
  BY DEF NoEntry, Entry, EntryType, Values, Levels

\* A cache without entries.
LEMMA EmptyExact == Exact(Empty) /\ \A k \in Keys : Empty.entry[k] = NoEntry
  BY NoEntryType DEF Exact, Empty

\* Evict drops the keys of S, from the index as well.
LEMMA EvictExact ==
    ASSUME NEW c, Exact(c), NEW S
    PROVE  /\ Exact(Evict(c, S)) /\ Keeps(c, Evict(c, S))
           /\ \A k \in Keys : Evict(c, S).entry[k] = IF k \in S THEN NoEntry ELSE c.entry[k]
<1> DEFINE d == Evict(c, S)
<1>1. d.entry = [k \in Keys |-> IF k \in S THEN NoEntry ELSE c.entry[k]]
  BY DEF Evict
<1>2. d.index = [g \in Groups |-> c.index[g] \ {k \in S : g \in c.entry[k].groups}]
  BY DEF Evict
<1>3. d = [entry |-> d.entry, index |-> d.index, used |-> d.used]
  BY DEF Evict
<1> HIDE DEF d
<1>4. d.entry \in [Keys -> EntryType]
  BY <1>1, NoEntryType DEF Exact
<1>5. ASSUME NEW g \in Groups PROVE d.index[g] = {k \in Keys : g \in d.entry[k].groups}
  <2>1. d.index[g] = c.index[g] \ {k \in S : g \in c.entry[k].groups}
    BY <1>2
  <2>2. c.index[g] = {k \in Keys : g \in c.entry[k].groups}
    BY DEF Exact
  <2>3. \A k \in Keys : d.entry[k] = IF k \in S THEN NoEntry ELSE c.entry[k]
    BY <1>1
  <2> QED  BY <2>1, <2>2, <2>3, NoEntryType
<1>6. d.index = [g \in Groups |-> {k \in Keys : g \in d.entry[k].groups}]
  BY <1>2, <1>5
<1>7. Exact(d)
  BY <1>3, <1>4, <1>6 DEF Exact
<1>8. Keeps(c, d)
  BY <1>1 DEF Keeps, Same
<1> QED  BY <1>1, <1>7, <1>8 DEF d

\* A hit changes the order of use only.
LEMMA HitExact ==
    ASSUME NEW c, Exact(c), NEW k
    PROVE  Exact(Hit(c, k)) /\ Keeps(c, Hit(c, k))
<1>1. Hit(c, k) = [entry |-> c.entry, index |-> c.index, used |-> Append(Without(c.used, {k}), k)]
  <2>1. c = [entry |-> c.entry, index |-> c.index, used |-> c.used]
    BY DEF Exact
  <2>2. \A u : [c EXCEPT !.used = u] = [entry |-> c.entry, index |-> c.index, used |-> u]
    BY <2>1
  <2> QED  BY <2>2 DEF Hit
<1> QED  BY <1>1 DEF Exact, Keeps, Same

\* Time changes the ages only.
LEMMA OlderExact ==
    ASSUME NEW c, Exact(c)
    PROVE  Exact(Older(c)) /\ Keeps(c, Older(c))
<1> DEFINE d == Older(c)
<1>1. d = [entry |-> d.entry, index |-> c.index, used |-> c.used]
  <2>1. c = [entry |-> c.entry, index |-> c.index, used |-> c.used]
    BY DEF Exact
  <2>2. \A e : [c EXCEPT !.entry = e] = [entry |-> e, index |-> c.index, used |-> c.used]
    BY <2>1
  <2>3. \E e : d = [c EXCEPT !.entry = e]
    BY DEF Older
  <2> QED  BY <2>2, <2>3
<1>2. d.entry = [k \in Keys |-> IF Stored(c, k) /\ ~Expired(c, k)
                                THEN [c.entry[k] EXCEPT !.age = @ + 1] ELSE c.entry[k]]
  BY DEF Exact, Older
<1> HIDE DEF d
<1>3. ASSUME NEW k \in Keys PROVE d.entry[k] \in EntryType /\ Same(d.entry[k], c.entry[k])
  <2>1. c.entry[k] \in EntryType
    BY DEF Exact
  <2>2. /\ [c.entry[k] EXCEPT !.age = @ + 1] \in EntryType
        /\ Same([c.entry[k] EXCEPT !.age = @ + 1], c.entry[k])
    BY <2>1 DEF EntryType, Same
  <2> QED  BY <1>2, <2>1, <2>2 DEF Same
<1>4. d.entry \in [Keys -> EntryType]
  BY <1>2, <1>3
<1>5. d.index = [g \in Groups |-> {k \in Keys : g \in d.entry[k].groups}]
  BY <1>1, <1>3 DEF Exact, Same
<1>6. Exact(d)
  BY <1>1, <1>4, <1>5 DEF Exact
<1> QED  BY <1>3, <1>6 DEF Keeps, d

\* A put stores its entry, or drops it at once, and keeps no other of its key.
LEMMA PutExact ==
    ASSUME NEW c, Exact(c), NEW k \in Keys, NEW e \in EntryType
    PROVE  /\ Exact(Put(c, k, e))
           /\ \A l \in Keys : \/ Put(c, k, e).entry[l] = NoEntry
                              \/ l # k /\ Same(Put(c, k, e).entry[l], c.entry[l])
                              \/ l = k /\ Put(c, k, e).entry[l] = e
<1> DEFINE b == Evict(c, {k})
           d == File(b, k, e)
<1>1. Exact(b) /\ Keeps(c, b) /\ b.entry[k] = NoEntry
  BY EvictExact
<1>2. Put(c, k, e) = Trim(d)
  BY DEF Put
<1> HIDE DEF b
<1>3. d.entry = [b.entry EXCEPT ![k] = e]
  BY DEF File
<1>4. d.index = [g \in Groups |-> IF g \in e.groups THEN b.index[g] \cup {k} ELSE b.index[g]]
  BY DEF File
<1>5. d = [entry |-> d.entry, index |-> d.index, used |-> d.used]
  BY DEF File
<1> HIDE DEF d
<1>6. d.entry \in [Keys -> EntryType] /\ d.entry[k] = e
      /\ \A l \in Keys \ {k} : d.entry[l] = b.entry[l]
  BY <1>1, <1>3 DEF Exact
<1>7. ASSUME NEW g \in Groups PROVE d.index[g] = {l \in Keys : g \in d.entry[l].groups}
  <2>1. b.index[g] = {l \in Keys : g \in b.entry[l].groups}
    BY <1>1 DEF Exact
  <2>2. d.index[g] = IF g \in e.groups THEN b.index[g] \cup {k} ELSE b.index[g]
    BY <1>4
  <2>3. k \notin b.index[g]
    BY <1>1, <2>1, NoEntryType
  <2>4. \A l \in Keys : g \in d.entry[l].groups <=>
                          IF l = k THEN g \in e.groups ELSE g \in b.entry[l].groups
    BY <1>6
  <2> QED  BY <2>1, <2>2, <2>3, <2>4
<1>8. d.index = [g \in Groups |-> {l \in Keys : g \in d.entry[l].groups}]
  BY <1>4, <1>7
<1>9. Exact(d)
  BY <1>5, <1>6, <1>8 DEF Exact
<1>10. Exact(Trim(d)) /\ \A l \in Keys : Trim(d).entry[l] = NoEntry \/ Trim(d).entry[l] = d.entry[l]
  <2>1. CASE Trim(d) = d
    BY <1>9, <2>1
  <2>2. CASE Trim(d) = Evict(d, {Head(d.used)})
    BY <1>9, <2>2, EvictExact
  <2> QED  BY <2>1, <2>2 DEF Trim
<1>11. ASSUME NEW l \in Keys
       PROVE  \/ Trim(d).entry[l] = NoEntry
              \/ l # k /\ Same(Trim(d).entry[l], c.entry[l])
              \/ l = k /\ Trim(d).entry[l] = e
  BY <1>1, <1>6, <1>10 DEF Keeps
<1> QED  BY <1>2, <1>10, <1>11

\* An invalidation drops every entry that depends on the group.
LEMMA InvalidateExact ==
    ASSUME NEW c, Exact(c), NEW g \in Groups
    PROVE  /\ Exact(InvalidateGroup(c, g)) /\ Keeps(c, InvalidateGroup(c, g))
           /\ \A k \in Keys : g \in c.entry[k].groups => InvalidateGroup(c, g).entry[k] = NoEntry
<1> DEFINE d == Evict(c, c.index[g])
<1>1. c.index[g] = {k \in Keys : g \in c.entry[k].groups}
  BY DEF Exact
<1>2. Exact(d) /\ Keeps(c, d)
  BY EvictExact
<1>3. \A k \in Keys : d.entry[k] = IF k \in c.index[g] THEN NoEntry ELSE c.entry[k]
  BY EvictExact
<1>4. InvalidateGroup(c, g) = [d EXCEPT !.index[g] = {}]
  BY DEF InvalidateGroup
<1> HIDE DEF d
<1>5. d.index[g] = {}
  BY <1>1, <1>2, <1>3, NoEntryType DEF Exact
<1>6. InvalidateGroup(c, g) = d
  <2>1. d.index = [d.index EXCEPT ![g] = {}]
    BY <1>2, <1>5 DEF Exact
  <2>2. d = [entry |-> d.entry, index |-> d.index, used |-> d.used]
    BY <1>2 DEF Exact
  <2>3. [d EXCEPT !.index[g] = {}] = [d EXCEPT !.index = [d.index EXCEPT ![g] = {}]]
    BY <2>2
  <2> QED  BY <1>4, <2>1, <2>2, <2>3
<1> QED  BY <1>1, <1>2, <1>3, <1>6

-----------------------------------------------------------------------------
(* What is right now                                                       *)

\* The chain a check of k walks.
ChainOf(k) == IF k[2] THEN AncestorChain(k[1]) ELSE <<k[1]>>

\* A walk of k that ends at its n-th group answers a, from the groups in G.
Found(k, n, a, G) ==
    LET s == ChainOf(k) IN
    /\ \A i \in 1 .. n - 1 : level[s[i]] = "open"
    /\ level[s[n]] # "open" \/ n = Len(s)
    /\ G = {s[i] : i \in 1 .. n}
    /\ a = Answer(level[s[n]], IF k[2] /\ level[s[n]] # "open" THEN s[n] ELSE NoGroup)

RightNow(k, a, G) ==
    IF ChainOf(k) = <<>> THEN a = Answer("open", NoGroup)
    ELSE \E n \in 1 .. Len(ChainOf(k)) : Found(k, n, a, G)

\* The drop that w has still to do takes an entry of the groups G.
WillDrop(w, G) == At(w, "drop") /\ (Is(w, {"link"}) \/ On(w) \in G)

EntryOK(k, e) ==
    e.groups # {} =>
        \/ e.raced
        \/ \E w \in Writers : Is(w, Silent) /\ write[w].when > e.from
        \/ \E w \in Writers : WillDrop(w, e.groups)
        \/ RightNow(k, e.answer, e.groups)

EntriesInv == \A k \in Keys : cache.entry[k].from <= commits /\ EntryOK(k, cache.entry[k])

CheckType ==
    [at : {"idle", "get", "chain", "walk", "store"}, keys : Seq(Keys), chain : Seq(Groups), step : Nat,
     memo : [Groups -> Levels \cup {"unread"}], from : Nat]

Walking == {"walk", "store"}

\* The walk ended at a level that was read, with an answer or at the end of the chain.
Decided(x) ==
    /\ x.memo[x.chain[x.step]] \in Levels
    /\ x.memo[x.chain[x.step]] # "open" \/ x.step = Len(x.chain)

\* What a request that began after the last commit has read is so.
CheckOK(x) ==
    /\ x \in CheckType /\ x.from <= commits
    /\ x.at # "idle" => x.keys # <<>>
    /\ x.at = "chain" => Head(x.keys)[2]
    /\ x.at \in {"get", "chain"} => x.step = 1
    /\ x.at \in Walking => (x.chain = <<>> /\ Head(x.keys)[2]) \/ x.step \in 1 .. Len(x.chain)
    /\ x.at = "store" /\ x.chain # <<>> => Decided(x)
    /\ x.at # "idle" /\ x.from = commits => \A g \in Groups : x.memo[g] \in {"unread", level[g]}
    /\ x.at \in Walking /\ x.from = commits =>
          /\ x.chain = ChainOf(Head(x.keys))
          /\ \A i \in 1 .. x.step - 1 : level[x.chain[i]] = "open"

ChecksInv == check \in [Checkers -> CheckType] /\ \A c \in Checkers : CheckOK(check[c])

WriteType ==
    [op : [kind : Kinds, group : Groups, value : Levels, parent : Groups \cup {NoGroup}],
     at : {"begin", "graph", "drop", "done"}, when : Nat]

RowsInv ==
    /\ level \in [Groups -> Levels] /\ live \subseteq Groups
    /\ parent \in [Groups -> Groups \cup {NoGroup}]
    /\ commits \in Nat /\ write \in [Writers -> WriteType]
    /\ \A w \in Writers : /\ write[w].when <= commits
                          /\ At(w, "graph") => Is(w, Parented)

IInv == RowsInv /\ Exact(cache) /\ ChecksInv /\ EntriesInv

\* The chain of the model is the chain of its graph.
LEMMA AncestorChainIs == \A g : AncestorChain(g) = Chain(parent, live, g)
  BY DEF AncestorChain, Walks, Chain, Path

\* A chain is a sequence of groups, and a live group has one.
LEMMA ChainType ==
    ASSUME NEW g \in Groups
    PROVE  /\ AncestorChain(g) \in Seq(Groups)
           /\ g \in live => AncestorChain(g) # <<>>
           /\ g \notin live => AncestorChain(g) = <<>>
<1>1. CASE g \in live
  <2>1. PICK n \in 1 .. MaxDepth + 1 : Chain(parent, live, g) \in Path(parent, g, n, live)
    BY <1>1, ChainLongest
  <2>2. n \in Nat /\ n >= 1
    BY ChecksAssumption, <2>1
  <2>3. Chain(parent, live, g) \in [1 .. n -> Groups]
    BY <2>1 DEF Path
  <2>4. Chain(parent, live, g) \in Seq(Groups) /\ Len(Chain(parent, live, g)) = n
    BY <2>2, <2>3
  <2> QED  BY <1>1, <2>2, <2>4, AncestorChainIs
<1>2. CASE g \notin live
  BY <1>2 DEF AncestorChain
<1> QED  BY <1>1, <1>2

\* The chain a check walks is a sequence of groups.
LEMMA ChainOfType == ASSUME NEW k \in Keys PROVE ChainOf(k) \in Seq(Groups)
  BY ChainType DEF ChainOf, Keys

\* What is right now is what the rows say.
LEMMA RightResolves ==
    ASSUME NEW k \in Keys, NEW a, NEW G, RightNow(k, a, G)
    PROVE  a = Resolve(k)
<1> DEFINE s == ChainOf(k)
           deciders == {i \in 1 .. Len(s) : level[s[i]] # "open"}
           nearest == CHOOSE i \in deciders : \A j \in deciders : i <= j
<1>1. CASE ~k[2]
  BY <1>1 DEF RightNow, Found, ChainOf, Resolve
<1>2. CASE k[2]
  <2>0. s \in Seq(Groups) /\ s = AncestorChain(k[1])
    BY <1>2, ChainOfType DEF ChainOf
  <2>1. Resolve(k) = IF deciders = {} THEN Answer("open", NoGroup)
                     ELSE Answer(level[s[nearest]], s[nearest])
    BY <1>2, <2>0 DEF Resolve
  <2> HIDE DEF s
  <2>2. CASE s = <<>>
    BY <2>1, <2>2 DEF RightNow, s
  <2>3. CASE s # <<>>
    <3>1. PICK n \in 1 .. Len(s) : Found(k, n, a, G)
      BY <2>3 DEF RightNow, s
    <3>2. /\ \A i \in 1 .. n - 1 : level[s[i]] = "open"
          /\ level[s[n]] # "open" \/ n = Len(s)
          /\ a = Answer(level[s[n]], IF level[s[n]] # "open" THEN s[n] ELSE NoGroup)
      BY <1>2, <3>1 DEF Found, s
    <3>3. Len(s) \in Nat
      BY <2>0
    <3>4. CASE level[s[n]] # "open"
      <4>1. n \in deciders /\ \A j \in deciders : n <= j
        BY <3>2, <3>3, <3>4
      <4>2. deciders \subseteq Nat
        BY <3>3
      <4>3. nearest = n
        <5>1. nearest \in deciders /\ \A j \in deciders : nearest <= j
          BY <4>1
        <5> HIDE DEF nearest, deciders
        <5> QED  BY <4>1, <4>2, <5>1
      <4> QED  BY <2>1, <3>2, <3>4, <4>1, <4>3
    <3>5. CASE level[s[n]] = "open"
      <4>1. n = Len(s) /\ \A i \in 1 .. Len(s) : level[s[i]] = "open"
        BY <3>2, <3>3, <3>5
      <4>2. deciders = {}
        BY <4>1
      <4> QED  BY <2>1, <3>2, <3>5, <4>2
    <3> QED  BY <3>4, <3>5
  <2> QED  BY <2>2, <2>3
<1> QED  BY <1>1, <1>2

\* The invariant is stronger than the property.
LEMMA CausesKnown == IInv => StaleForCause
<1> SUFFICES ASSUME IInv, NEW k \in Keys, Stale(k)
             PROVE  Dropping \/ Silenced(k) \/ cache.entry[k].raced
  BY DEF StaleForCause
<1>1. EntryOK(k, cache.entry[k]) /\ cache.entry[k].groups # {}
  BY DEF IInv, EntriesInv, Stale, Stored
<1>2. ~RightNow(k, cache.entry[k].answer, cache.entry[k].groups)
  BY RightResolves DEF Stale
<1> QED  BY <1>1, <1>2 DEF EntryOK, WillDrop, Dropping, Silenced

-----------------------------------------------------------------------------
(* The initial states                                                      *)

\* A request that is not at work has nothing to answer for.
LEMMA IdleOK ==
    ASSUME commits \in Nat
    PROVE  Idle \in CheckType /\ CheckOK(Idle) /\ Idle.at = "idle"
  BY DEF Idle, CheckType, CheckOK, Walking

\* The invariant holds before any check or write.
LEMMA InitIInv == Init => IInv
<1> SUFFICES ASSUME Init PROVE IInv
  OBVIOUS
<1>1. RowsInv
  <2>1. ASSUME NEW op \in Ops PROVE [op |-> op, at |-> "begin", when |-> 0] \in WriteType
    BY ChecksAssumption DEF WriteType
  <2>2. \A w \in Writers : write[w].at = "begin" /\ write[w].when = 0
    BY DEF Init
  <2> QED  BY <2>1, <2>2 DEF Init, RowsInv, At
<1>2. Exact(cache) /\ \A k \in Keys : cache.entry[k] = NoEntry
  BY EmptyExact DEF Init
<1>3. ChecksInv
  BY IdleOK DEF Init, ChecksInv
<1>4. EntriesInv
  BY <1>2, NoEntryType DEF EntriesInv, EntryOK, Init
<1> QED  BY <1>1, <1>2, <1>3, <1>4 DEF IInv

-----------------------------------------------------------------------------
(* Checks                                                                  *)

\* What the invariant says of entries stays when the rows do and entries are
\* at most dropped.
LEMMA KeepsEntries ==
    ASSUME EntriesInv, Exact(cache), Keeps(cache, cache'), UNCHANGED <<level, parent, live, write, commits>>,
           commits \in Nat
    PROVE  EntriesInv'
<1> SUFFICES ASSUME NEW k \in Keys
             PROVE  cache'.entry[k].from <= commits /\ EntryOK(k, cache.entry[k])'
  BY DEF EntriesInv
<1>1. cache.entry[k].from <= commits /\ EntryOK(k, cache.entry[k])
  BY DEF EntriesInv
<1>2. \A G, a : RightNow(k, a, G)' <=> RightNow(k, a, G)
  BY DEF RightNow, Found, ChainOf, AncestorChain, Walks
<1>3. \A w, G : WillDrop(w, G)' <=> WillDrop(w, G)
  BY DEF WillDrop, At, Is, On
<1>4. CASE cache'.entry[k] = NoEntry
  BY <1>4, NoEntryType DEF EntryOK
<1>5. CASE Same(cache'.entry[k], cache.entry[k])
  <2>1. \A w : write'[w] = write[w] /\ (Is(w, Silent)' <=> Is(w, Silent))
    BY DEF Is
  <2> QED  BY <1>1, <1>2, <1>3, <1>5, <2>1 DEF Same, EntryOK
<1> QED  BY <1>4, <1>5 DEF Keeps

\* A check goes on to a state as good as the one it was in.
LEMMA StaysOK ==
    ASSUME RowsInv, ChecksInv, NEW c \in Checkers, NEW x, CheckOK(x), Stays(c, x)
    PROVE  RowsInv' /\ ChecksInv'
<1>1. RowsInv'
  BY DEF RowsInv, Stays, At, Is
<1>2. \A y : CheckOK(y)' <=> CheckOK(y)
  BY DEF CheckOK, ChainOf, AncestorChain, Walks, Stays
<1>3. x \in CheckType
  BY DEF CheckOK
<1> QED  BY <1>1, <1>2, <1>3 DEF ChecksInv, Stays

\* A request that goes on to its next key, or ends, keeps what it knows.
LEMMA NextKeyOK ==
    ASSUME RowsInv, NEW c \in Checkers, CheckOK(check[c]), check[c].at # "idle"
    PROVE  CheckOK(NextKey(c))
<1> DEFINE x == check[c]
<1>0. x \in CheckType /\ x.keys \in Seq(Keys) /\ x.keys # <<>> /\ x.from <= commits
  BY DEF CheckOK, CheckType
<1>1. commits \in Nat
  BY DEF RowsInv
<1>2. CASE Len(x.keys) = 1
  BY <1>1, <1>2, IdleOK DEF NextKey
<1>3. CASE Len(x.keys) # 1
  <2>1. Tail(x.keys) \in Seq(Keys) /\ Tail(x.keys) # <<>>
    <3>1. /\ Tail(x.keys) \in Seq(Keys) /\ Len(Tail(x.keys)) = Len(x.keys) - 1
          /\ Len(x.keys) \in Nat \ {0}
      BY <1>0, HeadTailProperties, EmptySeq
    <3>2. Len(Tail(x.keys)) # 0
      BY <1>3, <3>1
    <3> QED  BY <3>1, <3>2, EmptySeq
  <2>2. NextKey(c) = [x EXCEPT !.at = "get", !.keys = Tail(x.keys), !.chain = <<>>, !.step = 1]
    BY <1>3 DEF NextKey
  <2>3. NextKey(c) \in CheckType
    <3>1. <<>> \in Seq(Groups) /\ 1 \in Nat
      OBVIOUS
    <3> QED  BY <1>0, <2>1, <2>2, <3>1 DEF CheckType
  <2>4. /\ NextKey(c).at = "get" /\ NextKey(c).keys = Tail(x.keys) /\ NextKey(c).step = 1
        /\ NextKey(c).from = x.from /\ NextKey(c).memo = x.memo
    BY <1>0, <2>2 DEF CheckType
  <2>5. x.from = commits => \A g \in Groups : x.memo[g] \in {"unread", level[g]}
    BY DEF CheckOK
  <2> QED  BY <1>0, <2>1, <2>3, <2>4, <2>5 DEF CheckOK, Walking
<1> QED  BY <1>2, <1>3

\* A request that begins after the last commit has read nothing yet.
LEMMA BeginCheckStep ==
    ASSUME IInv, NEW c \in Checkers, BeginCheck(c)
    PROVE  IInv'
<1>1. PICK keys \in Batches :
         Stays(c, [Idle EXCEPT !.at = "get", !.keys = keys, !.from = commits])
  BY DEF BeginCheck
<1> DEFINE x == [Idle EXCEPT !.at = "get", !.keys = keys, !.from = commits]
<1>2. keys \in Seq(Keys) /\ keys # <<>> /\ commits \in Nat
  BY ChecksAssumption DEF IInv, RowsInv
<1>3. CheckOK(x)
  <2>1. x \in CheckType
    BY <1>2, IdleOK DEF CheckType
  <2>2. /\ x.at = "get" /\ x.keys = keys /\ x.from = commits /\ x.step = 1
        /\ x.memo = [g \in Groups |-> "unread"]
    BY DEF Idle
  <2> QED  BY <1>2, <2>1, <2>2 DEF CheckOK, Walking
<1>4. RowsInv' /\ ChecksInv'
  BY <1>1, <1>3, StaysOK DEF IInv
<1>5. UNCHANGED <<level, parent, live, write, commits, cache>>
  BY <1>1 DEF BeginCheck, Stays
<1>6. Keeps(cache, cache')
  BY <1>5 DEF Keeps, Same
<1>7. EntriesInv'
  BY <1>2, <1>5, <1>6, KeepsEntries DEF IInv
<1> QED  BY <1>4, <1>5, <1>7 DEF IInv

\* A hit and a miss change no answer.
LEMMA GetCachedStep ==
    ASSUME IInv, NEW c \in Checkers, GetCached(c)
    PROVE  IInv'
<1> DEFINE x == check[c]
           k == Key(c)
           y == IF k[2] THEN [x EXCEPT !.at = "chain"] ELSE [x EXCEPT !.at = "walk", !.chain = <<k[1]>>]
<1>0. x.at = "get" /\ CheckOK(x) /\ RowsInv /\ ChecksInv /\ Exact(cache) /\ EntriesInv
      /\ commits \in Nat
  BY DEF IInv, ChecksInv, GetCached, RowsInv
<1>1. CASE Stays(c, NextKey(c)) /\ cache' = Hit(cache, k)
  <2>1. RowsInv' /\ ChecksInv'
    BY <1>0, <1>1, NextKeyOK, StaysOK
  <2>2. Exact(cache') /\ Keeps(cache, cache')
    BY <1>0, <1>1, HitExact
  <2>3. EntriesInv'
    BY <1>0, <1>1, <2>2, KeepsEntries DEF Stays
  <2> QED  BY <2>1, <2>2, <2>3 DEF IInv
<1>2. CASE Stays(c, y) /\ cache' = IF Expired(cache, k) THEN Evict(cache, {k}) ELSE cache
  <2>1. x \in CheckType /\ x.keys \in Seq(Keys) /\ x.keys # <<>> /\ k = Head(x.keys) /\ k \in Keys
    BY <1>0 DEF CheckOK, CheckType, Key
  <2>2. CheckOK(y)
    <3>1. CASE k[2]
      <4>1. y = [x EXCEPT !.at = "chain"]
        BY <3>1
      <4>2. /\ y \in CheckType /\ y.at = "chain" /\ y.keys = x.keys
            /\ y.from = x.from /\ y.memo = x.memo
        BY <2>1, <4>1 DEF CheckType
      <4> QED  BY <1>0, <2>1, <3>1, <4>2 DEF CheckOK, Walking
    <3>2. CASE ~k[2]
      <4>1. y = [x EXCEPT !.at = "walk", !.chain = <<k[1]>>]
        BY <3>2
      <4>2. k[1] \in Groups /\ <<k[1]>> \in Seq(Groups)
        BY <2>1 DEF Keys
      <4>3. /\ y \in CheckType /\ y.at = "walk" /\ y.keys = x.keys /\ y.chain = <<k[1]>>
            /\ y.from = x.from /\ y.memo = x.memo /\ y.step = x.step
        BY <2>1, <4>1, <4>2 DEF CheckType
      <4>4. x.step = 1
        BY <1>0 DEF CheckOK
      <4> QED  BY <1>0, <2>1, <3>2, <4>3, <4>4 DEF CheckOK, ChainOf
    <3> QED  BY <3>1, <3>2
  <2>3. RowsInv' /\ ChecksInv'
    BY <1>0, <1>2, <2>2, StaysOK
  <2>4. Exact(cache') /\ Keeps(cache, cache')
    <3>1. CASE cache' = cache
      BY <1>0, <3>1 DEF Keeps, Same
    <3>2. CASE cache' = Evict(cache, {k})
      BY <1>0, <3>2, EvictExact
    <3> QED  BY <1>2, <3>1, <3>2
  <2>5. EntriesInv'
    BY <1>0, <1>2, <2>4, KeepsEntries DEF Stays
  <2> QED  BY <2>3, <2>4, <2>5 DEF IInv
<1> QED  BY <1>1, <1>2 DEF GetCached

\* A chain read since the last commit is the chain.
LEMMA LoadChainStep ==
    ASSUME IInv, NEW c \in Checkers, LoadChain(c)
    PROVE  IInv'
<1> DEFINE x == check[c]
           k == Key(c)
           y == [x EXCEPT !.at = "walk", !.chain = AncestorChain(k[1])]
<1>0. x.at = "chain" /\ CheckOK(x) /\ RowsInv /\ ChecksInv /\ commits \in Nat /\ Stays(c, y)
  BY DEF IInv, ChecksInv, LoadChain, RowsInv
<1>1. x \in CheckType /\ x.keys # <<>> /\ k = Head(x.keys) /\ k \in Keys /\ k[1] \in Groups
      /\ k[2] /\ x.step = 1 /\ x.from <= commits
  BY <1>0 DEF CheckOK, CheckType, Key, Keys
<1>2. AncestorChain(k[1]) \in Seq(Groups)
  BY <1>1, ChainType
<1>3. /\ y \in CheckType /\ y.at = "walk" /\ y.keys = x.keys /\ y.chain = AncestorChain(k[1])
      /\ y.from = x.from /\ y.memo = x.memo /\ y.step = 1
  BY <1>1, <1>2 DEF CheckType
<1>4. y.chain = <<>> \/ 1 \in 1 .. Len(y.chain)
  BY <1>2, <1>3, EmptySeq
<1>5. x.from = commits => \A g \in Groups : x.memo[g] \in {"unread", level[g]}
  BY <1>0 DEF CheckOK
<1>6. y.chain = ChainOf(Head(y.keys))
  BY <1>1, <1>3 DEF ChainOf
<1>7. CheckOK(y)
  BY <1>1, <1>3, <1>4, <1>5, <1>6 DEF CheckOK
<1>8. RowsInv' /\ ChecksInv'
  BY <1>0, <1>7, StaysOK
<1>9. UNCHANGED <<level, parent, live, write, commits, cache>>
  BY <1>0 DEF LoadChain, Stays
<1>10. Keeps(cache, cache')
  BY <1>9 DEF Keeps, Same
<1>11. EntriesInv'
  BY <1>0, <1>9, <1>10, KeepsEntries DEF IInv
<1> QED  BY <1>8, <1>9, <1>11 DEF IInv

\* What a walk has read since the last commit is so.
LEMMA WalkLevelStep ==
    ASSUME IInv, NEW c \in Checkers, WalkLevel(c)
    PROVE  IInv'
<1> DEFINE x == check[c]
           chain == x.chain
           g == chain[x.step]
           value == IF x.memo[g] = "unread" THEN level[g] ELSE x.memo[g]
           stored == [x EXCEPT !.at = "store"]
           next == IF value # "open" \/ x.step = Len(chain) THEN stored ELSE [x EXCEPT !.step = x.step + 1]
           y == IF chain = <<>> THEN stored ELSE [next EXCEPT !.memo[g] = value]
<1>0. x.at = "walk" /\ CheckOK(x) /\ RowsInv /\ ChecksInv /\ commits \in Nat
  BY DEF IInv, ChecksInv, WalkLevel, RowsInv
<1>1. /\ x \in CheckType /\ x.keys \in Seq(Keys) /\ x.keys # <<>>
      /\ x.from <= commits /\ x.from \in Nat /\ chain \in Seq(Groups) /\ x.step \in Nat
      /\ x.memo \in [Groups -> Levels \cup {"unread"}]
  BY <1>0 DEF CheckOK, CheckType
<1>2. (chain = <<>> /\ Head(x.keys)[2]) \/ x.step \in 1 .. Len(chain)
  BY <1>0 DEF CheckOK, Walking
<1>3. x.from = commits => /\ chain = ChainOf(Head(x.keys))
                          /\ \A i \in 1 .. x.step - 1 : level[chain[i]] = "open"
                          /\ \A h \in Groups : x.memo[h] \in {"unread", level[h]}
  BY <1>0 DEF CheckOK, Walking
<1>4. Stays(c, y) /\ cache' = cache
  BY DEF WalkLevel, Reached
<1>5. CheckOK(y)
  <2>1. CASE chain = <<>>
    <3>1. PICK z : z = stored /\ z = y
      BY <2>1
    <3>2. /\ z \in CheckType /\ z.at = "store" /\ z.keys = x.keys /\ z.chain = chain
          /\ z.from = x.from /\ z.memo = x.memo /\ z.step = x.step
      BY <1>1, <3>1 DEF CheckType
    <3>3. CheckOK(z)
      BY <1>1, <1>2, <1>3, <2>1, <3>2 DEF CheckOK, Walking
    <3> QED  BY <3>1, <3>3
  <2>2. CASE chain # <<>>
    <3>1. g \in Groups /\ x.step \in 1 .. Len(chain) /\ Len(chain) \in Nat /\ level \in [Groups -> Levels]
      BY <1>0, <1>1, <1>2, <2>2 DEF RowsInv
    <3>2. PICK v : v = value /\ v \in Levels /\ (x.from = commits => v = level[g])
      BY <1>1, <1>3, <3>1
    <3>3. PICK memo : memo = [x.memo EXCEPT ![g] = v]
      OBVIOUS
    <3>4. /\ memo \in [Groups -> Levels \cup {"unread"}] /\ memo[g] = v
          /\ x.from = commits => \A h \in Groups : memo[h] \in {"unread", level[h]}
      BY <1>1, <1>3, <3>1, <3>2, <3>3
    <3>5. CASE v # "open" \/ x.step = Len(chain)
      <4>1. PICK z : z = [stored EXCEPT !.memo[g] = v] /\ z = y
        BY <2>2, <3>2, <3>5
      <4>2. /\ z \in CheckType /\ z.at = "store" /\ z.keys = x.keys /\ z.chain = chain
            /\ z.from = x.from /\ z.memo = memo /\ z.step = x.step
        BY <1>1, <3>3, <3>4, <4>1 DEF CheckType
      <4>3. Decided(z)
        BY <3>2, <3>4, <3>5, <4>2 DEF Decided
      <4>4. CheckOK(z)
        BY <1>1, <1>3, <3>1, <3>4, <4>2, <4>3 DEF CheckOK, Walking
      <4> QED  BY <4>1, <4>4
    <3>6. CASE v = "open" /\ x.step # Len(chain)
      <4>6. PICK s : s = [x EXCEPT !.step = x.step + 1]
        OBVIOUS
      <4>7. /\ s \in CheckType /\ s.at = "walk" /\ s.keys = x.keys /\ s.chain = chain
            /\ s.from = x.from /\ s.memo = x.memo /\ s.step = x.step + 1
        BY <1>0, <1>1, <4>6 DEF CheckType
      <4>1. PICK z : z = [s EXCEPT !.memo[g] = v] /\ z = y
        BY <2>2, <3>2, <3>6, <4>6
      <4>2. /\ z \in CheckType /\ z.at = "walk" /\ z.keys = x.keys /\ z.chain = chain
            /\ z.from = x.from /\ z.memo = memo /\ z.step = x.step + 1
        <5>1. z = [s EXCEPT !.memo = memo]
          BY <3>3, <4>1, <4>7
        <5> QED  BY <3>4, <4>7, <5>1 DEF CheckType
      <4>3. x.step + 1 \in 1 .. Len(chain)
        BY <3>1, <3>6
      <4>4. ASSUME x.from = commits, NEW i \in 1 .. (x.step + 1) - 1 PROVE level[chain[i]] = "open"
        <5>1. i = x.step \/ i \in 1 .. x.step - 1
          BY <1>1
        <5> QED  BY <1>3, <3>2, <3>6, <4>4, <5>1
      <4>5. CheckOK(z)
        BY <1>1, <1>3, <3>4, <4>2, <4>3, <4>4 DEF CheckOK, Walking
      <4> QED  BY <4>1, <4>5
    <3> QED  BY <3>5, <3>6
  <2> QED  BY <2>1, <2>2
<1> HIDE DEF y
<1>6. RowsInv' /\ ChecksInv'
  BY <1>0, <1>4, <1>5, StaysOK
<1>7. UNCHANGED <<level, parent, live, write, commits, cache>>
  BY <1>4 DEF Stays
<1>8. Keeps(cache, cache')
  BY <1>7 DEF Keeps, Same
<1>9. EntriesInv'
  BY <1>0, <1>7, <1>8, KeepsEntries DEF IInv
<1> QED  BY <1>6, <1>7, <1>9 DEF IInv

\* What a request stores is right, or was raced by a commit.
LEMMA StoreAnswerStep ==
    ASSUME IInv, NEW c \in Checkers, StoreAnswer(c)
    PROVE  IInv'
<1> DEFINE x == check[c]
           chain == x.chain
           k == Key(c)
           g == chain[x.step]
           value == IF chain = <<>> THEN "open" ELSE x.memo[g]
           via == IF k[2] /\ value # "open" THEN g ELSE NoGroup
           entry == Entry(Answer(value, via), Consulted(c), x.from, x.from # commits)
<1>0. /\ x.at = "store" /\ CheckOK(x) /\ RowsInv /\ ChecksInv /\ commits \in Nat
      /\ Exact(cache) /\ EntriesInv
  BY DEF IInv, ChecksInv, StoreAnswer, RowsInv
<1>1. /\ x \in CheckType /\ x.keys \in Seq(Keys) /\ x.keys # <<>> /\ k = Head(x.keys) /\ k \in Keys
      /\ x.from <= commits /\ x.from \in Nat /\ chain \in Seq(Groups) /\ x.step \in Nat
      /\ x.memo \in [Groups -> Levels \cup {"unread"}]
  BY <1>0 DEF CheckOK, CheckType, Key
<1>2. chain = <<>> \/ x.step \in 1 .. Len(chain)
  BY <1>0 DEF CheckOK, Walking
<1>3. chain # <<>> => g \in Groups
  BY <1>1, <1>2
<1>4. /\ value \in Levels
      /\ chain # <<>> => value # "open" \/ x.step = Len(chain)
      /\ chain # <<>> /\ x.from = commits => value = level[g]
  <2>1. "open" \in Levels /\ "unread" \notin Levels
    BY DEF Levels
  <2>2. chain # <<>> => Decided(x)
    BY <1>0 DEF CheckOK
  <2>3. x.from = commits => \A h \in Groups : x.memo[h] \in {"unread", level[h]}
    BY <1>0 DEF CheckOK
  <2> QED  BY <1>3, <2>1, <2>2, <2>3 DEF Decided
<1>5. Stays(c, NextKey(c)) /\ cache' = Put(cache, k, entry)
  BY DEF StoreAnswer, Said, Reached
<1>9. RowsInv' /\ ChecksInv' /\ UNCHANGED <<level, parent, live, write, commits>>
  <2>1. CheckOK(NextKey(c))
    BY <1>0, NextKeyOK
  <2> QED  BY <1>0, <1>5, <2>1, StaysOK DEF Stays
<1>11. IInv'
  <2>1. cache' = Put(cache, k, entry)
    BY <1>5
  <2>2. Consulted(c) = IF chain = <<>> THEN {k[1]} ELSE {chain[i] : i \in 1 .. x.step}
    BY DEF Consulted
  <2>3. Consulted(c) \subseteq Groups
    BY <1>1, <1>2, <2>2 DEF Keys
  <2>4. via \in Groups \cup {NoGroup}
    BY <1>3
  <2>5. entry \in EntryType
    <3> HIDE DEF value, via
    <3> QED  BY <1>1, <1>4, <2>3, <2>4 DEF EntryType, Entry, Answer, Values
  <2>6. x.from = commits => RightNow(k, entry.answer, entry.groups)
    <3> SUFFICES ASSUME x.from = commits PROVE RightNow(k, entry.answer, entry.groups)
      OBVIOUS
    <3>1. chain = ChainOf(k) /\ \A i \in 1 .. x.step - 1 : level[chain[i]] = "open"
      BY <1>0, <1>1 DEF CheckOK, Walking
    <3>2. entry.answer = Answer(value, via) /\ entry.groups = Consulted(c)
      BY DEF Entry
    <3>3. CASE chain = <<>>
      BY <3>1, <3>2, <3>3 DEF RightNow
    <3>4. CASE chain # <<>>
      <4>1. x.step \in 1 .. Len(chain) /\ value = level[g] /\ (level[g] # "open" \/ x.step = Len(chain))
        BY <1>2, <1>4, <3>4
      <4>2. Consulted(c) = {chain[i] : i \in 1 .. x.step}
        BY <2>2, <3>4
      <4>3. Answer(value, via) = Answer(level[g], IF k[2] /\ level[g] # "open" THEN g ELSE NoGroup)
        BY <4>1
      <4> HIDE DEF value, via, entry
      <4>4. Found(k, x.step, entry.answer, entry.groups)
        BY <3>1, <3>2, <4>1, <4>2, <4>3 DEF Found
      <4> QED  BY <3>1, <3>4, <4>1, <4>4 DEF RightNow
    <3> QED  BY <3>3, <3>4
  <2>7. entry.from = x.from /\ entry.raced = (x.from # commits)
    BY DEF Entry
  <2> HIDE DEF entry
  <2>8. /\ Exact(cache')
        /\ \A l \in Keys : \/ cache'.entry[l] = NoEntry
                           \/ l # k /\ Same(cache'.entry[l], cache.entry[l])
                           \/ l = k /\ cache'.entry[l] = entry
    BY <1>0, <1>1, <2>1, <2>5, PutExact
  <2>9. \A l, G, a : RightNow(l, a, G)' <=> RightNow(l, a, G)
    BY <1>9 DEF RightNow, Found, ChainOf, AncestorChain, Walks
  <2>10. \A w, G : WillDrop(w, G)' <=> WillDrop(w, G)
    BY <1>9 DEF WillDrop, At, Is, On
  <2>11. \A w : write'[w] = write[w] /\ (Is(w, Silent)' <=> Is(w, Silent))
    BY <1>9 DEF Is
  <2>12. ASSUME NEW l \in Keys
         PROVE  cache'.entry[l].from <= commits /\ EntryOK(l, cache.entry[l])'
    <3>1. cache.entry[l].from <= commits /\ EntryOK(l, cache.entry[l])
      BY <1>0 DEF EntriesInv
    <3>2. CASE cache'.entry[l] = NoEntry
      BY <1>0, <3>2, NoEntryType DEF EntryOK
    <3>3. CASE Same(cache'.entry[l], cache.entry[l])
      BY <2>9, <2>10, <2>11, <3>1, <3>3 DEF Same, EntryOK
    <3>4. CASE l = k /\ cache'.entry[l] = entry
      BY <1>1, <2>6, <2>7, <2>9, <3>4 DEF EntryOK
    <3> QED  BY <2>8, <3>2, <3>3, <3>4
  <2>13. EntriesInv'
    BY <1>9, <2>12 DEF EntriesInv
  <2> QED  BY <1>9, <2>8, <2>13 DEF IInv
<1> QED  BY <1>11

\* Time, and the sweeper of the cache.
LEMMA TimeStep ==
    ASSUME IInv, Tick \/ Sweep
    PROVE  IInv'
<1>1. UNCHANGED <<level, parent, live, check, write, commits>>
  BY DEF Tick, Sweep
<1>2. Exact(cache') /\ Keeps(cache, cache')
  BY OlderExact, EvictExact DEF IInv, Tick, Sweep, SweepExpired
<1>3. RowsInv'
  BY <1>1 DEF IInv, RowsInv, At, Is
<1>4. \A y : CheckOK(y)' <=> CheckOK(y)
  BY <1>1 DEF CheckOK, ChainOf, AncestorChain, Walks
<1>5. ChecksInv'
  BY <1>1, <1>4 DEF IInv, ChecksInv
<1>6. EntriesInv'
  BY <1>1, <1>2, KeepsEntries DEF IInv, RowsInv
<1> QED  BY <1>2, <1>3, <1>5, <1>6 DEF IInv

-----------------------------------------------------------------------------
(* Writes                                                                  *)

\* A commit makes every request one that began before it.
LEMMA CommitChecks ==
    ASSUME ChecksInv, RowsInv, commits' = commits + 1, UNCHANGED check
    PROVE  ChecksInv'
<1>1. ASSUME NEW c \in Checkers PROVE CheckOK(check[c])'
  <2>1. CheckOK(check[c]) /\ check[c] \in CheckType /\ commits \in Nat
    BY DEF ChecksInv, CheckOK, RowsInv
  <2>2. check[c].from \in Nat /\ check[c].from <= commits' /\ check[c].from # commits'
    BY <2>1 DEF CheckOK, CheckType
  <2> QED  BY <2>1, <2>2 DEF CheckOK
<1> QED  BY <1>1 DEF ChecksInv

\* What a commit does to the writes.
LEMMA CommitWrites ==
    ASSUME RowsInv, NEW w \in Writers, Commits(w), write[w].at \in {"begin", "graph"}
    PROVE  /\ write' \in [Writers -> WriteType] /\ commits' = commits + 1 /\ commits' \in Nat
           /\ \A v \in Writers : write'[v].op = write[v].op
           /\ \A v \in Writers \ {w} : write'[v] = write[v]
           /\ write'[w].when = commits + 1
           /\ write'[w].at = IF Is(w, Silent) THEN "done" ELSE "drop"
           /\ \A v \in Writers : write'[v].when <= commits' /\ write[v].when <= write'[v].when
           /\ \A v \in Writers : At(v, "graph")' => At(v, "graph")
<1> DEFINE next == [write[w] EXCEPT !.when = commits + 1,
                                    !.at = IF Is(w, Silent) THEN "done" ELSE "drop"]
<1>1. commits \in Nat /\ commits' = commits + 1 /\ write \in [Writers -> WriteType]
      /\ \A v \in Writers : write[v].when <= commits /\ write[v].when \in Nat
  BY DEF Commits, RowsInv, WriteType
<1>2. write' = [write EXCEPT ![w] = next]
  BY <1>1 DEF Commits
<1>3. /\ next \in WriteType /\ next.op = write[w].op /\ next.when = commits + 1
      /\ next.at = IF Is(w, Silent) THEN "done" ELSE "drop"
  <2>1. /\ write[w] \in WriteType /\ commits + 1 \in Nat
        /\ (IF Is(w, Silent) THEN "done" ELSE "drop") \in {"begin", "graph", "drop", "done"}
    BY <1>1
  <2> QED  BY <2>1 DEF WriteType
<1> HIDE DEF next
<1>4. write'[w] = next /\ \A v \in Writers \ {w} : write'[v] = write[v]
  BY <1>1, <1>2
<1>5. write' \in [Writers -> WriteType]
  BY <1>1, <1>2, <1>3
<1>6. \A v \in Writers : At(v, "graph")' => At(v, "graph")
  BY <1>3, <1>4 DEF At
<1> QED  BY <1>1, <1>3, <1>4, <1>5, <1>6

\* A commit leaves every entry with a cause to be wrong, or right: it is enough
\* to look at the entries that its drop will not take.
LEMMA CommitEntries ==
    ASSUME RowsInv, EntriesInv, Exact(cache), NEW w \in Writers, Commits(w),
           write[w].at \in {"begin", "graph"}, UNCHANGED cache,
           \A k \in Keys, a \in Values, G \in SUBSET Groups :
              RightNow(k, a, G) /\ ~Is(w, Silent \cup {"link"}) /\ On(w) \notin G /\ G # {}
                 => RightNow(k, a, G)'
    PROVE  EntriesInv'
<1>1. /\ commits' = commits + 1 /\ commits \in Nat
      /\ \A v \in Writers : write'[v].op = write[v].op
      /\ \A v \in Writers \ {w} : write'[v] = write[v]
      /\ write'[w].when = commits + 1
      /\ write'[w].at = IF Is(w, Silent) THEN "done" ELSE "drop"
      /\ write' \in [Writers -> WriteType] /\ write \in [Writers -> WriteType]
      /\ \A v \in Writers : write[v].when <= write'[v].when
  BY CommitWrites DEF RowsInv
<1> SUFFICES ASSUME NEW k \in Keys
             PROVE  cache'.entry[k].from <= commits' /\ EntryOK(k, cache.entry[k])'
  BY DEF EntriesInv
<1> DEFINE e == cache.entry[k]
<1>2. e.from <= commits /\ EntryOK(k, e) /\ e \in EntryType /\ cache'.entry[k] = e /\ e.from \in Nat
  BY DEF EntriesInv, Exact, EntryType
<1>3. \A v \in Writers : \A kinds : Is(v, kinds)' <=> Is(v, kinds)
  BY <1>1 DEF Is
<1> SUFFICES ASSUME e.groups # {}, ~e.raced
             PROVE  \/ \E v \in Writers : Is(v, Silent)' /\ write'[v].when > e.from
                    \/ \E v \in Writers : WillDrop(v, e.groups)'
                    \/ RightNow(k, e.answer, e.groups)'
  BY <1>1, <1>2 DEF EntryOK
<1>4. CASE Is(w, Silent)
  BY <1>1, <1>2, <1>3, <1>4
<1>5. CASE ~Is(w, Silent) /\ (Is(w, {"link"}) \/ On(w) \in e.groups)
  BY <1>1, <1>3, <1>5 DEF WillDrop, At, On
<1>6. CASE ~Is(w, Silent) /\ ~Is(w, {"link"}) /\ On(w) \notin e.groups
  <2>1. CASE \E v \in Writers : Is(v, Silent) /\ write[v].when > e.from
    <3>1. PICK v \in Writers : Is(v, Silent) /\ write[v].when > e.from
      BY <2>1
    <3>2. write'[v].when > e.from
      BY <1>1, <1>2, <3>1 DEF WriteType
    <3> QED  BY <1>3, <3>1, <3>2
  <2>2. CASE \E v \in Writers : WillDrop(v, e.groups)
    <3>1. PICK v \in Writers : WillDrop(v, e.groups)
      BY <2>2
    <3>2. v # w
      BY <3>1 DEF WillDrop, At
    <3> QED  BY <1>1, <1>3, <3>1, <3>2 DEF WillDrop, At, On
  <2>3. CASE RightNow(k, e.answer, e.groups)
    <3>1. ~Is(w, Silent \cup {"link"}) /\ e.answer \in Values /\ e.groups \in SUBSET Groups
      BY <1>2, <1>6 DEF Is, EntryType
    <3> QED  BY <1>6, <2>3, <3>1
  <2> QED  BY <1>2, <2>1, <2>2, <2>3 DEF EntryOK
<1> QED  BY <1>4, <1>5, <1>6

\* A change of one level, or of all.
LEMMA WriteLevelStep ==
    ASSUME IInv, NEW w \in Writers, WriteLevel(w)
    PROVE  IInv'
<1>0. /\ RowsInv /\ Exact(cache) /\ ChecksInv /\ EntriesInv /\ Commits(w)
      /\ write[w].at = "begin" /\ write[w] \in WriteType /\ UNCHANGED <<parent, live, cache, check>>
  BY DEF IInv, RowsInv, WriteLevel, At
<1>1. PICK groups \in SUBSET Groups :
         /\ Levelled(w, groups)
         /\ ~Is(w, Silent \cup {"link"}) => groups = {On(w)}
  BY <1>0 DEF WriteLevel, Is, RowsInv
<1>2. level' \in [Groups -> Levels]
  BY <1>0, <1>1 DEF Levelled, RowsInv, WriteType
<1>3. RowsInv'
  <2>1. /\ write' \in [Writers -> WriteType] /\ commits' \in Nat
        /\ \A v \in Writers : write'[v].op = write[v].op
        /\ \A v \in Writers : write'[v].when <= commits'
        /\ \A v \in Writers : At(v, "graph")' => At(v, "graph")
    BY <1>0, CommitWrites
  <2> QED  BY <1>0, <1>2, <2>1 DEF RowsInv, Is
<1>4. ChecksInv'
  BY <1>0, CommitChecks DEF Commits
<1>5. ASSUME NEW k \in Keys, NEW a \in Values, NEW G \in SUBSET Groups, RightNow(k, a, G),
             ~Is(w, Silent \cup {"link"}), On(w) \notin G
      PROVE  RightNow(k, a, G)'
  <2>1. ChainOf(k)' = ChainOf(k) /\ ChainOf(k) \in Seq(Groups)
    <3>1. ChainOf(k)' = ChainOf(k)
      BY <1>0 DEF ChainOf, AncestorChain, Walks
    <3> QED  BY <3>1, ChainOfType
  <2>2. \A g \in Groups : g \in G => level'[g] = level[g]
    BY <1>1, <1>5 DEF Levelled
  <2>3. CASE ChainOf(k) = <<>>
    BY <1>5, <2>1, <2>3 DEF RightNow
  <2>4. CASE ChainOf(k) # <<>>
    <3>1. PICK n \in 1 .. Len(ChainOf(k)) : Found(k, n, a, G)
      BY <1>5, <2>4 DEF RightNow
    <3>2. \A i \in 1 .. n : level'[ChainOf(k)[i]] = level[ChainOf(k)[i]]
      <4>1. ASSUME NEW i \in 1 .. n PROVE ChainOf(k)[i] \in G /\ ChainOf(k)[i] \in Groups
        BY <2>1, <3>1 DEF Found
      <4> QED  BY <2>2, <4>1
    <3>3. n \in 1 .. n /\ \A i \in 1 .. n - 1 : i \in 1 .. n
      BY <2>1
    <3>4. Found(k, n, a, G)'
      BY <2>1, <3>1, <3>2, <3>3 DEF Found
    <3> QED  BY <2>1, <2>4, <3>4 DEF RightNow
  <2> QED  BY <2>3, <2>4
<1>6. EntriesInv'
  BY <1>0, <1>5, CommitEntries
<1> QED  BY <1>0, <1>3, <1>4, <1>6 DEF IInv

\* A delete or a restore.
LEMMA WriteLiveStep ==
    ASSUME IInv, NEW w \in Writers, WriteLive(w)
    PROVE  IInv'
<1>0. /\ RowsInv /\ Exact(cache) /\ ChecksInv /\ EntriesInv /\ Commits(w)
      /\ write[w].at = "begin" /\ write[w] \in WriteType /\ UNCHANGED <<level, parent, cache, check>>
  BY DEF IInv, RowsInv, WriteLive, At
<1>1. Is(w, Silent) /\ live' \subseteq Groups
  BY <1>0 DEF WriteLive, Is, Silent, RowsInv, WriteType, On
<1>2. RowsInv'
  <2>1. /\ write' \in [Writers -> WriteType] /\ commits' \in Nat
        /\ \A v \in Writers : write'[v].op = write[v].op
        /\ \A v \in Writers : write'[v].when <= commits'
        /\ \A v \in Writers : At(v, "graph")' => At(v, "graph")
    BY <1>0, CommitWrites
  <2> QED  BY <1>0, <1>1, <2>1 DEF RowsInv, Is
<1>3. ChecksInv'
  BY <1>0, CommitChecks DEF Commits
<1>4. ~(~Is(w, Silent \cup {"link"}))
  BY <1>1 DEF Is
<1>5. EntriesInv'
  BY <1>0, <1>4, CommitEntries
<1> QED  BY <1>0, <1>2, <1>3, <1>5 DEF IInv

\* A chain is found again under new parents of groups that are not on it.
LEMMA Reparented ==
    ASSUME RowsInv, NEW k \in Keys, NEW a, NEW G, RightNow(k, a, G), UNCHANGED <<level, live>>,
           \A g \in G : parent'[g] = parent[g], G \subseteq Groups
    PROVE  RightNow(k, a, G)'
<1>0. k[1] \in Groups
  BY DEF Keys
<1>1. CASE ~k[2]
  BY <1>1 DEF RightNow, Found, ChainOf
<1>2. CASE k[1] \notin live
  <2>1. ChainOf(k)' = ChainOf(k)
    BY <1>2 DEF ChainOf, AncestorChain
  <2> QED  BY <2>1 DEF RightNow, Found
<1>3. CASE k[2] /\ k[1] \in live
  <2> DEFINE s == Chain(parent, live, k[1])
             t == Chain(parent', live, k[1])
  <2>1. ChainOf(k) = s /\ s \in Seq(Groups) /\ s # <<>>
    BY <1>0, <1>3, AncestorChainIs, ChainType DEF ChainOf
  <2>2. ChainOf(k)' = t
    <3>1. AncestorChain(k[1])' = t
      BY DEF AncestorChain, Walks, Chain, Path
    <3> QED  BY <1>3, <3>1 DEF ChainOf
  <2>3. t \in Seq(Groups) /\ t # <<>>
    <3>1. PICK m \in 1 .. MaxDepth + 1 : t \in Path(parent', k[1], m, live)
      BY <1>0, <1>3, ChainLongest
    <3>2. m \in Nat /\ m >= 1 /\ t \in [1 .. m -> Groups]
      BY <3>1, ChecksAssumption DEF Path
    <3>3. t \in Seq(Groups) /\ Len(t) = m
      BY <3>2
    <3> QED  BY <3>2, <3>3
  <2>4. PICK n \in 1 .. Len(s) : Found(k, n, a, G)
    BY <2>1 DEF RightNow
  <2>5. \A i \in 1 .. n : parent[s[i]] = parent'[s[i]]
    BY <2>1, <2>4 DEF Found
  <2>6. /\ n <= Len(t)
        /\ \A i \in 1 .. n : t[i] = s[i]
        /\ n = Len(s) => Len(t) = n
    BY <1>0, <1>3, <2>5, ChainKept
  <2> HIDE DEF s, t
  <2>7. n \in Nat /\ n >= 1 /\ Len(t) \in Nat /\ n \in 1 .. Len(t)
    BY <2>1, <2>3, <2>6
  <2>8. \A i \in 1 .. n - 1 : i \in 1 .. n
    BY <2>7
  <2>9. {t[i] : i \in 1 .. n} = {s[i] : i \in 1 .. n} /\ t[n] = s[n]
    BY <2>6, <2>7
  <2>10. Found(k, n, a, G)'
    BY <2>1, <2>2, <2>4, <2>6, <2>7, <2>8, <2>9 DEF Found
  <2> QED  BY <2>2, <2>3, <2>7, <2>10 DEF RightNow
<1> QED  BY <1>1, <1>2, <1>3

\* A new parent disturbs only entries and walks that its drop is still to take.
LEMMA WriteParentStep ==
    ASSUME IInv, NEW w \in Writers, WriteParent(w)
    PROVE  IInv'
<1>0. /\ RowsInv /\ Exact(cache) /\ ChecksInv /\ EntriesInv /\ Commits(w)
      /\ write[w].at = "graph" /\ write[w] \in WriteType /\ UNCHANGED <<level, live, cache, check>>
      /\ parent' = [parent EXCEPT ![On(w)] = write[w].op.parent]
      /\ parent \in [Groups -> Groups \cup {NoGroup}]
  BY DEF IInv, RowsInv, WriteParent, At
<1>1. /\ parent' \in [Groups -> Groups \cup {NoGroup}]
      /\ \A g \in Groups : g # On(w) => parent'[g] = parent[g]
  BY <1>0 DEF WriteType
<1>2. RowsInv'
  <2>1. /\ write' \in [Writers -> WriteType] /\ commits' \in Nat
        /\ \A v \in Writers : write'[v].op = write[v].op
        /\ \A v \in Writers : write'[v].when <= commits'
        /\ \A v \in Writers : At(v, "graph")' => At(v, "graph")
    BY <1>0, CommitWrites
  <2> QED  BY <1>0, <1>1, <2>1 DEF RowsInv, Is
<1>3. ChecksInv'
  BY <1>0, CommitChecks DEF Commits
<1>4. ASSUME NEW k \in Keys, NEW a \in Values, NEW G \in SUBSET Groups, RightNow(k, a, G),
             On(w) \notin G
      PROVE  RightNow(k, a, G)'
  BY <1>0, <1>1, <1>4, Reparented
<1>5. EntriesInv'
  BY <1>0, <1>4, CommitEntries
<1> QED  BY <1>0, <1>2, <1>3, <1>5 DEF IInv

\* Taking the graph lock disturbs nothing.
LEMMA CheckParentStep ==
    ASSUME IInv, NEW w \in Writers, CheckParent(w)
    PROVE  IInv'
<1>0. /\ RowsInv /\ Exact(cache) /\ ChecksInv /\ EntriesInv /\ commits \in Nat
      /\ write \in [Writers -> WriteType] /\ write[w].at = "begin" /\ Is(w, Parented)
      /\ write' = [write EXCEPT ![w].at = "graph"]
      /\ UNCHANGED <<level, parent, live, cache, check, commits>>
  BY DEF IInv, RowsInv, CheckParent, Goes, At
<1>1. /\ write' \in [Writers -> WriteType]
      /\ \A v \in Writers : write'[v].op = write[v].op /\ write'[v].when = write[v].when
      /\ \A v \in Writers : v # w => write'[v].at = write[v].at
      /\ \A v \in Writers : At(v, "drop")' <=> At(v, "drop")
  BY <1>0 DEF WriteType, At
<1>2. RowsInv'
  BY <1>0, <1>1 DEF RowsInv, At, Is
<1>3. \A y : CheckOK(y)' <=> CheckOK(y)
  BY <1>0 DEF CheckOK, ChainOf, AncestorChain, Walks
<1>4. ChecksInv'
  BY <1>0, <1>3 DEF ChecksInv
<1>5. \A k, a, G : RightNow(k, a, G)' <=> RightNow(k, a, G)
  BY <1>0 DEF RightNow, Found, ChainOf, AncestorChain, Walks
<1>6. \A v \in Writers : /\ \A G : WillDrop(v, G)' <=> WillDrop(v, G)
                         /\ Is(v, Silent)' <=> Is(v, Silent)
  BY <1>1 DEF WillDrop, Is, On
<1>7. ASSUME NEW k \in Keys
      PROVE  cache'.entry[k].from <= commits' /\ EntryOK(k, cache.entry[k])'
  <2>1. cache.entry[k].from <= commits /\ EntryOK(k, cache.entry[k])
    BY <1>0 DEF EntriesInv
  <2> QED  BY <1>0, <1>1, <1>5, <1>6, <2>1 DEF EntryOK
<1>8. EntriesInv'
  BY <1>7 DEF EntriesInv
<1> QED  BY <1>0, <1>2, <1>4, <1>8 DEF IInv

\* A drop leaves no entry that depended on it.
LEMMA DropStep ==
    ASSUME IInv, NEW w \in Writers, Drop(w)
    PROVE  IInv'
<1>0. /\ RowsInv /\ Exact(cache) /\ ChecksInv /\ EntriesInv /\ commits \in Nat
      /\ write \in [Writers -> WriteType] /\ write[w] \in WriteType /\ write[w].at = "drop"
      /\ write' = [write EXCEPT ![w].at = "done"]
      /\ cache' = IF Is(w, {"link"}) THEN Empty ELSE InvalidateGroup(cache, On(w))
      /\ UNCHANGED <<level, parent, live, check, commits>>
  BY DEF IInv, RowsInv, Drop, Goes, At
<1>1. /\ write' \in [Writers -> WriteType]
      /\ \A v \in Writers : write'[v].op = write[v].op /\ write'[v].when = write[v].when
      /\ \A v \in Writers : v # w => write'[v].at = write[v].at
      /\ write'[w].at = "done"
  BY <1>0 DEF WriteType
<1>2. RowsInv'
  BY <1>0, <1>1 DEF RowsInv, At, Is
<1>3. \A y : CheckOK(y)' <=> CheckOK(y)
  BY <1>0 DEF CheckOK, ChainOf, AncestorChain, Walks
<1>4. ChecksInv'
  BY <1>0, <1>3 DEF ChecksInv
<1>5. /\ Exact(cache')
      /\ \A k \in Keys : \/ cache'.entry[k] = NoEntry
                         \/ Same(cache'.entry[k], cache.entry[k]) /\ ~WillDrop(w, cache.entry[k].groups)
  <2>1. CASE Is(w, {"link"})
    BY <1>0, <2>1, EmptyExact
  <2>2. CASE ~Is(w, {"link"})
    <3>1. cache' = InvalidateGroup(cache, On(w)) /\ On(w) \in Groups
      BY <1>0, <2>2 DEF On, WriteType
    <3> QED  BY <1>0, <2>2, <3>1, InvalidateExact DEF Keeps, WillDrop
  <2> QED  BY <2>1, <2>2
<1>6. \A k, a, G : RightNow(k, a, G)' <=> RightNow(k, a, G)
  BY <1>0 DEF RightNow, Found, ChainOf, AncestorChain, Walks
<1>7. \A v \in Writers : Is(v, Silent)' <=> Is(v, Silent)
  BY <1>1 DEF Is
<1>8. \A v \in Writers : v # w => \A G : WillDrop(v, G)' <=> WillDrop(v, G)
  BY <1>1 DEF WillDrop, At, Is, On
<1>9. ASSUME NEW k \in Keys
      PROVE  cache'.entry[k].from <= commits' /\ EntryOK(k, cache.entry[k])'
  <2>1. cache.entry[k].from <= commits /\ EntryOK(k, cache.entry[k])
    BY <1>0 DEF EntriesInv
  <2>2. CASE cache'.entry[k] = NoEntry
    BY <1>0, <2>2, NoEntryType DEF EntryOK
  <2>3. CASE Same(cache'.entry[k], cache.entry[k]) /\ ~WillDrop(w, cache.entry[k].groups)
    BY <1>0, <1>1, <1>6, <1>7, <1>8, <2>1, <2>3 DEF Same, EntryOK
  <2> QED  BY <1>5, <2>2, <2>3
<1>10. EntriesInv'
  BY <1>9 DEF EntriesInv
<1> QED  BY <1>2, <1>4, <1>5, <1>10 DEF IInv

-----------------------------------------------------------------------------
(* The theorems about the cache                                            *)

\* Every step keeps the invariant.
LEMMA StepIInv == IInv /\ [Next]_vars => IInv'
<1> SUFFICES ASSUME IInv, [Next]_vars PROVE IInv'
  OBVIOUS
<1>1. ASSUME NEW c \in Checkers, Check(c) PROVE IInv'
  BY <1>1, BeginCheckStep, GetCachedStep, LoadChainStep, WalkLevelStep, StoreAnswerStep DEF Check
<1>2. ASSUME NEW w \in Writers, Write(w) PROVE IInv'
  BY <1>2, WriteLevelStep, WriteLiveStep, CheckParentStep, WriteParentStep, DropStep DEF Write
<1>3. CASE Tick \/ Sweep
  BY <1>3, TimeStep
<1>4. CASE UNCHANGED vars
  <2>1. UNCHANGED <<level, parent, live, cache, check, write, commits>>
    BY <1>4 DEF vars
  <2>2. Keeps(cache, cache')
    BY <2>1 DEF Keeps, Same
  <2>3. EntriesInv'
    BY <2>1, <2>2, KeepsEntries DEF IInv, RowsInv
  <2>4. RowsInv' /\ Exact(cache)'
    BY <2>1 DEF IInv, RowsInv, At, Is
  <2>5. \A y : CheckOK(y)' <=> CheckOK(y)
    BY <2>1 DEF CheckOK, ChainOf, AncestorChain, Walks
  <2>6. ChecksInv'
    BY <2>1, <2>5 DEF IInv, ChecksInv
  <2> QED  BY <2>1, <2>3, <2>4, <2>6 DEF IInv
<1> QED  BY <1>1, <1>2, <1>3, <1>4 DEF Next

\* The sets of the index hold exactly the keys of the entries that depend on
\* their groups, for any groups, keys, cap and order of use (permissionCache.ts).
THEOREM IndexIsExact == Spec => []IndexExact
<1>1. IInv => IndexExact
  BY DEF IInv, Exact, IndexExact
<1> QED  BY <1>1, InitIInv, StepIInv, PTL DEF Spec

\* A stale answer is about to be dropped, or follows a write that drops nothing,
\* or was computed across a commit (routes/permissions.ts).
THEOREM StaleHasCause == Spec => []StaleForCause
<1> QED  BY CausesKnown, InitIInv, StepIInv, PTL DEF Spec

-----------------------------------------------------------------------------
(* The order of use: each entry once, within the cap                       *)

\* The indices of what is left of a sequence, and the place of each.
Left(s, S) == {i \in DOMAIN s : s[i] \notin S}
Place(s, S) == [i \in Left(s, S) |-> Cardinality({j \in Left(s, S) : j <= i})]

\* The places of a set of indices are the first ones, each once.
LEMMA PlaceBijection ==
    ASSUME NEW X, NEW s \in Seq(X), NEW S
    PROVE  /\ IsFiniteSet(Left(s, S)) /\ Cardinality(Left(s, S)) \in 0 .. Len(s)
           /\ Place(s, S) \in Bijection(Left(s, S), 1 .. Cardinality(Left(s, S)))
           /\ \A i \in DOMAIN s : s[i] \in S => Cardinality(Left(s, S)) < Len(s)
<1> DEFINE K == Left(s, S)
           N == Cardinality(K)
           T == 1 .. N
           Upto(i) == {j \in K : j <= i}
<1>1. IsFiniteSet(1 .. Len(s)) /\ Cardinality(1 .. Len(s)) = Len(s) /\ Len(s) \in Nat
  <2>1. Len(s) \in Nat /\ Len(s) \in Int /\ 1 \in Int
    OBVIOUS
  <2>2. IsFiniteSet(1 .. Len(s)) /\ Cardinality(1 .. Len(s)) = IF 1 > Len(s) THEN 0 ELSE Len(s) - 1 + 1
    BY <2>1, FS_Interval
  <2>. QED
    BY <2>1, <2>2
<1>2. K \subseteq 1 .. Len(s)
  BY DEF Left
<1>3. IsFiniteSet(K) /\ N \in Nat /\ N <= Len(s)
  BY <1>1, <1>2, FS_Subset, FS_CardinalityType
<1>4. ASSUME NEW i \in DOMAIN s, s[i] \in S
      PROVE  N < Len(s)
  <2>1. K # 1 .. Len(s)
    BY <1>4 DEF Left
  <2>. QED
    BY <1>1, <1>2, <1>3, <2>1, FS_Subset
<1>5. ASSUME NEW i \in K
      PROVE  /\ Upto(i) \in SUBSET K /\ IsFiniteSet(Upto(i)) /\ Cardinality(Upto(i)) \in T
             /\ Place(s, S)[i] = Cardinality(Upto(i))
  <2>1. Upto(i) \in SUBSET K /\ i \in Upto(i)
    BY <1>2
  <2>2. IsFiniteSet(Upto(i)) /\ Cardinality(Upto(i)) <= N /\ Cardinality(Upto(i)) \in Nat
    BY <1>3, <2>1, FS_Subset, FS_CardinalityType
  <2>3. Cardinality(Upto(i)) # 0
    BY <2>1, <2>2, FS_EmptySet
  <2>4. Place(s, S)[i] = Cardinality(Upto(i))
    BY DEF Place
  <2>. QED
    BY <1>3, <2>1, <2>2, <2>3, <2>4
<1>6. ASSUME NEW i \in K, NEW j \in K, i < j
      PROVE  Cardinality(Upto(i)) # Cardinality(Upto(j))
  <2>1. Upto(i) \in SUBSET Upto(j) /\ j \in Upto(j) /\ j \notin Upto(i)
    BY <1>2, <1>6
  <2>2. IsFiniteSet(Upto(j))
    BY <1>5
  <2>. QED
    BY <2>1, <2>2, FS_Subset
<1>7. Place(s, S) \in [K -> T]
  <2>1. Place(s, S) = [i \in K |-> Cardinality(Upto(i))]
    BY DEF Place
  <2>. QED
    BY <1>5, <2>1
<1>8. \A i, j \in K : Place(s, S)[i] = Place(s, S)[j] => i = j
  <2>1. SUFFICES ASSUME NEW i \in K, NEW j \in K, Place(s, S)[i] = Place(s, S)[j], i # j
                 PROVE  FALSE
    OBVIOUS
  <2>2. i < j \/ j < i
    BY <1>2, <2>1
  <2>3. Cardinality(Upto(i)) = Cardinality(Upto(j))
    BY <1>5, <2>1
  <2>. QED
    BY <1>6, <2>2, <2>3
<1>9. Place(s, S) \in Injection(K, T)
  BY <1>7, <1>8 DEF Injection, IsInjective
<1>10. IsFiniteSet(T) /\ Cardinality(T) = N
  BY <1>3, FS_Interval
<1>11. Place(s, S) \in Surjection(K, T)
  BY <1>9, <1>10, FS_Injection
<1>. QED
  BY <1>3, <1>4, <1>9, <1>11 DEF Bijection

Once(s) == \A i, j \in DOMAIN s : s[i] = s[j] => i = j
Used(s) == {s[i] : i \in DOMAIN s}

\* What is left is there once, in no more places, and in fewer if something goes.
LEMMA WithoutIs ==
    ASSUME NEW X, NEW s \in Seq(X), Once(s), NEW S
    PROVE  /\ Without(s, S) \in Seq(X) /\ Once(Without(s, S)) /\ Used(Without(s, S)) = Used(s) \ S
           /\ Len(Without(s, S)) <= Len(s)
           /\ \A i \in DOMAIN s : s[i] \in S => Len(Without(s, S)) < Len(s)
<1> DEFINE K == Left(s, S)
           N == Cardinality(K)
           f == Place(s, S)
           Index(n) == CHOOSE i \in K : Cardinality({j \in K : j <= i}) = n
           u == Without(s, S)
<1>1. N \in 0 .. Len(s) /\ f \in Bijection(K, 1 .. N) /\ Len(s) \in Nat
      /\ \A i \in DOMAIN s : s[i] \in S => N < Len(s)
  BY PlaceBijection
<1>2. u = [n \in 1 .. N |-> s[Index(n)]]
  BY DEF Without, Left
<1>3. ASSUME NEW n \in 1 .. N PROVE Index(n) \in K /\ f[Index(n)] = n
  <2>1. \A i \in K : f[i] = Cardinality({j \in K : j <= i})
    BY DEF Place
  <2>2. \E i \in K : f[i] = n
    BY <1>1 DEF Bijection, Surjection
  <2>. QED
    BY <2>1, <2>2
<1>4. ASSUME NEW i \in K PROVE f[i] \in 1 .. N /\ Index(f[i]) = i
  <2>1. PICK n : n = f[i]
    OBVIOUS
  <2>2. n \in 1 .. N
    BY <1>1, <2>1 DEF Bijection, Surjection
  <2>3. Index(n) \in K /\ f[Index(n)] = n
    BY <1>3, <2>2
  <2>4. Index(n) = i
    BY <1>1, <2>1, <2>3 DEF Bijection, Injection, IsInjective
  <2>. QED
    BY <2>1, <2>2, <2>4
<1>5. K \subseteq DOMAIN s /\ (\A i \in DOMAIN s : i \in K <=> s[i] \notin S)
      /\ \A i \in DOMAIN s : s[i] \in X
  BY DEF Left
<1>6. u \in Seq(X) /\ Len(u) = N /\ DOMAIN u = 1 .. N
  <2>1. u \in [1 .. N -> X]
    BY <1>2, <1>3, <1>5
  <2>. QED
    BY <1>1, <2>1
<1> HIDE DEF u, f, K, N, Index
<1>7. Once(u)
  <2>1. SUFFICES ASSUME NEW m \in 1 .. N, NEW n \in 1 .. N, u[m] = u[n]
                 PROVE  m = n
    BY <1>6 DEF Once
  <2>2. s[Index(m)] = s[Index(n)]
    BY <1>2, <2>1
  <2>3. Index(m) = Index(n)
    BY <1>3, <1>5, <2>2 DEF Once
  <2>. QED
    BY <1>3, <2>3
<1>8. Used(u) = Used(s) \ S
  <2>1. ASSUME NEW x \in Used(u) PROVE x \in Used(s) \ S
    BY <1>2, <1>3, <1>5, <1>6, <2>1 DEF Used
  <2>2. ASSUME NEW x \in Used(s), x \notin S PROVE x \in Used(u)
    <3>1. PICK i \in DOMAIN s : x = s[i]
      BY DEF Used
    <3>2. i \in K
      BY <1>5, <2>2, <3>1
    <3>3. u[f[i]] = x /\ f[i] \in 1 .. N
      BY <1>2, <1>4, <3>1, <3>2
    <3>. QED
      BY <1>6, <3>3 DEF Used
  <2>. QED
    BY <2>1, <2>2
<1>. QED
  BY <1>1, <1>6, <1>7, <1>8 DEF u

\* The order of use has each key that is stored, and no other.
InOrder(c) ==
    /\ c.used \in Seq(Keys) /\ Once(c.used)
    /\ \A k \in Keys : k \in Used(c.used) <=> Stored(c, k)
Capped(c) == InOrder(c) /\ Len(c.used) <= MaxEntries

LEMMA EmptyCapped == Capped(Empty)
<1>1. Empty.used = <<>> /\ \A k \in Keys : ~Stored(Empty, k)
  BY DEF Empty, Stored, NoEntry, Entry
<1>. QED
  BY <1>1, CacheAssumption DEF Capped, InOrder, Once, Used

LEMMA EvictInOrder ==
    ASSUME NEW c, Exact(c), InOrder(c), NEW S
    PROVE  /\ InOrder(Evict(c, S)) /\ Len(Evict(c, S).used) <= Len(c.used)
           /\ \A i \in DOMAIN c.used : c.used[i] \in S => Len(Evict(c, S).used) < Len(c.used)
<1>1. c.used \in Seq(Keys) /\ Once(c.used) /\ \A k \in Keys : k \in Used(c.used) <=> Stored(c, k)
  BY DEF InOrder
<1>2. PICK u : u = Evict(c, S).used
  OBVIOUS
<1>3. u = Without(c.used, S)
  BY <1>2 DEF Evict
<1>4. /\ u \in Seq(Keys) /\ Once(u) /\ Used(u) = Used(c.used) \ S /\ Len(u) <= Len(c.used)
      /\ \A i \in DOMAIN c.used : c.used[i] \in S => Len(u) < Len(c.used)
  BY <1>1, <1>3, WithoutIs
<1>5. \A k \in Keys : Evict(c, S).entry[k] = IF k \in S THEN NoEntry ELSE c.entry[k]
  BY EvictExact
<1>6. \A k \in Keys : Stored(Evict(c, S), k) <=> k \notin S /\ Stored(c, k)
  BY <1>5, NoEntryType DEF Stored
<1>7. \A k \in Keys : k \in Used(u) <=> Stored(Evict(c, S), k)
  BY <1>1, <1>4, <1>6
<1>. QED
  BY <1>2, <1>4, <1>7 DEF InOrder

LEMMA EvictCapped ==
    ASSUME NEW c, Exact(c), Capped(c), NEW S
    PROVE  Capped(Evict(c, S))
<1>1. InOrder(Evict(c, S)) /\ Len(Evict(c, S).used) <= Len(c.used) /\ Len(c.used) <= MaxEntries
  BY EvictInOrder DEF Capped
<1>2. Len(Evict(c, S).used) \in Nat /\ Len(c.used) \in Nat /\ MaxEntries \in Nat
  BY <1>1, CacheAssumption DEF InOrder, Capped
<1>. QED
  BY <1>1, <1>2 DEF Capped

\* A key that is not there, put at the end.
LEMMA AppendOnce ==
    ASSUME NEW s \in Seq(Keys), Once(s), NEW k \in Keys, k \notin Used(s), NEW u, u = Append(s, k)
    PROVE  u \in Seq(Keys) /\ Once(u) /\ Used(u) = Used(s) \cup {k} /\ Len(u) = Len(s) + 1
<1>1. /\ u \in Seq(Keys) /\ Len(u) = Len(s) + 1 /\ Len(s) \in Nat /\ u[Len(s) + 1] = k
      /\ \A i \in 1 .. Len(s) : u[i] = s[i]
      /\ DOMAIN u = 1 .. Len(s) + 1 /\ DOMAIN s = 1 .. Len(s)
  OBVIOUS
<1>2. \A i \in 1 .. Len(s) : s[i] \in Used(s)
  BY <1>1 DEF Used
<1>3. \A i \in 1 .. Len(s) + 1 : i \in 1 .. Len(s) \/ i = Len(s) + 1
  BY <1>1
<1>4. Once(u)
  BY <1>1, <1>2, <1>3 DEF Once
<1>5. ASSUME NEW x PROVE x \in Used(u) <=> x \in Used(s) \cup {k}
  <2>1. x \in Used(u) <=> \E i \in 1 .. Len(s) + 1 : x = u[i]
    BY <1>1 DEF Used
  <2>2. x \in Used(s) <=> \E i \in 1 .. Len(s) : x = s[i]
    BY <1>1 DEF Used
  <2>3. Len(s) + 1 \in 1 .. Len(s) + 1 /\ \A i \in 1 .. Len(s) : i \in 1 .. Len(s) + 1
    BY <1>1
  <2>. QED
    BY <1>1, <1>3, <2>1, <2>2, <2>3
<1>. QED
  BY <1>1, <1>4, <1>5

LEMMA HitCapped ==
    ASSUME NEW c, Exact(c), Capped(c), NEW k \in Keys, Stored(c, k)
    PROVE  Capped(Hit(c, k))
<1>1. PICK s, u, h : s = Without(c.used, {k}) /\ u = Append(s, k) /\ h = Hit(c, k)
  OBVIOUS
<1>2. c.used \in Seq(Keys) /\ Once(c.used) /\ (\A l \in Keys : l \in Used(c.used) <=> Stored(c, l))
      /\ Len(c.used) <= MaxEntries
  BY DEF Capped, InOrder
<1>3. s \in Seq(Keys) /\ Once(s) /\ Used(s) = Used(c.used) \ {k}
      /\ \A i \in DOMAIN c.used : c.used[i] \in {k} => Len(s) < Len(c.used)
  BY <1>1, <1>2, WithoutIs
<1>4. Len(s) < Len(c.used)
  BY <1>2, <1>3 DEF Used
<1>5. u \in Seq(Keys) /\ Once(u) /\ Used(u) = Used(s) \cup {k} /\ Len(u) = Len(s) + 1
  BY <1>1, <1>3, AppendOnce
<1>6. h.used = u /\ h.entry = c.entry
  <2>1. c = [entry |-> c.entry, index |-> c.index, used |-> c.used]
    BY DEF Exact
  <2>2. \A v : [c EXCEPT !.used = v] = [entry |-> c.entry, index |-> c.index, used |-> v]
    BY <2>1
  <2>. QED
    BY <1>1, <2>2 DEF Hit
<1>7. \A l \in Keys : l \in Used(u) <=> Stored(h, l)
  BY <1>2, <1>3, <1>5, <1>6 DEF Stored
<1>8. Len(u) <= MaxEntries
  <2>1. Len(s) \in Nat /\ Len(c.used) \in Nat /\ MaxEntries \in Nat
    BY <1>2, <1>3, CacheAssumption
  <2>. QED
    BY <1>2, <1>4, <1>5, <2>1
<1>. QED
  BY <1>1, <1>5, <1>6, <1>7, <1>8 DEF Capped, InOrder

LEMMA OlderCapped ==
    ASSUME NEW c, Exact(c), Capped(c)
    PROVE  Capped(Older(c))
<1>1. Older(c).used = c.used
  <2>1. c = [entry |-> c.entry, index |-> c.index, used |-> c.used]
    BY DEF Exact
  <2>2. \A e : [c EXCEPT !.entry = e] = [entry |-> e, index |-> c.index, used |-> c.used]
    BY <2>1
  <2>3. \E e : Older(c) = [c EXCEPT !.entry = e]
    BY DEF Older
  <2>. QED
    BY <2>2, <2>3
<1>2. \A k \in Keys : Older(c).entry[k].groups = c.entry[k].groups
  <2>1. Older(c).entry = [k \in Keys |-> IF Stored(c, k) /\ ~Expired(c, k)
                                         THEN [c.entry[k] EXCEPT !.age = @ + 1] ELSE c.entry[k]]
    BY DEF Exact, Older
  <2>2. \A k \in Keys : c.entry[k] \in EntryType
    BY DEF Exact
  <2>3. \A e \in EntryType : [e EXCEPT !.age = @ + 1].groups = e.groups
    BY DEF EntryType
  <2>. QED
    BY <2>1, <2>2, <2>3
<1>. QED
  BY <1>1, <1>2 DEF Capped, InOrder, Stored

\* A put goes past the cap by one at most, and then the first one goes.
LEMMA PutCapped ==
    ASSUME NEW c, Exact(c), Capped(c), NEW k \in Keys, NEW e \in EntryType, e.groups # {}
    PROVE  Capped(Put(c, k, e))
<1>1. PICK b, d : b = Evict(c, {k}) /\ d = File(b, k, e)
  OBVIOUS
<1>2. Exact(b) /\ b.entry[k] = NoEntry
  BY <1>1, EvictExact
<1>3. b.used \in Seq(Keys) /\ Once(b.used) /\ (\A l \in Keys : l \in Used(b.used) <=> Stored(b, l))
      /\ Len(b.used) <= MaxEntries
  BY <1>1, EvictCapped DEF Capped, InOrder
<1>4. ~Stored(b, k)
  BY <1>2, NoEntryType DEF Stored
<1>5. PICK u : u = Append(b.used, k)
  OBVIOUS
<1>6. u \in Seq(Keys) /\ Once(u) /\ Used(u) = Used(b.used) \cup {k} /\ Len(u) = Len(b.used) + 1
  BY <1>3, <1>4, <1>5, AppendOnce
<1>7. d.used = u /\ d.entry = [b.entry EXCEPT ![k] = e]
  BY <1>1, <1>5 DEF File
<1>8. \A l \in Keys : d.entry[l] = IF l = k THEN e ELSE b.entry[l]
  BY <1>2, <1>7 DEF Exact
<1>9. \A l \in Keys : l \in Used(u) <=> Stored(d, l)
  BY <1>3, <1>6, <1>8 DEF Stored
<1>10. InOrder(d) /\ Len(d.used) <= MaxEntries + 1
  BY <1>3, <1>6, <1>7, <1>9, CacheAssumption DEF InOrder
<1>11. Exact(d)
  <2>1. d = [entry |-> d.entry, index |-> d.index, used |-> d.used]
        /\ d.index = [g \in Groups |-> IF g \in e.groups THEN b.index[g] \cup {k} ELSE b.index[g]]
    BY <1>1 DEF File
  <2>2. ASSUME NEW g \in Groups PROVE d.index[g] = {l \in Keys : g \in d.entry[l].groups}
    <3>1. b.index[g] = {l \in Keys : g \in b.entry[l].groups}
      BY <1>2 DEF Exact
    <3>2. d.index[g] = IF g \in e.groups THEN b.index[g] \cup {k} ELSE b.index[g]
      BY <2>1
    <3>3. k \notin b.index[g]
      BY <1>2, <3>1, NoEntryType
    <3>4. \A l \in Keys : g \in d.entry[l].groups <=> IF l = k THEN g \in e.groups ELSE g \in b.entry[l].groups
      BY <1>8
    <3>. QED
      BY <3>1, <3>2, <3>3, <3>4
  <2>3. d.index = [g \in Groups |-> {l \in Keys : g \in d.entry[l].groups}]
    BY <2>1, <2>2
  <2>4. d.entry \in [Keys -> EntryType]
    BY <1>2, <1>7 DEF Exact
  <2>. QED
    BY <2>1, <2>3, <2>4 DEF Exact
<1>12. Capped(Trim(d))
  <2>1. CASE Len(d.used) > MaxEntries
    <3>1. Trim(d) = Evict(d, {Head(d.used)})
      BY <2>1 DEF Trim
    <3>2. Len(d.used) \in Nat /\ MaxEntries \in Nat /\ 1 \in DOMAIN d.used /\ d.used[1] = Head(d.used)
      BY <1>6, <1>7, <2>1, CacheAssumption
    <3>3. InOrder(Trim(d)) /\ Len(Trim(d).used) < Len(d.used)
      BY <1>10, <1>11, <3>1, <3>2, EvictInOrder
    <3>4. Len(Trim(d).used) \in Nat
      BY <3>3 DEF InOrder
    <3>. QED
      BY <1>10, <3>2, <3>3, <3>4 DEF Capped
  <2>2. CASE ~(Len(d.used) > MaxEntries)
    <3>1. Len(d.used) \in Nat /\ MaxEntries \in Nat
      BY <1>6, <1>7, CacheAssumption
    <3>. QED
      BY <1>10, <2>2, <3>1 DEF Capped, Trim
  <2>. QED
    BY <2>1, <2>2
<1>. QED
  BY <1>1, <1>12 DEF Put

LEMMA InvalidateCapped ==
    ASSUME NEW c, Exact(c), Capped(c), NEW g
    PROVE  Capped(InvalidateGroup(c, g))
<1>1. PICK d : d = Evict(c, c.index[g])
  OBVIOUS
<1>2. Exact(d) /\ Capped(d)
  BY <1>1, EvictExact, EvictCapped
<1>3. InvalidateGroup(c, g).used = d.used /\ InvalidateGroup(c, g).entry = d.entry
  <2>1. d = [entry |-> d.entry, index |-> d.index, used |-> d.used]
    BY <1>2 DEF Exact
  <2>2. \A x : [d EXCEPT !.index = x] = [entry |-> d.entry, index |-> x, used |-> d.used]
    BY <2>1
  <2>3. InvalidateGroup(c, g) = [d EXCEPT !.index = [d.index EXCEPT ![g] = {}]]
    BY <1>1 DEF InvalidateGroup
  <2>. QED
    BY <2>2, <2>3
<1>. QED
  BY <1>2, <1>3 DEF Capped, InOrder, Stored

\* Each commit is of a writer of its own.
Committed == {w \in Writers : write[w].at \in {"drop", "done"}}
Counted == commits = Cardinality(Committed)

LEMMA CappedStep ==
    ASSUME IInv, Capped(cache), [Next]_vars
    PROVE  Capped(cache')
<1>1. Exact(cache) /\ \A c \in Checkers : CheckOK(check[c])
  BY DEF IInv, ChecksInv
<1>2. ASSUME NEW c \in Checkers, Check(c) PROVE Capped(cache')
  <2>1. CASE BeginCheck(c) \/ LoadChain(c)
    BY <2>1 DEF BeginCheck, LoadChain
  <2>2. CASE GetCached(c)
    <3>1. Key(c) \in Keys
      BY <1>1, <2>2 DEF GetCached, CheckOK, CheckType, Key
    <3>2. \/ Stored(cache, Key(c)) /\ cache' = Hit(cache, Key(c))
          \/ cache' = Evict(cache, {Key(c)})
          \/ cache' = cache
      BY <2>2 DEF GetCached
    <3>. QED
      BY <1>1, <3>1, <3>2, HitCapped, EvictCapped
  <2>4. CASE WalkLevel(c)
    BY <2>4 DEF WalkLevel
  <2>3. CASE StoreAnswer(c)
    <3>1. PICK k, e, y, f, z :
              /\ k = Key(c) /\ e = Entry(y, Consulted(c), f, z)
              /\ cache' = Put(cache, k, e)
              /\ y \in Values /\ f \in Nat /\ z \in BOOLEAN
      <4>1. PICK chain, g, value, via :
              /\ chain = check[c].chain /\ g = chain[check[c].step]
              /\ value = (IF chain = <<>> THEN "open" ELSE check[c].memo[g])
              /\ via = (IF Key(c)[2] /\ value # "open" THEN g ELSE NoGroup)
              /\ cache' = Put(cache, Key(c), Entry(Answer(value, via), Consulted(c), check[c].from, check[c].from # commits))
        BY <2>3 DEF StoreAnswer, Said, Reached
      <4>2. /\ check[c] \in CheckType /\ chain \in Seq(Groups) /\ check[c].at = "store"
            /\ chain # <<>> => check[c].step \in 1 .. Len(chain) /\ Decided(check[c])
        BY <1>1, <2>3, <4>1 DEF StoreAnswer, CheckOK, CheckType, Walking
      <4>3. chain # <<>> => g \in Groups
        BY <4>1, <4>2
      <4>4. value \in Levels
        BY <4>1, <4>2 DEF Decided, Levels
      <4>5. Answer(value, via) \in Values
        BY <4>1, <4>3, <4>4 DEF Answer, Values
      <4>6. check[c].from \in Nat
        BY <4>2 DEF CheckType
      <4>. QED
        BY <4>1, <4>5, <4>6
    <3>2. check[c] \in CheckType /\ check[c].at = "store" /\ k \in Keys
      <4>1. check[c] \in CheckType /\ check[c].at = "store" /\ check[c].keys # <<>>
        BY <1>1, <2>3 DEF StoreAnswer, CheckOK
      <4>2. check[c].keys \in Seq(Keys)
        BY <4>1 DEF CheckType
      <4>. QED
        BY <3>1, <4>1, <4>2 DEF Key
    <3>3. Consulted(c) \subseteq Groups /\ Consulted(c) # {}
      <4>1. check[c].chain \in Seq(Groups) /\ (check[c].chain = <<>> \/ check[c].step \in 1 .. Len(check[c].chain))
        BY <1>1, <3>2 DEF CheckOK, CheckType, Walking
      <4>2. Key(c)[1] \in Groups
        <5>1. \A x \in Groups \X BOOLEAN : x[1] \in Groups
          OBVIOUS
        <5>. QED
          BY <3>1, <3>2, <5>1 DEF Keys
      <4>3. CASE check[c].chain = <<>>
        BY <4>2, <4>3 DEF Consulted
      <4>4. CASE check[c].chain # <<>>
        <5>1. Consulted(c) = {check[c].chain[i] : i \in 1 .. check[c].step}
          BY <4>4 DEF Consulted
        <5>2. PICK s, n : s = check[c].chain /\ n = check[c].step
          OBVIOUS
        <5>3. s \in Seq(Groups) /\ n \in 1 .. Len(s) /\ Len(s) \in Nat
          BY <4>1, <4>4, <5>2
        <5>4. n \in 1 .. n /\ \A i \in 1 .. n : s[i] \in Groups
          BY <5>3
        <5>. QED
          BY <5>1, <5>2, <5>4
      <4>. QED
        BY <4>3, <4>4
    <3>4. e \in EntryType /\ e.groups # {}
      <4>1. e = [answer |-> y, groups |-> Consulted(c), age |-> 0, from |-> f, raced |-> z]
        BY <3>1 DEF Entry
      <4>. QED
        BY <3>1, <3>3, <4>1 DEF EntryType
    <3>. QED
      BY <1>1, <3>1, <3>2, <3>4, PutCapped
  <2>. QED
    BY <1>2, <2>1, <2>2, <2>3, <2>4 DEF Check
<1>3. ASSUME NEW w \in Writers, Write(w) PROVE Capped(cache')
  <2>1. cache' = cache \/ cache' = Empty \/ cache' = InvalidateGroup(cache, On(w))
    BY <1>3 DEF Write, WriteLevel, WriteLive, CheckParent, WriteParent, Drop
  <2>. QED
    BY <1>1, <2>1, EmptyCapped, InvalidateCapped
<1>4. CASE Tick \/ Sweep
  BY <1>1, <1>4, OlderCapped, EvictCapped DEF Tick, Sweep, SweepExpired
<1>5. CASE UNCHANGED vars
  BY <1>5 DEF vars
<1>. QED
  BY <1>2, <1>3, <1>4, <1>5 DEF Next

LEMMA CountedStep ==
    ASSUME IInv, Counted, [Next]_vars
    PROVE  Counted'
<1>1. write \in [Writers -> WriteType] /\ RowsInv /\ IsFiniteSet(Writers)
  BY ChecksAssumption DEF IInv, RowsInv
<1>2. IsFiniteSet(Committed)
  BY <1>1, FS_Subset DEF Committed
<1>3. ASSUME NEW w \in Writers, Commits(w), write[w].at \in {"begin", "graph"} PROVE Counted'
  <2>1. /\ commits' = commits + 1 /\ \A v \in Writers \ {w} : write'[v] = write[v]
        /\ write'[w].at \in {"drop", "done"}
    BY <1>1, <1>3, CommitWrites
  <2>2. Committed' = Committed \cup {w} /\ w \notin Committed
    BY <1>3, <2>1 DEF Committed
  <2>3. Cardinality(Committed \cup {w}) = Cardinality(Committed) + 1
    BY <1>2, <2>2, FS_AddElement
  <2>. QED
    BY <2>1, <2>2, <2>3 DEF Counted
<1>4. ASSUME commits' = commits, Committed' = Committed PROVE Counted'
  BY <1>4 DEF Counted
<1>5. ASSUME NEW w \in Writers, Write(w) PROVE Counted'
  <2>1. CASE WriteLevel(w) \/ WriteLive(w) \/ WriteParent(w)
    BY <1>3, <2>1 DEF WriteLevel, WriteLive, WriteParent, At
  <2>2. CASE CheckParent(w) \/ Drop(w)
    <3>1. PICK stage : /\ write' = [write EXCEPT ![w].at = stage] /\ commits' = commits
                       /\ stage \in {"drop", "done"} <=> write[w].at \in {"drop", "done"}
      BY <2>2 DEF CheckParent, Drop, Goes, At
    <3>2. \A v \in Writers : write'[v].at = IF v = w THEN stage ELSE write[v].at
      BY <1>1, <3>1 DEF WriteType
    <3>3. Committed' = Committed
      BY <3>1, <3>2 DEF Committed
    <3>. QED
      BY <1>4, <3>1, <3>3
  <2>. QED
    BY <1>5, <2>1, <2>2 DEF Write
<1>6. CASE UNCHANGED <<write, commits>>
  BY <1>4, <1>6 DEF Committed
<1>7. ASSUME NEW c \in Checkers, Check(c) PROVE UNCHANGED <<write, commits>>
  BY <1>7 DEF Check, BeginCheck, GetCached, LoadChain, WalkLevel, StoreAnswer, Stays
<1>8. CASE Tick \/ Sweep \/ UNCHANGED vars
  BY <1>6, <1>8 DEF Tick, Sweep, vars
<1>. QED
  BY <1>5, <1>6, <1>7, <1>8 DEF Next

LEMMA TypesHold ==
    ASSUME IInv, Capped(cache), Counted
    PROVE  TypeOK
<1>1. /\ {k \in Keys : Stored(cache, k)} = {cache.used[i] : i \in DOMAIN cache.used}
      /\ Cardinality({k \in Keys : Stored(cache, k)}) = Len(cache.used)
  <2>1. PICK u, S : u = cache.used /\ S = Used(u)
    OBVIOUS
  <2>2. u \in Seq(Keys) /\ Once(u) /\ \A k \in Keys : k \in S <=> Stored(cache, k)
    BY <2>1 DEF Capped, InOrder
  <2>3. DOMAIN u = 1 .. Len(u) /\ Len(u) \in Nat /\ \A i \in 1 .. Len(u) : u[i] \in Keys
    BY <2>2
  <2>4. S = {k \in Keys : Stored(cache, k)}
    BY <2>1, <2>2, <2>3 DEF Used
  <2>5. u \in Bijection(1 .. Len(u), S)
    BY <2>1, <2>2, <2>3 DEF Used, Once, Bijection, Injection, Surjection, IsInjective
  <2>6. IsFiniteSet(1 .. Len(u)) /\ Cardinality(1 .. Len(u)) = Len(u)
    <3>1. IsFiniteSet(1 .. Len(u)) /\ Cardinality(1 .. Len(u)) = IF 1 > Len(u) THEN 0 ELSE Len(u) - 1 + 1
      BY <2>3, FS_Interval
    <3>. QED
      BY <2>3, <3>1
  <2>7. Cardinality(S) = Len(u)
    BY <2>5, <2>6, FS_Bijection DEF ExistsBijection
  <2>. QED
    BY <2>1, <2>4, <2>7 DEF Used
<1>2. Len(cache.used) <= MaxEntries
  BY DEF Capped
<1>3. \A c \in Checkers : /\ check[c].at \in {"idle", "get", "chain", "walk", "store"}
                          /\ check[c].at \in {"walk", "store"} /\ check[c].chain # <<>> =>
                                check[c].step \in DOMAIN check[c].chain
  BY DEF IInv, ChecksInv, CheckOK, CheckType, Walking
<1>4. \A w \in Writers : write[w].at \in {"begin", "graph", "drop", "done"} /\ write[w].op.kind \in Kinds
  BY DEF IInv, RowsInv, WriteType
<1>5. commits \in 0 .. Cardinality(Writers)
  <2>1. IsFiniteSet(Writers) /\ Committed \in SUBSET Writers
    BY ChecksAssumption DEF Committed
  <2>2. Cardinality(Committed) <= Cardinality(Writers) /\ Cardinality(Writers) \in Nat
    BY <2>1, FS_Subset, FS_CardinalityType
  <2>. QED
    BY <2>2 DEF Counted, IInv, RowsInv
<1>. QED
  BY <1>1, <1>2, <1>3, <1>4, <1>5 DEF TypeOK, IInv, RowsInv

\* The order of use has every entry of the cache once, and never more than its
\* cap, whatever is checked, written and swept (permissionCache.ts).
THEOREM CacheCapped == Spec => []TypeOK
<1>1. Init => Capped(cache) /\ Counted
  <2>1. Init => Counted
    <3>1. Init => Committed = {} /\ commits = 0
      BY DEF Init, Committed
    <3>. QED
      BY <3>1, FS_EmptySet DEF Counted
  <2>. QED
    BY <2>1, EmptyCapped DEF Init
<1>2. IInv /\ Capped(cache) /\ Counted /\ [Next]_vars => Capped(cache)' /\ Counted'
  BY CappedStep, CountedStep
<1>3. IInv /\ Capped(cache) /\ Counted => TypeOK
  BY TypesHold
<1>. QED
  BY <1>1, <1>2, <1>3, InitIInv, StepIInv, PTL DEF Spec

-----------------------------------------------------------------------------
(* Cycles of parents                                                       *)

Closed(par, g, p) == \E n \in 1 .. MaxDepth + 1 : \E s \in Path(par, p, n, Groups) : s[n] = g

\* Closes is Closed, of the graph as it is.
LEMMA ClosesIs == \A g, p : Closes(g, p) <=> Closed(parent, g, p)
  BY DEF Closes, Closed, Walks, Path

\* A walk that comes to g first at its m-th group closes a cycle by any graph
\* with the same parents elsewhere.
LEMMA FirstVisit ==
    ASSUME NEW par, NEW g \in Groups, NEW p, NEW n \in 1 .. MaxDepth + 1,
           NEW t \in Path([par EXCEPT ![g] = p], p, n, Groups), t[n] = g,
           par \in [Groups -> Groups \cup {NoGroup}]
    PROVE  Closed(par, g, p)
<1> DEFINE other == [par EXCEPT ![g] = p]
           T == {i \in 1 .. n : t[i] = g}
<1>0. n \in Nat /\ MaxDepth \in Nat
  BY ChecksAssumption
<1>1. T \subseteq Nat /\ T # {}
  BY <1>0
<1>2. PICK m \in T : \A i \in T : m <= i
  BY <1>1, Least, Zenon
<1>3. m \in 1 .. n /\ t[m] = g
  BY <1>2
<1>4. t \in [1 .. n -> Groups]
  BY DEF Path
<1>5. \A i \in 1 .. m - 1 : other[t[i]] = par[t[i]]
  <2>1. ASSUME NEW i \in 1 .. m - 1 PROVE t[i] # g /\ t[i] \in Groups
    <3>1. i \in 1 .. n /\ ~(m <= i)
      BY <1>0, <1>3
    <3> QED  BY <1>2, <1>4, <3>1
  <2> QED  BY <2>1
<1>6. [i \in 1 .. m |-> t[i]] \in Path(par, p, m, Groups)
  <2> HIDE DEF other, T
  <2>1. t \in Path(other, p, n, Groups)
    BY DEF other
  <2> QED  BY <1>0, <1>3, <1>5, <2>1, Beginning
<1>7. m \in 1 .. MaxDepth + 1 /\ [i \in 1 .. m |-> t[i]][m] = g
  BY <1>0, <1>3
<1> QED  BY <1>6, <1>7 DEF Closed

\* A new parent closes no cycle unless the walk from it comes to the group.
LEMMA NewParent ==
    ASSUME NEW par, par \in [Groups -> Groups \cup {NoGroup}], NEW g \in Groups,
           NEW p \in Groups \cup {NoGroup}, p # NoGroup => ~Closed(par, g, p),
           \A h \in Groups : par[h] # NoGroup => ~Closed(par, h, par[h]),
           NEW h \in Groups, [par EXCEPT ![g] = p][h] # NoGroup
    PROVE  ~Closed([par EXCEPT ![g] = p], h, [par EXCEPT ![g] = p][h])
<1> DEFINE other == [par EXCEPT ![g] = p]
<1> SUFFICES ASSUME Closed(other, h, other[h]) PROVE FALSE
  OBVIOUS
<1>0. MaxDepth \in Nat /\ NoGroup \notin Groups
  BY ChecksAssumption, CacheAssumption
<1>1. PICK n \in 1 .. MaxDepth + 1 : \E s \in Path(other, other[h], n, Groups) : s[n] = h
  BY DEF Closed
<1>2. PICK s \in Path(other, other[h], n, Groups) : s[n] = h
  BY <1>1
<1>3. /\ s \in [1 .. n -> Groups] /\ s[1] = other[h] /\ n \in Nat
      /\ \A i \in 1 .. n - 1 : s[i + 1] = other[s[i]]
  BY <1>0 DEF Path
<1>4. other[g] = p /\ \A x \in Groups : x # g => other[x] = par[x]
  OBVIOUS
<1> HIDE DEF other
<1>5. CASE \A i \in 1 .. n : s[i] # g
  <2>1. h # g /\ other[h] = par[h]
    BY <1>2, <1>3, <1>4, <1>5
  <2>2. n \in 1 .. n /\ \A i \in 1 .. n - 1 : other[s[i]] = par[s[i]]
    <3>1. ASSUME NEW i \in 1 .. n - 1 PROVE s[i] # g /\ s[i] \in Groups
      BY <1>3, <1>5
    <3> QED  BY <1>3, <1>4, <3>1
  <2>3. [i \in 1 .. n |-> s[i]] \in Path(par, par[h], n, Groups)
    BY <1>2, <1>3, <2>1, <2>2, Beginning
  <2>4. [i \in 1 .. n |-> s[i]][n] = h
    BY <1>2, <2>2
  <2>5. Closed(par, h, par[h])
    BY <2>3, <2>4 DEF Closed
  <2> QED  BY <2>1, <2>5 DEF other
<1>6. CASE \E i \in 1 .. n : s[i] = g
  <2>1. PICK i \in 1 .. n : s[i] = g
    BY <1>6
  <2> DEFINE t == [j \in 1 .. n |-> IF j <= n - i THEN s[i + j] ELSE s[j - (n - i)]]
  <2>2. t \in [1 .. n -> Groups]
    <3>1. ASSUME NEW j \in 1 .. n PROVE t[j] \in Groups
      <4>1. CASE j <= n - i
        BY <1>3, <4>1
      <4>2. CASE ~(j <= n - i)
        <5>1. j - (n - i) \in 1 .. n
          BY <1>3, <4>2
        <5> QED  BY <1>3, <4>2, <5>1
      <4> QED  BY <4>1, <4>2
    <3> QED  BY <3>1
  <2>3. t[1] = p
    <3>1. CASE i = n
      <4>1. t[1] = s[1] /\ h = g
        BY <1>2, <1>3, <2>1, <3>1
      <4> QED  BY <1>3, <1>4, <4>1
    <3>2. CASE i # n
      <4>1. t[1] = s[i + 1] /\ i \in 1 .. n - 1
        BY <1>3, <3>2
      <4> QED  BY <1>3, <1>4, <2>1, <4>1
    <3> QED  BY <3>1, <3>2
  <2>4. ASSUME NEW j \in 1 .. n - 1 PROVE t[j + 1] = other[t[j]] /\ t[j + 1] \in Groups
    <3>1. j \in 1 .. n /\ j + 1 \in 1 .. n
      BY <1>3
    <3>2. CASE j < n - i
      <4>1. t[j] = s[i + j] /\ t[j + 1] = s[(i + j) + 1] /\ i + j \in 1 .. n - 1
        BY <1>3, <3>1, <3>2
      <4> QED  BY <1>3, <2>2, <3>1, <4>1
    <3>3. CASE j = n - i
      <4>1. t[j] = s[n] /\ t[j + 1] = s[1]
        BY <1>3, <3>1, <3>3
      <4> QED  BY <1>2, <1>3, <2>2, <3>1, <4>1
    <3>4. CASE j > n - i
      <4>1. /\ t[j] = s[j - (n - i)] /\ t[j + 1] = s[(j - (n - i)) + 1]
            /\ j - (n - i) \in 1 .. n - 1
        BY <1>3, <3>1, <3>4
      <4> QED  BY <1>3, <2>2, <3>1, <4>1
    <3> QED  BY <1>3, <3>2, <3>3, <3>4
  <2>5. t[n] = g
    <3>1. ~(n <= n - i) /\ n - (n - i) = i /\ n \in 1 .. n
      BY <1>3
    <3> QED  BY <2>1, <3>1
  <2> HIDE DEF t
  <2>6. t \in Path(other, p, n, Groups)
    BY <2>2, <2>3, <2>4 DEF Path
  <2>7. Closed(par, g, p)
    BY <2>5, <2>6, FirstVisit DEF other
  <2>8. p # NoGroup
    BY <1>0, <1>3, <2>2, <2>3
  <2> QED  BY <2>7, <2>8
<1> QED  BY <1>5, <1>6

\* Who holds the graph lock holds it alone, and its parent closes no cycle yet.
GraphInv ==
    /\ NoParentCycle
    /\ \A w \in Writers : At(w, "graph") /\ write[w].op.parent # NoGroup
          => ~Closes(On(w), write[w].op.parent)
    /\ \A v, w \in Writers : At(v, "graph") /\ At(w, "graph") => v = w

\* What another step than a change of the graph leaves as it is.
LEMMA GraphStays ==
    ASSUME GraphInv, UNCHANGED parent, \A w \in Writers : write'[w].op = write[w].op,
           \A w \in Writers : At(w, "graph")' => At(w, "graph")
    PROVE  GraphInv'
<1>1. \A g, p : Closes(g, p)' <=> Closes(g, p)
  BY DEF Closes, Walks
<1>2. NoParentCycle'
  BY <1>1 DEF GraphInv, NoParentCycle
<1> QED  BY <1>1, <1>2 DEF GraphInv, On

\* Every step keeps the graph without cycles.
LEMMA GraphStep ==
    ASSUME RowsInv, GraphInv, [Next]_vars
    PROVE  GraphInv'
<1>0. write \in [Writers -> WriteType]
  BY DEF RowsInv
<1>1. ASSUME UNCHANGED <<parent, write>> PROVE GraphInv'
  BY <1>1, GraphStays DEF At
<1>2. ASSUME NEW c \in Checkers, Check(c) PROVE GraphInv'
  BY <1>1, <1>2 DEF Check, BeginCheck, GetCached, LoadChain, WalkLevel, StoreAnswer, Stays
<1>3. ASSUME NEW w \in Writers, WriteLevel(w) \/ WriteLive(w) PROVE GraphInv'
  <2>1. UNCHANGED parent /\ Commits(w) /\ write[w].at = "begin"
    BY <1>3 DEF WriteLevel, WriteLive, At
  <2>2. /\ \A v \in Writers : write'[v].op = write[v].op
        /\ \A v \in Writers : At(v, "graph")' => At(v, "graph")
    BY <2>1, CommitWrites
  <2> QED  BY <2>1, <2>2, GraphStays
<1>4. ASSUME NEW w \in Writers, Drop(w) PROVE GraphInv'
  <2>1. UNCHANGED parent /\ write' = [write EXCEPT ![w].at = "done"]
    BY <1>4 DEF Drop, Goes
  <2>2. /\ \A v \in Writers : write'[v].op = write[v].op
        /\ \A v \in Writers : At(v, "graph")' => At(v, "graph")
    BY <1>0, <2>1 DEF At, WriteType
  <2> QED  BY <2>1, <2>2, GraphStays
<1>5. ASSUME NEW w \in Writers, CheckParent(w) PROVE GraphInv'
  <2>1. /\ UNCHANGED parent /\ write' = [write EXCEPT ![w].at = "graph"] /\ ~GraphLocked(w)
        /\ write[w].op.parent # NoGroup => ~Closes(On(w), write[w].op.parent)
    BY <1>5 DEF CheckParent, Goes
  <2>2. /\ \A v \in Writers : write'[v].op = write[v].op
        /\ \A v \in Writers : At(v, "graph")' => v = w
    BY <1>0, <2>1 DEF At, WriteType, GraphLocked
  <2>3. \A g, p : Closes(g, p)' <=> Closes(g, p)
    BY <2>1 DEF Closes, Walks
  <2>4. NoParentCycle'
    BY <2>1, <2>3 DEF GraphInv, NoParentCycle
  <2> QED  BY <2>1, <2>2, <2>3, <2>4 DEF GraphInv, On
<1>6. ASSUME NEW w \in Writers, WriteParent(w) PROVE GraphInv'
  <2> DEFINE g == On(w)
             p == write[w].op.parent
  <2>1. /\ parent' = [parent EXCEPT ![g] = p] /\ Commits(w) /\ At(w, "graph") /\ write[w].at = "graph"
        /\ parent \in [Groups -> Groups \cup {NoGroup}]
        /\ g \in Groups /\ p \in Groups \cup {NoGroup}
    BY <1>0, <1>6 DEF WriteParent, At, On, RowsInv, WriteType
  <2>2. /\ \A v \in Writers : write'[v].op = write[v].op
        /\ \A v \in Writers : At(v, "graph")' => At(v, "graph")
        /\ write'[w].at # "graph"
    BY <2>1, CommitWrites
  <2>3. \A v \in Writers : ~At(v, "graph")'
    BY <2>1, <2>2 DEF GraphInv, At
  <2>4. p # NoGroup => ~Closed(parent, g, p)
    BY <2>1, ClosesIs DEF GraphInv
  <2>5. \A h \in Groups : parent[h] # NoGroup => ~Closed(parent, h, parent[h])
    BY ClosesIs DEF GraphInv, NoParentCycle
  <2> HIDE DEF g, p
  <2>6. ASSUME NEW h \in Groups, parent'[h] # NoGroup PROVE ~Closed(parent', h, parent'[h])
    BY <2>1, <2>4, <2>5, <2>6, NewParent
  <2>7. NoParentCycle'
    BY <2>6 DEF NoParentCycle, Closes, Closed, Walks, Path
  <2> QED  BY <2>3, <2>7 DEF GraphInv
<1>7. CASE Tick \/ Sweep \/ UNCHANGED vars
  BY <1>1, <1>7 DEF Tick, Sweep, vars
<1> QED  BY <1>2, <1>3, <1>4, <1>5, <1>6, <1>7 DEF Next, Write

\* No cycle of up to MAX_PARENT_DEPTH + 1 groups is closed, however many writes
\* check and write at one time (routes/parentCycle.ts).
THEOREM NoCycleClosed == Spec => []NoParentCycle
<1>1. Init => GraphInv
  BY DEF Init, GraphInv, At
<1>2. IInv => RowsInv
  BY DEF IInv
<1>3. GraphInv => NoParentCycle
  BY DEF GraphInv
<1>4. IInv /\ GraphInv /\ [Next]_vars => GraphInv'
  BY <1>2, GraphStep
<1> QED  BY <1>1, <1>3, <1>4, InitIInv, StepIInv, PTL DEF Spec

=============================================================================
