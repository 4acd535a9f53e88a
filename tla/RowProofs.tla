------------------------------ MODULE RowProofs ------------------------------
(***************************************************************************)
(* Members, friends and links: what the locks that each request holds      *)
(* protect, and what follows for the rows.                                 *)
(***************************************************************************)
EXTENDS MemberProofs

Exists(id) == member[id].status # "none"
Here(p) == person[p] = "here"

-----------------------------------------------------------------------------
(* The rows                                                                *)

Owned ==
    \A id \in RowIds : Exists(id) =>
        member[id].version > 0 /\ (member[id].person # id[2] => person[id[2]] = "gone")

RowsInGroups ==
    \A id \in RowIds : Exists(id) => group[id[1]].status \notin {"none", "gone"}

OneRow ==
    \A a, b \in RowIds :
        Exists(a) /\ Exists(b) /\ a[1] = b[1] /\ member[a].person = member[b].person => a = b

AllHere ==
    /\ \A u \in Users : Here(personOf[u])
    /\ \A id \in RowIds : Exists(id) => Here(member[id].person)
    /\ \A row \in relation : Here(row.from) /\ Here(row.to)

-----------------------------------------------------------------------------
(* What a request found at the stages before it, and its locks keep        *)

\* Nobody has a row that r is about to create, and those it refers to are here.
Vacant(r) ==
    /\ \A p \in Referred(r) : Here(p)
    /\ \A p \in req[r].fresh : RowsOf(Group(r), p) = {}

Found(r) == \A id \in req[r].rows : Exists(id)

EntryFinds(r) ==
    LET g == Group(r) IN
    Is(r, Entries) =>
    /\ Is(r, {"create"}) /\ Stage(r) \notin {"begin", "done"} => group[g].status = "none"
    /\ ~Is(r, {"create"}) /\ Stage(r) \in Inside => Live(g)
    /\ Stage(r) \in {"share", "commit"} => Found(r)
    /\ Stage(r) = "commit" => Vacant(r)

ChangeFinds(r) ==
    LET g == Group(r) IN
    Is(r, Changes) =>
    /\ Stage(r) \notin {"begin", "done"} => \A a, b \in req[r].rows : a = b
    /\ ~Is(r, Edits) /\ Stage(r) \in {"row", "settle", "commit"} => Live(g)
    /\ Stage(r) \in {"settle", "commit"} => Found(r)
    /\ ~Is(r, Edits) /\ Stage(r) = "commit" => Vacant(r)

GroupFinds(r) ==
    LET g == Group(r) IN
    Is(r, GroupOps) =>
    /\ Stage(r) \notin {"begin", "done"} => group[g].status # "none"
    /\ Stage(r) = "commit" => group[g].status # "gone"
    /\ Is(r, {"erase"}) /\ Stage(r) = "commit" =>
          /\ \A id \in InGroup(g) : Exists(id) => <<"row", id>> \in Locks(r)
          /\ \A i \in Invites : InviteTo[i] = g => <<"invite", i>> \in Locks(r)

FriendFinds(r) ==
    \/ Is(r, Sends \cup {"accept_friend"}) /\ Stage(r) = "commit"
    \/ Is(r, {"block"}) /\ Stage(r) \in {"deleted", "commit"}
    => Here(req[r].who[1]) /\ Here(req[r].who[2])

LinkFinds(r) ==
    LET to == req[r].who[1]
        from == req[r].who[2]
    IN
    Is(r, {"redeem"}) /\ Stage(r) = "commit" /\ to # from =>
    /\ Here(to) /\ Here(from)
    /\ \A id \in RowIds : Exists(id) => (member[id].person = from <=> id \in req[r].rows)
    /\ \A id \in req[r].rows : id[2] = from \/ person[id[2]] = "gone"
    /\ \A row \in relation : row.from # from /\ row.to # from

Finds(r) == EntryFinds(r) /\ ChangeFinds(r) /\ GroupFinds(r) /\ FriendFinds(r) /\ LinkFinds(r)

RowsHold == Owned /\ RowsInGroups /\ OneRow /\ AllHere

\* No two requests create the same group.
Creators ==
    \A q, r \in Reqs : Is(q, {"create"}) /\ Is(r, {"create"}) /\ Group(q) = Group(r) => q = r

Sound == Base /\ Creators /\ RowsHold /\ \A r \in Reqs : Finds(r)

-----------------------------------------------------------------------------
(* What a step may do to the rows, and which locks it needs for it         *)

\* No other request holds a lock that conflicts with l.
Owns(q, l) == \A r \in Reqs \ {q} : \A m \in held[r] : ~Conflict(l, m)

Merging(q) == Is(q, {"redeem"}) /\ Stage(q) = "commit" /\ req[q].who[1] # req[q].who[2]

Kept(id) == member'[id] = member[id] \/ (~Exists(id) /\ ~Exists(id)')

Created(q, id) ==
    /\ ~Merging(q) /\ ~Exists(id) /\ Exists(id)' /\ member'[id].person = id[2] /\ member'[id].version = 1
    /\ Here(id[2]) /\ Owns(q, <<"share", id[2]>>) /\ RowsOf(id[1], id[2]) = {}
    /\ \/ Owns(q, <<"group", id[1]>>) /\ Live(id[1])
       \/ Is(q, {"create"}) /\ Stage(q) = "commit" /\ Group(q) = id[1] /\ group[id[1]].status = "none"
    /\ group'[id[1]].status \in {"live", "deleted"}

Changed(q, id) ==
    /\ Exists(id) /\ Exists(id)' /\ Owns(q, <<"row", id>>)
    /\ member'[id].person = member[id].person /\ member'[id].version = member[id].version + 1
    /\ member'[id].status = member[id].status \/ Owns(q, <<"group", id[1]>>)

Erased(q, id) ==
    /\ Exists(id) /\ ~Exists(id)' /\ Owns(q, <<"row", id>>)
    /\ Owns(q, <<"erase", id[1]>>) /\ group'[id[1]].status = "gone"

Merged(q, id) ==
    /\ Merging(q) /\ Exists(id) /\ member[id].person = req[q].who[2] /\ Owns(q, <<"row", id>>)
    /\ person'[req[q].who[2]] = "gone"
    /\ \/ ~Exists(id)'
       \/ /\ RowsOf(id[1], req[q].who[1]) = {}
          /\ member'[id].person = req[q].who[1] /\ member'[id].version = member[id].version + 1
          /\ member'[id].status = member[id].status

RowEffect(q, id) ==
    Kept(id) \/ Created(q, id) \/ Changed(q, id) \/ Erased(q, id) \/ Merged(q, id)

GroupEffect(q, g) ==
    \/ group'[g] = group[g]
    \/ /\ Owns(q, <<"group", g>>) \/ Owns(q, <<"erase", g>>)
       /\ group[g].status \notin {"none", "gone"} /\ group'[g].status # "none"
       /\ group'[g].status = "gone" => \A id \in InGroup(g) : ~Exists(id)'
    \/ /\ Is(q, {"create"}) /\ Stage(q) = "commit" /\ Group(q) = g
       /\ group[g].status = "none" /\ group'[g].status = "live"

PersonEffect(q, p) ==
    \/ person'[p] = person[p]
    \/ person[p] = "none" /\ person'[p] = "here"
    \/ Merging(q) /\ p = req[q].who[2] /\ person'[p] = "gone"

\* A merge takes every row of the person who goes.
MergeEffect(q) ==
    Merging(q) =>
        /\ Owns(q, <<"erase", req[q].who[1]>>) /\ Owns(q, <<"erase", req[q].who[2]>>)
        /\ Here(req[q].who[1])
        /\ person' # person =>
              /\ person'[req[q].who[2]] = "gone"
              /\ \A id \in RowIds : member[id].person = req[q].who[2] =>
                    ~Exists(id)' \/ member'[id].person = req[q].who[1]
              /\ \A row \in relation : req[q].who[2] \notin {row.from, row.to}

RelationEffect(q, row) ==
    \/ \E old \in relation : old.from = row.from /\ old.to = row.to
    \/ /\ Here(row.from) /\ Here(row.to)
       /\ Owns(q, <<"share", row.from>>) /\ Owns(q, <<"share", row.to>>)

Effects(q) ==
    /\ \A id \in RowIds : RowEffect(q, id)
    /\ \A g \in Groups : GroupEffect(q, g)
    /\ \A p \in People : PersonEffect(q, p)
    /\ \A row \in relation' : RelationEffect(q, row)
    /\ \A u \in Users : person'[personOf'[u]] = "here"
    /\ MergeEffect(q)
    /\ person' = person \/ relation' = relation

-----------------------------------------------------------------------------
(* What a step does to the rows keeps them whole                           *)

LEMMA RowTyped ==
    ASSUME RowTypes
    PROVE  /\ \A id \in RowIds : /\ id[1] \in Groups /\ id[2] \in People
                                 /\ member[id].person \in People /\ member[id].version \in Nat
           /\ \A id \in RowIds, other \in RowIds : id[1] = other[1] /\ id[2] = other[2] => id = other
  BY DEF RowTypes, RowIds

LEMMA OwnedKept ==
    ASSUME RowTypes, Owned, NEW q \in Reqs, Effects(q)
    PROVE  Owned'
<1>1. \A p \in People : person[p] = "gone" => person'[p] = "gone"
  BY DEF Effects, PersonEffect
<1>2. ASSUME NEW id \in RowIds, Exists(id)'
      PROVE  member'[id].version > 0 /\ (member'[id].person # id[2] => person'[id[2]] = "gone")
  <2>1. RowEffect(q, id) /\ id[2] \in People /\ member[id].version \in Nat
    BY RowTyped DEF Effects
  <2>2. CASE Kept(id)
    <3>1. Exists(id) /\ member'[id] = member[id]
      BY <1>2, <2>2 DEF Kept, Exists
    <3>. QED
      BY <1>1, <2>1, <3>1 DEF Owned
  <2>3. CASE Created(q, id)
    BY <2>3 DEF Created
  <2>4. CASE Changed(q, id)
    BY <1>1, <2>1, <2>4 DEF Changed, Owned
  <2>5. CASE Erased(q, id)
    BY <1>2, <2>5 DEF Erased
  <2>6. CASE Merged(q, id)
    <3>1. /\ Merging(q) /\ Exists(id) /\ member[id].person = req[q].who[2]
          /\ member'[id].person = req[q].who[1] /\ member'[id].version = member[id].version + 1
      BY <1>2, <2>6 DEF Merged
    <3>2. person'[req[q].who[2]] = "gone"
      BY <2>6 DEF Merged
    <3>3. person'[id[2]] = "gone"
      <4>1. CASE member[id].person # id[2]
        BY <1>1, <2>1, <3>1, <4>1 DEF Owned
      <4>2. CASE member[id].person = id[2]
        BY <3>1, <3>2, <4>2
      <4>. QED
        BY <4>1, <4>2
    <3>. QED
      BY <2>1, <3>1, <3>3
  <2>. QED
    BY <2>1, <2>2, <2>3, <2>4, <2>5, <2>6 DEF RowEffect
<1>. QED
  BY <1>2 DEF Owned

LEMMA InGroupsKept ==
    ASSUME RowTypes, RowsInGroups, NEW q \in Reqs, Effects(q)
    PROVE  RowsInGroups'
<1>1. ASSUME NEW id \in RowIds, Exists(id)'
      PROVE  group'[id[1]].status \notin {"none", "gone"}
  <2>1. RowEffect(q, id) /\ GroupEffect(q, id[1]) /\ id \in InGroup(id[1])
    BY RowTyped DEF Effects, InGroup
  <2>2. CASE Created(q, id)
    BY <2>2 DEF Created
  <2>3. CASE Exists(id)
    <3>1. group[id[1]].status \notin {"none", "gone"}
      BY <2>3 DEF RowsInGroups
    <3>. QED
      BY <1>1, <2>1, <3>1 DEF GroupEffect
  <2>. QED
    BY <1>1, <2>1, <2>2, <2>3 DEF RowEffect, Kept, Changed, Erased, Merged, Exists
<1>. QED
  BY <1>1 DEF RowsInGroups

\* A row that is there belongs to whom it belonged before, or came to its owner in
\* this step, who then had no other in the group.
LEMMA RowCame ==
    ASSUME RowTypes, NEW q \in Reqs, Effects(q), NEW id \in RowIds, Exists(id)'
    PROVE  \/ Exists(id) /\ member'[id].person = member[id].person
           \/ ~Merging(q) /\ ~Exists(id) /\ member'[id].person = id[2] /\ RowsOf(id[1], id[2]) = {}
           \/ /\ Merging(q) /\ Exists(id) /\ member[id].person = req[q].who[2]
              /\ member'[id].person = req[q].who[1] /\ RowsOf(id[1], req[q].who[1]) = {}
<1>1. RowEffect(q, id)
  BY DEF Effects
<1>. QED
  BY <1>1 DEF RowEffect, Kept, Created, Changed, Erased, Merged, Exists

LEMMA OneRowKept ==
    ASSUME RowTypes, OneRow, NEW q \in Reqs, Effects(q)
    PROVE  OneRow'
<1>1. SUFFICES ASSUME NEW a \in RowIds, NEW b \in RowIds, Exists(a)', Exists(b)', a[1] = b[1],
                      member'[a].person = member'[b].person
               PROVE  a = b
  BY DEF OneRow
<1>. DEFINE Same(id) == Exists(id) /\ member'[id].person = member[id].person
            New(id) == ~Merging(q) /\ ~Exists(id) /\ member'[id].person = id[2] /\ RowsOf(id[1], id[2]) = {}
            Comes(id) == /\ Merging(q) /\ Exists(id) /\ member[id].person = req[q].who[2]
                         /\ member'[id].person = req[q].who[1] /\ RowsOf(id[1], req[q].who[1]) = {}
<1>2. Same(a) \/ New(a) \/ Comes(a)
  BY <1>1, RowCame
<1>3. Same(b) \/ New(b) \/ Comes(b)
  BY <1>1, RowCame
<1>4. CASE Same(a) /\ Same(b)
  BY <1>1, <1>4 DEF OneRow
<1>5. CASE New(a) /\ New(b)
  BY <1>1, <1>5, RowTyped
<1>6. CASE Comes(a) /\ Comes(b)
  BY <1>1, <1>6 DEF OneRow
<1>7. ASSUME NEW x \in RowIds, NEW y \in RowIds, Same(x), x[1] = y[1], member'[x].person = member'[y].person
      PROVE  ~New(y) /\ ~Comes(y)
  <2>1. x \in RowsOf(y[1], member'[y].person)
    BY <1>7 DEF RowsOf, Exists
  <2>. QED
    BY <2>1
<1>8. ~(New(a) /\ Comes(b)) /\ ~(Comes(a) /\ New(b))
  OBVIOUS
<1>. HIDE DEF Same, New, Comes
<1>. QED
  BY <1>1, <1>2, <1>3, <1>4, <1>5, <1>6, <1>7, <1>8

LEMMA AllHereKept ==
    ASSUME RowTypes, RowTypes', AllHere, NEW q \in Reqs, Effects(q)
    PROVE  AllHere'
<1>. DEFINE from == req[q].who[2]
<1>1. \A u \in Users : person'[personOf'[u]] = "here"
  BY DEF Effects
<1>2. ASSUME NEW p \in People, Here(p), person'[p] # "here"
      PROVE  Merging(q) /\ p = from
  BY <1>2 DEF Effects, PersonEffect, Here
<1>3. ASSUME NEW id \in RowIds, Exists(id)'
      PROVE  person'[member'[id].person] = "here"
  <2>. DEFINE p == member'[id].person
  <2>0. p \in People
    BY RowTyped DEF RowTypes
  <2>1. Here(p)
    <3>1. CASE Exists(id) /\ member'[id].person = member[id].person
      BY <3>1 DEF AllHere
    <3>2. CASE ~Exists(id) /\ member'[id].person = id[2]
      BY <1>3, <3>2 DEF Effects, RowEffect, Kept, Created, Changed, Erased, Merged, Exists
    <3>3. CASE Merging(q) /\ member'[id].person = req[q].who[1]
      BY <3>3 DEF Effects, MergeEffect
    <3>. QED
      BY <1>3, <3>1, <3>2, <3>3, RowCame
  <2>2. SUFFICES ASSUME person'[p] # "here" PROVE FALSE
    OBVIOUS
  <2>3. Merging(q) /\ p = from
    BY <1>2, <2>0, <2>1, <2>2
  <2>4. person' # person
    BY <2>1, <2>2 DEF Here
  <2>5. member[id].person = from => p = req[q].who[1]
    BY <1>3, <2>3, <2>4 DEF Effects, MergeEffect
  <2>6. req[q].who[1] # from
    BY <2>3 DEF Merging
  <2>7. member[id].person # from
    BY <2>3, <2>5, <2>6
  <2>. QED
    BY <1>3, <2>3, <2>6, <2>7, RowCame
<1>4. ASSUME NEW row \in relation'
      PROVE  person'[row.from] = "here" /\ person'[row.to] = "here"
  <2>0. row.from \in People /\ row.to \in People
    BY DEF RowTypes
  <2>1. RelationEffect(q, row)
    BY DEF Effects
  <2>2. Here(row.from) /\ Here(row.to)
    BY <2>1 DEF RelationEffect, AllHere
  <2>3. CASE person' = person
    BY <2>2, <2>3 DEF Here
  <2>4. CASE person' # person /\ relation' = relation
    <3>1. Merging(q) => from \notin {row.from, row.to}
      BY <2>4 DEF Effects, MergeEffect
    <3>. QED
      BY <1>2, <2>0, <2>2, <3>1
  <2>. QED
    BY <2>3, <2>4 DEF Effects
<1>. QED
  BY <1>1, <1>3, <1>4 DEF AllHere, Here

LEMMA RowsKept ==
    ASSUME RowTypes, RowTypes', RowsHold, NEW q \in Reqs, Effects(q)
    PROVE  RowsHold'
  BY OwnedKept, InGroupsKept, OneRowKept, AllHereKept DEF RowsHold

-----------------------------------------------------------------------------
(* What a request found, the locks it holds keep                           *)

LEMMA NotOwned ==
    ASSUME NEW q \in Reqs, NEW r \in Reqs \ {q}, NEW x
    PROVE  /\ <<"group", x>> \in held[r] => ~Owns(q, <<"group", x>>) /\ ~Owns(q, <<"erase", x>>)
           /\ <<"erase", x>> \in held[r] =>
                 ~Owns(q, <<"group", x>>) /\ ~Owns(q, <<"erase", x>>) /\ ~Owns(q, <<"share", x>>)
           /\ <<"share", x>> \in held[r] => ~Owns(q, <<"erase", x>>)
           /\ <<"row", x>> \in held[r] => ~Owns(q, <<"row", x>>)
           /\ <<"invite", x>> \in held[r] => ~Owns(q, <<"invite", x>>)
           /\ <<"bond", x>> \in held[r] => ~Owns(q, <<"bond", x>>)
           /\ <<"block", x>> \in held[r] => ~Owns(q, <<"block", x>>)
           /\ <<"code", x>> \in held[r] => ~Owns(q, <<"code", x>>)
<1>1. \A l, m : m \in held[r] /\ Conflict(l, m) => ~Owns(q, l)
  BY DEF Owns
<1>2. \A k \in {"group", "erase", "row", "invite", "bond", "block", "code"} : Conflict(<<k, x>>, <<k, x>>)
  BY DEF Conflict
<1>3. /\ Conflict(<<"erase", x>>, <<"group", x>>) /\ Conflict(<<"group", x>>, <<"erase", x>>)
      /\ Conflict(<<"erase", x>>, <<"share", x>>) /\ Conflict(<<"share", x>>, <<"erase", x>>)
  <2>1. {"group", "erase"} = {"erase", "group"} /\ {"share", "erase"} = {"erase", "share"}
    OBVIOUS
  <2>. QED
    BY <2>1 DEF Conflict
<1>. QED
  BY <1>1, <1>2, <1>3

\* The row that a request has locked stays.
LEMMA FoundKept ==
    ASSUME RowTypes, NEW q \in Reqs, Effects(q), NEW r \in Reqs \ {q},
           NEW id \in RowIds, Exists(id), <<"row", id>> \in held[r]
    PROVE  Exists(id)' /\ member'[id] = member[id]
<1>1. RowEffect(q, id) /\ ~Owns(q, <<"row", id>>)
  BY NotOwned DEF Effects
<1>. QED
  BY <1>1 DEF RowEffect, Kept, Created, Changed, Erased, Merged, Exists

\* The group that a request has locked stays what it is.
LEMMA GroupKept ==
    ASSUME NEW q \in Reqs, Effects(q), NEW r \in Reqs \ {q}, NEW g \in Groups,
           <<"group", g>> \in held[r] \/ <<"erase", g>> \in held[r], group[g].status # "none"
    PROVE  group'[g] = group[g]
<1>1. GroupEffect(q, g) /\ ~Owns(q, <<"group", g>>) /\ ~Owns(q, <<"erase", g>>)
  BY NotOwned DEF Effects
<1>. QED
  BY <1>1 DEF GroupEffect

\* A person whose row a request has locked, even shared, stays.
LEMMA HereKept ==
    ASSUME NEW q \in Reqs, Effects(q), NEW r \in Reqs \ {q}, NEW p \in People, Here(p),
           <<"share", p>> \in held[r] \/ <<"erase", p>> \in held[r]
    PROVE  Here(p)'
<1>1. PersonEffect(q, p) /\ MergeEffect(q) /\ ~Owns(q, <<"erase", p>>)
  BY NotOwned DEF Effects
<1>. QED
  BY <1>1 DEF PersonEffect, MergeEffect, Here

\* Under the lock of the group, or in a group that is its own, and with its people
\* locked, nobody gets a row.
LEMMA VacantKept ==
    ASSUME RowTypes, Creators, NEW q \in Reqs, Effects(q), NEW r \in Reqs \ {q}, NEW g \in Groups, NEW p \in People,
           \/ <<"group", g>> \in held[r] /\ group[g].status # "none"
           \/ Is(r, {"create"}) /\ Group(r) = g /\ group[g].status = "none",
           <<"share", p>> \in held[r], RowsOf(g, p) = {}
    PROVE  RowsOf(g, p)' = {}
<1>1. SUFFICES ASSUME NEW id \in RowIds, id[1] = g, member'[id].person = p, Exists(id)'
               PROVE  FALSE
  BY DEF RowsOf, Exists
<1>2. RowEffect(q, id) /\ ~Owns(q, <<"erase", p>>)
  BY NotOwned DEF Effects
<1>3. ~(Exists(id) /\ member[id].person = p)
  BY <1>1 DEF RowsOf, Exists
<1>4. CASE Created(q, id)
  <2>1. \/ Owns(q, <<"group", g>>) /\ Live(g)
        \/ Is(q, {"create"}) /\ Group(q) = g /\ group[g].status = "none"
    BY <1>1, <1>4 DEF Created
  <2>2. CASE <<"group", g>> \in held[r] /\ group[g].status # "none"
    BY <2>1, <2>2, NotOwned
  <2>3. CASE Is(r, {"create"}) /\ Group(r) = g /\ group[g].status = "none"
    BY <2>1, <2>3 DEF Creators, Live
  <2>. QED
    BY <2>2, <2>3
<1>5. CASE Merged(q, id)
  <2>1. Merging(q) /\ p = req[q].who[1]
    BY <1>1, <1>3, <1>5 DEF Merged
  <2>. QED
    BY <1>2, <2>1 DEF Effects, MergeEffect
<1>. QED
  BY <1>1, <1>2, <1>3, <1>4, <1>5 DEF RowEffect, Kept, Changed, Erased, Exists

LEMMA EntryFindsKept ==
    ASSUME Base, Creators, NEW q \in Reqs, Effects(q), NEW r \in Reqs \ {q},
           req'[r] = req[r], held'[r] = held[r], EntryFinds(r)
    PROVE  EntryFinds(r)'
<1>. DEFINE g == Group(r)
<1>1. SUFFICES ASSUME Is(r, Entries) PROVE EntryFinds(r)'
  BY SameRequest DEF EntryFinds
<1>2. /\ Stage(r)' = Stage(r) /\ Group(r)' = g /\ Referred(r)' = Referred(r) /\ g \in Groups
      /\ Op(r)' = Op(r) /\ \A kinds : Is(r, kinds)' <=> Is(r, kinds)
  BY <1>1, SameRequest, Names DEF Is, Base
<1>3. RowTypes /\ Staged(r) /\ EntryStaged(r) /\ Typed(r)
  BY DEF Base, Staged
<1>4. Is(r, {"create"}) /\ Stage(r) \notin {"begin", "done"} => group[g].status = "none" /\ group'[g].status = "none"
  <2>1. SUFFICES ASSUME Is(r, {"create"}), Stage(r) \notin {"begin", "done"} PROVE group'[g] = group[g]
    BY <1>1 DEF EntryFinds
  <2>2. GroupEffect(q, g) /\ group[g].status = "none"
    BY <1>1, <1>2, <2>1 DEF Effects, EntryFinds
  <2>. QED
    BY <2>1, <2>2 DEF GroupEffect, Creators
<1>5. ~Is(r, {"create"}) /\ Stage(r) \in Inside => Live(g) /\ Live(g)'
  <2>1. SUFFICES ASSUME ~Is(r, {"create"}), Stage(r) \in Inside PROVE Live(g) /\ Live(g)'
    OBVIOUS
  <2>2. Live(g) /\ <<"group", g>> \in held[r]
    BY <1>1, <1>3, <2>1 DEF EntryFinds, EntryStaged
  <2>. QED
    BY <1>2, <2>2, GroupKept DEF Live
<1>6. Stage(r) \in {"share", "commit"} => Found(r)'
  <2>1. SUFFICES ASSUME Stage(r) \in {"share", "commit"}, NEW id \in req[r].rows PROVE Exists(id)'
    BY DEF Found
  <2>2. Exists(id) /\ id \in RowIds /\ <<"row", id>> \in held[r]
    BY <1>1, <1>3, <2>1 DEF EntryFinds, EntryStaged, Found, InGroup, RowLocks, Roomy
  <2>. QED
    BY <1>3, <2>2, FoundKept
<1>7. Stage(r) = "commit" => Vacant(r)'
  <2>1. SUFFICES ASSUME Stage(r) = "commit" PROVE Vacant(r)'
    OBVIOUS
  <2>2. Vacant(r) /\ ShareLocks(Referred(r)) \subseteq held[r] /\ Referred(r) \subseteq People
    <3>1. Vacant(r) /\ ShareLocks(Referred(r)) \subseteq held[r]
      BY <1>1, <1>3, <2>1 DEF EntryFinds, EntryStaged, Roomy
    <3>2. Is(r, {"add", "import", "kick"}) \/ Len(req[r].who) = 1
      BY <1>1, <1>3, <2>1 DEF EntryStaged, Is
    <3>. QED
      BY <1>3, <3>1, <3>2, ReferredPeople
  <2>3. ASSUME NEW p \in Referred(r)
        PROVE  Here(p)'
    <3>1. Here(p) /\ p \in People /\ <<"share", p>> \in held[r]
      BY <2>2 DEF Vacant, ShareLocks
    <3>. QED
      BY <3>1, HereKept
  <2>4. ASSUME NEW p \in req[r].fresh
        PROVE  RowsOf(g, p)' = {}
    <3>1. p \in Referred(r) /\ RowsOf(g, p) = {}
      <4>1. CASE Is(r, {"add", "import"})
        BY <2>2, <4>1 DEF Referred, Vacant
      <4>2. CASE ~Is(r, {"add", "import"})
        <5>1. Len(req[r].who) = 1 /\ req[r].fresh \subseteq Members(r)
          BY <1>1, <1>3, <2>1, <4>2 DEF EntryStaged, Roomy, Is, Entries
        <5>2. p = Person(r)
          BY <1>3, <5>1 DEF Members, Range, Person, Typed, Record
        <5>. QED
          BY <1>1, <2>2, <4>2, <5>2 DEF Referred, Vacant, Is, Entries
      <4>. QED
        BY <4>1, <4>2
    <3>2. <<"share", p>> \in held[r] /\ p \in People
      BY <2>2, <3>1 DEF ShareLocks
    <3>3. \/ <<"group", g>> \in held[r] /\ group[g].status # "none"
          \/ Is(r, {"create"}) /\ group[g].status = "none"
      <4>1. Stage(r) \in Inside /\ Stage(r) \notin {"begin", "done"}
        BY <2>1 DEF Inside
      <4>. QED
        BY <1>1, <1>3, <1>4, <1>5, <4>1 DEF EntryStaged, Live
    <3>. QED
      BY <1>2, <1>3, <3>1, <3>2, <3>3, VacantKept
  <2>. QED
    BY <1>2, <2>3, <2>4 DEF Vacant
<1>. HIDE DEF g
<1>. QED
  BY <1>2, <1>4, <1>5, <1>6, <1>7 DEF EntryFinds, g

LEMMA ChangeFindsKept ==
    ASSUME Base, Creators, NEW q \in Reqs, Effects(q), NEW r \in Reqs \ {q},
           req'[r] = req[r], held'[r] = held[r], ChangeFinds(r)
    PROVE  ChangeFinds(r)'
<1>. DEFINE g == Group(r)
<1>1. SUFFICES ASSUME Is(r, Changes) PROVE ChangeFinds(r)'
  BY SameRequest DEF ChangeFinds
<1>2. /\ Stage(r)' = Stage(r) /\ Group(r)' = g /\ Referred(r)' = Referred(r) /\ g \in Groups
      /\ Op(r)' = Op(r) /\ \A kinds : Is(r, kinds)' <=> Is(r, kinds)
  BY <1>1, SameRequest, Names DEF Is, Base
<1>3. RowTypes /\ Staged(r) /\ ChangeStaged(r) /\ Typed(r)
  BY DEF Base, Staged
<1>4. ~Is(r, Edits) /\ Stage(r) \in {"row", "settle", "commit"} => Live(g) /\ Live(g)' /\ <<"group", g>> \in held[r]
  <2>1. SUFFICES ASSUME ~Is(r, Edits), Stage(r) \in {"row", "settle", "commit"}
                 PROVE Live(g) /\ Live(g)' /\ <<"group", g>> \in held[r]
    OBVIOUS
  <2>2. Live(g) /\ <<"group", g>> \in held[r]
    BY <1>1, <1>3, <2>1 DEF ChangeFinds, ChangeStaged
  <2>. QED
    BY <1>2, <2>2, GroupKept DEF Live
<1>5. Stage(r) \in {"settle", "commit"} => Found(r)'
  <2>1. SUFFICES ASSUME Stage(r) \in {"settle", "commit"}, NEW id \in req[r].rows PROVE Exists(id)'
    BY DEF Found
  <2>2. Exists(id) /\ id \in RowIds
    BY <1>1, <1>3, <2>1 DEF ChangeFinds, ChangeStaged, Found, InGroup
  <2>3. <<"row", id>> \in held[r]
    <3>1. CASE Is(r, Edits)
      <4>1. <<"row", CHOOSE i \in req[r].rows : TRUE>> \in held[r] /\ \A a, b \in req[r].rows : a = b
        BY <1>1, <1>3, <2>1, <3>1 DEF ChangeStaged, ChangeFinds
      <4>2. (CHOOSE i \in req[r].rows : TRUE) \in req[r].rows
        OBVIOUS
      <4>. QED
        BY <4>1, <4>2
    <3>2. CASE ~Is(r, Edits)
      BY <1>1, <1>3, <2>1, <3>2 DEF ChangeStaged, RowLocks
    <3>. QED
      BY <3>1, <3>2
  <2>. QED
    BY <1>3, <2>2, <2>3, FoundKept
<1>6. ~Is(r, Edits) /\ Stage(r) = "commit" => Vacant(r)'
  <2>1. SUFFICES ASSUME ~Is(r, Edits), Stage(r) = "commit" PROVE Vacant(r)'
    OBVIOUS
  <2>2. Vacant(r) /\ ShareLocks(Referred(r)) \subseteq held[r] /\ Referred(r) \subseteq People
    BY <1>1, <1>3, <2>1, ReferredPeople DEF ChangeFinds, ChangeStaged
  <2>3. ASSUME NEW p \in Referred(r)
        PROVE  Here(p)'
    <3>1. Here(p) /\ p \in People /\ <<"share", p>> \in held[r]
      BY <2>2 DEF Vacant, ShareLocks
    <3>. QED
      BY <3>1, HereKept
  <2>4. ASSUME NEW p \in req[r].fresh
        PROVE  RowsOf(g, p)' = {}
    <3>1. p \in Referred(r) /\ RowsOf(g, p) = {}
      <4>1. p = Person(r) /\ Is(r, {"ban"})
        BY <1>1, <1>3, <2>1 DEF ChangeStaged
      <4>. QED
        BY <2>2, <4>1 DEF Referred, Vacant, Is
    <3>2. <<"share", p>> \in held[r] /\ p \in People
      BY <2>2, <3>1 DEF ShareLocks
    <3>3. <<"group", g>> \in held[r] /\ group[g].status # "none"
      BY <1>4, <2>1 DEF Live
    <3>. QED
      BY <1>2, <1>3, <3>1, <3>2, <3>3, VacantKept
  <2>. QED
    BY <1>2, <2>3, <2>4 DEF Vacant
<1>7. Stage(r) \notin {"begin", "done"} => \A a, b \in req[r].rows : a = b
  BY <1>1 DEF ChangeFinds
<1>. HIDE DEF g
<1>. QED
  BY <1>2, <1>4, <1>5, <1>6, <1>7 DEF ChangeFinds, g

LEMMA GroupFindsKept ==
    ASSUME Base, Creators, NEW q \in Reqs, Effects(q), NEW r \in Reqs \ {q},
           req'[r] = req[r], held'[r] = held[r], GroupFinds(r)
    PROVE  GroupFinds(r)'
<1>. DEFINE g == Group(r)
<1>1. SUFFICES ASSUME Is(r, GroupOps) PROVE GroupFinds(r)'
  BY SameRequest DEF GroupFinds
<1>2. /\ Stage(r)' = Stage(r) /\ Group(r)' = g /\ Locks(r)' = Locks(r) /\ g \in Groups
      /\ \A kinds : Is(r, kinds)' <=> Is(r, kinds)
  BY <1>1, SameRequest, Names DEF Is, Base
<1>3. RowTypes /\ Staged(r) /\ GroupStaged(r)
  BY DEF Base, Staged
<1>4. GroupEffect(q, g)
  BY <1>2 DEF Effects
<1>5. Stage(r) \notin {"begin", "done"} => group'[g].status # "none"
  BY <1>1, <1>4 DEF GroupFinds, GroupEffect
<1>6. Stage(r) = "commit" => group'[g].status # "gone"
  <2>1. SUFFICES ASSUME Stage(r) = "commit" PROVE group'[g].status # "gone"
    OBVIOUS
  <2>2. <<"group", g>> \in held[r] \/ <<"erase", g>> \in held[r]
    BY <1>1, <1>3, <2>1 DEF GroupStaged
  <2>3. group[g].status \notin {"none", "gone"}
    BY <1>1, <2>1 DEF GroupFinds
  <2>. QED
    BY <1>2, <2>2, <2>3, GroupKept
<1>7. Is(r, {"erase"}) /\ Stage(r) = "commit" =>
          /\ \A id \in InGroup(g) : Exists(id)' => <<"row", id>> \in Locks(r)
          /\ \A i \in Invites : InviteTo[i] = g => <<"invite", i>> \in Locks(r)
  <2>1. SUFFICES ASSUME Is(r, {"erase"}), Stage(r) = "commit"
                 PROVE  /\ \A id \in InGroup(g) : Exists(id)' => <<"row", id>> \in Locks(r)
                        /\ \A i \in Invites : InviteTo[i] = g => <<"invite", i>> \in Locks(r)
    OBVIOUS
  <2>2. /\ <<"erase", g>> \in held[r] /\ group[g].status # "none"
        /\ \A id \in InGroup(g) : Exists(id) => <<"row", id>> \in Locks(r)
        /\ \A i \in Invites : InviteTo[i] = g => <<"invite", i>> \in Locks(r)
    BY <1>1, <1>3, <2>1 DEF GroupStaged, GroupFinds
  <2>3. ~Owns(q, <<"group", g>>)
    BY <2>2, NotOwned
  <2>4. ASSUME NEW id \in InGroup(g), Exists(id)'
        PROVE  Exists(id)
    <3>1. RowEffect(q, id) /\ id[1] = g
      BY DEF Effects, InGroup
    <3>2. ~Created(q, id)
      BY <2>2, <2>3, <3>1 DEF Created
    <3>. QED
      BY <2>4, <3>1, <3>2 DEF RowEffect, Kept, Changed, Erased, Merged, Exists
  <2>. QED
    BY <2>2, <2>4
<1>. HIDE DEF g
<1>. QED
  BY <1>2, <1>5, <1>6, <1>7 DEF GroupFinds, g, InGroup

LEMMA FriendFindsKept ==
    ASSUME Base, NEW q \in Reqs, Effects(q), NEW r \in Reqs \ {q},
           req'[r] = req[r], held'[r] = held[r], FriendFinds(r)
    PROVE  FriendFinds(r)'
<1>1. Stage(r)' = Stage(r) /\ \A kinds : Is(r, kinds)' <=> Is(r, kinds)
  BY SameRequest
<1>2. Staged(r) /\ FriendStaged(r) /\ Typed(r)
  BY DEF Base, Staged
<1>3. ASSUME \/ Is(r, Sends \cup {"accept_friend"}) /\ Stage(r) = "commit"
             \/ Is(r, {"block"}) /\ Stage(r) \in {"deleted", "commit"}
      PROVE  Here(req[r].who[1])' /\ Here(req[r].who[2])'
  <2>1. Here(req[r].who[1]) /\ Here(req[r].who[2])
    BY <1>3 DEF FriendFinds
  <2>2. Is(r, Sends \cup Answerings \cup Endings)
    BY <1>3 DEF Is, Sends, Answerings, Endings
  <2>3. Len(req[r].who) = 2 /\ <<"share", req[r].who[1]>> \in held[r] /\ <<"share", req[r].who[2]>> \in held[r]
    BY <1>2, <1>3, <2>2 DEF FriendStaged
  <2>4. req[r].who[1] \in People /\ req[r].who[2] \in People
    BY <1>2, <2>3, PairOf
  <2>5. person'[req[r].who[1]] = "here" /\ person'[req[r].who[2]] = "here"
    BY <2>1, <2>3, <2>4, HereKept DEF Here
  <2>. QED
    BY <2>5 DEF Here
<1>. QED
  BY <1>1, <1>3 DEF FriendFinds

LEMMA LinkFindsKept ==
    ASSUME Base, NEW q \in Reqs, Effects(q), NEW r \in Reqs \ {q},
           req'[r] = req[r], held'[r] = held[r], LinkFinds(r)
    PROVE  LinkFinds(r)'
<1>. DEFINE to == req[r].who[1]
            from == req[r].who[2]
<1>1. Stage(r)' = Stage(r) /\ \A kinds : Is(r, kinds)' <=> Is(r, kinds)
  BY SameRequest
<1>2. RowTypes /\ Staged(r) /\ LinkStaged(r) /\ Typed(r)
  BY DEF Base, Staged
<1>3. ASSUME Is(r, {"redeem"}), Stage(r) = "commit", to # from
      PROVE  /\ person'[to] = "here" /\ person'[from] = "here"
             /\ \A id \in RowIds : Exists(id)' => (member'[id].person = from <=> id \in req[r].rows)
             /\ \A id \in req[r].rows : id[2] = from \/ person'[id[2]] = "gone"
             /\ \A row \in relation' : row.from # from /\ row.to # from
  <2>1. /\ Here(to) /\ Here(from)
        /\ \A id \in RowIds : Exists(id) => (member[id].person = from <=> id \in req[r].rows)
        /\ \A id \in req[r].rows : id[2] = from \/ person[id[2]] = "gone"
        /\ \A row \in relation : row.from # from /\ row.to # from
    BY <1>3 DEF LinkFinds
  <2>2. Len(req[r].who) = 2 /\ Erases(Members(r)) \subseteq held[r]
    BY <1>2, <1>3 DEF LinkStaged, Is, LinkOps
  <2>3. to \in People /\ from \in People
    BY <1>2, <2>2, PairOf
  <2>4. <<"erase", to>> \in held[r] /\ <<"erase", from>> \in held[r]
    <3>1. 1 \in DOMAIN req[r].who /\ 2 \in DOMAIN req[r].who
      BY <1>2, <2>2 DEF Typed, Record
    <3>. QED
      BY <2>2, <3>1 DEF Erases, Members, Range
  <2>5. person'[to] = "here" /\ person'[from] = "here"
    BY <2>1, <2>3, <2>4, HereKept DEF Here
  <2>6. ~Owns(q, <<"share", from>>) /\ ~Owns(q, <<"erase", from>>)
    BY <2>4, NotOwned
  <2>7. ASSUME NEW id \in RowIds, Exists(id)'
        PROVE  member'[id].person = from <=> id \in req[r].rows
    <3>1. ~(Merging(q) /\ from \in {req[q].who[1], req[q].who[2]})
      BY <2>6 DEF Effects, MergeEffect
    <3>2. RowEffect(q, id)
      BY DEF Effects
    <3>3. CASE Exists(id) /\ member'[id].person = member[id].person
      BY <2>1, <3>3
    <3>4. CASE Created(q, id)
      <4>1. member'[id].person # from /\ id[2] # from /\ person[id[2]] # "gone"
        BY <2>6, <3>4 DEF Created, Here
      <4>. QED
        BY <2>1, <4>1
    <3>5. CASE Merged(q, id)
      BY <2>1, <2>7, <3>1, <3>5 DEF Merged
    <3>. QED
      BY <2>7, <3>2, <3>3, <3>4, <3>5 DEF RowEffect, Kept, Changed, Erased, Exists
  <2>8. ASSUME NEW row \in relation'
        PROVE  row.from # from /\ row.to # from
    <3>1. RelationEffect(q, row)
      BY DEF Effects
    <3>. QED
      BY <2>1, <2>6, <3>1 DEF RelationEffect
  <2>9. \A id \in req[r].rows : id[2] = from \/ person'[id[2]] = "gone"
    <3>1. \A p \in People : person[p] = "gone" => person'[p] = "gone"
      BY DEF Effects, PersonEffect
    <3>2. req[r].rows \subseteq RowIds
      BY <1>2, <1>3 DEF LinkStaged, Is, LinkOps
    <3>. QED
      BY <1>2, <2>1, <3>1, <3>2, RowTyped
  <2>. QED
    BY <2>5, <2>7, <2>8, <2>9
<1>. HIDE DEF to, from
<1>. QED
  BY <1>1, <1>3 DEF LinkFinds, to, from, Here

-----------------------------------------------------------------------------
(* What each commit does                                                   *)

LEMMA CommitOwns ==
    ASSUME Base, NEW q \in Reqs, NEW stage, At(q, stage), NEW l \in Locks(q)
    PROVE  Owns(q, l)
<1>1. \A r \in Reqs \ {q} : \A m \in held[r] : ~Conflict(l, m)
  BY Committing
<1>. QED
  BY <1>1 DEF Owns

LEMMA MergeOwns ==
    ASSUME Base, NEW q \in Reqs, LinkFinds(q), Merging(q)
    PROVE  /\ Owns(q, <<"erase", req[q].who[1]>>) /\ Owns(q, <<"erase", req[q].who[2]>>)
           /\ Here(req[q].who[1]) /\ Here(req[q].who[2])
           /\ req[q].who[1] \in People /\ req[q].who[2] \in People
<1>1. Staged(q) /\ LinkStaged(q) /\ Typed(q) /\ Exclusive
  BY DEF Base, Staged
<1>2. Len(req[q].who) = 2 /\ Erases(Members(q)) \subseteq held[q]
  BY <1>1 DEF Merging, LinkStaged, Is, LinkOps
<1>3. <<"erase", req[q].who[1]>> \in held[q] /\ <<"erase", req[q].who[2]>> \in held[q]
  <2>1. 1 \in DOMAIN req[q].who /\ 2 \in DOMAIN req[q].who
    BY <1>1, <1>2 DEF Typed, Record
  <2>. QED
    BY <1>2, <2>1 DEF Erases, Members, Range
<1>4. \A l \in held[q] : Owns(q, l)
  BY <1>1 DEF Exclusive, Owns
<1>5. Here(req[q].who[1]) /\ Here(req[q].who[2])
  BY DEF Merging, LinkFinds
<1>6. req[q].who[1] \in People /\ req[q].who[2] \in People
  BY <1>1, <1>2, PairOf
<1>. QED
  BY <1>3, <1>4, <1>5, <1>6

\* A step that leaves people and their ids alone.
LEMMA PeopleSame ==
    ASSUME Sound, NEW q \in Reqs, person' = person, personOf' = personOf
    PROVE  /\ \A p \in People : PersonEffect(q, p)
           /\ \A u \in Users : person'[personOf'[u]] = "here"
           /\ MergeEffect(q)
           /\ person' = person \/ relation' = relation
<1>1. LinkFinds(q) /\ Base /\ AllHere
  BY DEF Sound, Finds, RowsHold
<1>2. MergeEffect(q)
  BY <1>1, MergeOwns DEF MergeEffect
<1>3. \A u \in Users : person'[personOf'[u]] = "here"
  BY <1>1 DEF AllHere, Here
<1>. QED
  BY <1>2, <1>3 DEF PersonEffect

LEMMA RelationsSame ==
    ASSUME NEW q, relation' = relation
    PROVE  \A row \in relation' : RelationEffect(q, row)
  BY DEF RelationEffect

LEMMA QuietEffects ==
    ASSUME Sound, NEW q \in Reqs, UNCHANGED dataVars
    PROVE  Effects(q)
<1>1. UNCHANGED <<group, member, person, personOf, relation>>
  BY DEF dataVars, rowVars, peopleVars
<1>2. \A id \in RowIds : RowEffect(q, id)
  BY <1>1 DEF RowEffect, Kept
<1>3. \A g \in Groups : GroupEffect(q, g)
  BY <1>1 DEF GroupEffect
<1>. QED
  BY <1>1, <1>2, <1>3, PeopleSame, RelationsSame DEF Effects

\* The rows of new members refer to people who are locked.
LEMMA FreshReferred ==
    ASSUME NEW r \in Reqs, Typed(r), Staged(r), Is(r, Entries \cup Changes), ~Is(r, Edits), Stage(r) = "commit"
    PROVE  /\ req[r].fresh \subseteq Referred(r) /\ req[r].fresh \subseteq People
           /\ ShareLocks(Referred(r)) \subseteq held[r]
<1>1. req[r].fresh \subseteq People
  BY DEF Typed, Record
<1>2. CASE Is(r, Entries)
  <2>1. EntryStaged(r)
    BY DEF Staged
  <2>2. ShareLocks(Referred(r)) \subseteq held[r]
    BY <1>2, <2>1 DEF EntryStaged
  <2>3. CASE Is(r, {"add", "import"})
    BY <1>1, <2>2, <2>3 DEF Referred
  <2>4. CASE ~Is(r, {"add", "import"})
    <3>1. Len(req[r].who) = 1 /\ req[r].fresh \subseteq Members(r)
      BY <1>2, <2>1, <2>4 DEF EntryStaged, Roomy, Is, Entries
    <3>2. req[r].fresh \subseteq {Person(r)}
      BY <3>1 DEF Members, Range, Person, Typed, Record
    <3>. QED
      BY <1>1, <1>2, <2>2, <2>4, <3>2 DEF Referred, Is, Entries
  <2>. QED
    BY <2>3, <2>4
<1>3. CASE Is(r, Changes)
  <2>1. ChangeStaged(r)
    BY DEF Staged
  <2>2. ShareLocks(Referred(r)) \subseteq held[r]
    BY <1>3, <2>1 DEF ChangeStaged
  <2>3. req[r].fresh \subseteq {Person(r)} /\ (req[r].fresh # {} => Is(r, {"ban"}))
    BY <1>3, <2>1 DEF ChangeStaged
  <2>. QED
    BY <1>1, <2>2, <2>3 DEF Referred, Is
<1>. QED
  BY <1>2, <1>3 DEF Is

\* A new row is that of a person who had none.
LEMMA Creating ==
    ASSUME Sound, NEW q \in Reqs, At(q, "commit"), Is(q, Entries \cup Changes), ~Is(q, Edits), Vacant(q),
           NEW id \in RowIds, id[1] = Group(q), id[2] \in req[q].fresh, NEW status \in Statuses, status # "none",
           member'[id] = Row(id[2], status), group'[id[1]].status \in {"live", "deleted"},
           \/ <<"group", id[1]>> \in held[q] /\ Live(id[1])
           \/ Is(q, {"create"}) /\ group[id[1]].status = "none"
    PROVE  Created(q, id)
<1>1. Base /\ Owned /\ Typed(q) /\ Staged(q) /\ Stage(q) = "commit"
  BY Committing DEF Sound, RowsHold
<1>2. id[2] \in Referred(q) /\ <<"share", id[2]>> \in held[q]
  BY <1>1, FreshReferred DEF ShareLocks
<1>3. Here(id[2]) /\ RowsOf(id[1], id[2]) = {}
  BY <1>2 DEF Vacant
<1>4. ~Exists(id)
  <2>1. Exists(id) => member[id].person = id[2]
    BY <1>1, <1>3 DEF Owned, Here
  <2>. QED
    BY <1>3, <2>1 DEF RowsOf, Exists
<1>5. Owns(q, <<"share", id[2]>>) /\ (<<"group", id[1]>> \in held[q] => Owns(q, <<"group", id[1]>>))
  BY <1>1, <1>2, CommitOwns DEF Locks
<1>6. member'[id].person = id[2] /\ member'[id].version = 1 /\ Exists(id)'
  BY DEF Row, Exists
<1>7. ~Merging(q)
  BY DEF Merging, Is, Entries, Changes, Departures, Edits
<1>. QED
  BY <1>1, <1>3, <1>4, <1>5, <1>6, <1>7 DEF Created

LEMMA EntryEffects ==
    ASSUME Sound, NEW q \in Reqs, CommitEntry(q), relation' = relation
    PROVE  Effects(q)
<1>. DEFINE g == Group(q)
<1>1. At(q, "commit") /\ Is(q, Entries)
  BY DEF CommitEntry
<1>2. Base /\ Typed(q) /\ Staged(q) /\ Stage(q) = "commit" /\ RowTypes /\ g \in Groups
  BY <1>1, Committing, Names DEF Sound, Is
<1>3. EntryFinds(q) /\ EntryStaged(q)
  BY <1>2 DEF Sound, Finds, Staged
<1>4. Found(q) /\ Vacant(q) /\ RowLocks(req[q].rows) \subseteq held[q] /\ req[q].rows \subseteq InGroup(g)
  BY <1>1, <1>2, <1>3 DEF EntryFinds, EntryStaged, Roomy
<1>5. \/ <<"group", g>> \in held[q] /\ Live(g)
      \/ Is(q, {"create"}) /\ group[g].status = "none" /\ req[q].rows = {}
  BY <1>1, <1>2, <1>3 DEF EntryFinds, EntryStaged, Roomy, Inside
<1>6. group' = Touched(g)
  BY DEF CommitEntry
<1>7. ASSUME NEW id \in RowIds
      PROVE  RowEffect(q, id)
  <2>1. CASE id \in req[q].rows
    <3>1. Exists(id) /\ <<"row", id>> \in held[q] /\ id[1] = g
      BY <1>4, <2>1 DEF Found, RowLocks, InGroup
    <3>2. Owns(q, <<"row", id>>) /\ Owns(q, <<"group", g>>)
      BY <1>1, <1>2, <1>5, <2>1, <3>1, CommitOwns DEF Locks
    <3>3. member'[id] = [member[id] EXCEPT !.status = "active", !.version = @ + 1]
      BY <2>1 DEF CommitEntry
    <3>4. member[id] \in MemberRows
      BY <1>2 DEF RowTypes, MemberRows
    <3>. QED
      BY <3>1, <3>2, <3>3, <3>4 DEF RowEffect, Changed, Exists, MemberRows
  <2>2. CASE id \notin req[q].rows /\ id[1] = g /\ id[2] \in req[q].fresh
    <3>1. member'[id] = Row(id[2], "active")
      BY <2>2 DEF CommitEntry
    <3>2. "active" \in Statuses /\ ~Is(q, Edits) /\ Is(q, Entries \cup Changes)
      BY <1>1 DEF Statuses, Is, Entries, Edits
    <3>3. group'[g].status = "live"
      BY <1>2, <1>6 DEF Touched, RowTypes
    <3>4. Created(q, id)
      BY <1>1, <1>4, <1>5, <2>2, <3>1, <3>2, <3>3, Creating
    <3>. QED
      BY <3>4 DEF RowEffect
  <2>3. CASE id \notin req[q].rows /\ ~(id[1] = g /\ id[2] \in req[q].fresh)
    BY <2>3 DEF CommitEntry, RowEffect, Kept
  <2>. QED
    BY <2>1, <2>2, <2>3
<1>8. ASSUME NEW h \in Groups
      PROVE  GroupEffect(q, h)
  <2>1. CASE h # g
    BY <1>2, <1>6, <2>1 DEF Touched, RowTypes, GroupEffect
  <2>2. CASE h = g
    <3>1. group'[h].status = "live"
      BY <1>2, <1>6, <2>2 DEF Touched, RowTypes
    <3>2. <<"group", g>> \in held[q] => Owns(q, <<"group", g>>)
      BY <1>1, <1>2, CommitOwns DEF Locks
    <3>. QED
      BY <1>2, <1>5, <2>2, <3>1, <3>2 DEF GroupEffect, Live
  <2>. QED
    BY <2>1, <2>2
<1>9. person' = person /\ personOf' = personOf
  BY DEF CommitEntry, peopleVars
<1>. QED
  BY <1>7, <1>8, <1>9, PeopleSame, RelationsSame DEF Effects

LEMMA ChangeEffects ==
    ASSUME Sound, NEW q \in Reqs, CommitChange(q), relation' = relation
    PROVE  Effects(q)
<1>. DEFINE g == Group(q)
<1>1. At(q, "commit") /\ Is(q, Changes)
  BY DEF CommitChange
<1>2. Base /\ Typed(q) /\ Staged(q) /\ Stage(q) = "commit" /\ RowTypes /\ g \in Groups
  BY <1>1, Committing, Names DEF Sound, Is
<1>3. ChangeFinds(q) /\ ChangeStaged(q)
  BY <1>2 DEF Sound, Finds, Staged
<1>4. Found(q) /\ req[q].rows \subseteq InGroup(g)
  BY <1>1, <1>2, <1>3 DEF ChangeFinds, ChangeStaged
<1>5. ~Is(q, Edits) => <<"group", g>> \in held[q] /\ Live(g) /\ Vacant(q) /\ RowLocks(req[q].rows) \subseteq held[q]
  BY <1>1, <1>2, <1>3 DEF ChangeFinds, ChangeStaged
<1>6. Is(q, Edits) => req[q].fresh = {} /\ \A id \in req[q].rows : <<"row", id>> \in held[q]
  <2>1. SUFFICES ASSUME Is(q, Edits) PROVE req[q].fresh = {} /\ \A id \in req[q].rows : <<"row", id>> \in held[q]
    OBVIOUS
  <2>2. <<"row", CHOOSE i \in req[q].rows : TRUE>> \in held[q] /\ \A a, b \in req[q].rows : a = b
    BY <1>1, <1>2, <1>3, <2>1 DEF ChangeStaged, ChangeFinds
  <2>3. \A id \in req[q].rows : id = CHOOSE i \in req[q].rows : TRUE
    BY <2>2
  <2>4. req[q].fresh # {} => Is(q, {"ban"})
    BY <1>1, <1>2, <1>3 DEF ChangeStaged
  <2>. QED
    BY <2>1, <2>2, <2>3, <2>4 DEF Is, Edits
<1>7. /\ Is(q, Edits) => group' = group
      /\ ~Is(q, Edits) => /\ \A h \in Groups \ {g} : group'[h] = group[h]
                          /\ group'[g].status \in {"live", "deleted"}
  BY <1>2 DEF CommitChange, Touched, RowTypes
<1>8. ASSUME NEW id \in RowIds
      PROVE  RowEffect(q, id)
  <2>1. CASE id \in req[q].rows
    <3>1. Exists(id) /\ <<"row", id>> \in held[q] /\ id[1] = g
      BY <1>4, <1>5, <1>6, <2>1 DEF Found, RowLocks, InGroup
    <3>2. Owns(q, <<"row", id>>) /\ (~Is(q, Edits) => Owns(q, <<"group", g>>))
      BY <1>1, <1>2, <1>5, <3>1, CommitOwns DEF Locks
    <3>3. member'[id] = [member[id] EXCEPT !.version = @ + 1, !.noted = @ \/ Is(q, Edits),
                            !.status = IF Is(q, Edits) THEN @ ELSE NewStatus[Op(q).kind]]
      BY <2>1 DEF CommitChange
    <3>4. member[id] \in MemberRows
      BY <1>2 DEF RowTypes, MemberRows
    <3>5. ~Is(q, Edits) => NewStatus[Op(q).kind] \in {"left", "kicked", "banned"}
      BY <1>1 DEF Is, Changes, Departures, NewStatus
    <3>6. /\ member'[id].person = member[id].person /\ member'[id].version = member[id].version + 1
          /\ Is(q, Edits) => member'[id].status = member[id].status
          /\ ~Is(q, Edits) => member'[id].status \in {"left", "kicked", "banned"}
      BY <3>3, <3>4, <3>5 DEF MemberRows
    <3>. QED
      BY <3>1, <3>2, <3>6 DEF RowEffect, Changed, Exists
  <2>2. CASE id \notin req[q].rows /\ id[1] = g /\ id[2] \in req[q].fresh
    <3>1. member'[id] = Row(id[2], "banned")
      BY <2>2 DEF CommitChange
    <3>2. "banned" \in Statuses /\ ~Is(q, Edits) /\ Is(q, Entries \cup Changes)
      BY <1>1, <1>6, <2>2 DEF Statuses, Is
    <3>4. Created(q, id)
      BY <1>1, <1>5, <1>7, <2>2, <3>1, <3>2, Creating
    <3>. QED
      BY <3>4 DEF RowEffect
  <2>3. CASE id \notin req[q].rows /\ ~(id[1] = g /\ id[2] \in req[q].fresh)
    BY <2>3 DEF CommitChange, RowEffect, Kept
  <2>. QED
    BY <2>1, <2>2, <2>3
<1>9. ASSUME NEW h \in Groups
      PROVE  GroupEffect(q, h)
  <2>1. CASE group'[h] = group[h]
    BY <2>1 DEF GroupEffect
  <2>2. CASE h = g /\ ~Is(q, Edits)
    <3>1. Owns(q, <<"group", g>>)
      BY <1>1, <1>2, <1>5, <2>2, CommitOwns DEF Locks
    <3>. QED
      BY <1>5, <1>7, <2>2, <3>1 DEF GroupEffect, Live
  <2>. QED
    BY <1>7, <2>1, <2>2
<1>10. person' = person /\ personOf' = personOf
  BY DEF CommitChange
<1>. QED
  BY <1>8, <1>9, <1>10, PeopleSame, RelationsSame DEF Effects

LEMMA GroupOpEffects ==
    ASSUME Sound, NEW q \in Reqs, CommitGroup(q), relation' = relation
    PROVE  Effects(q)
<1>. DEFINE g == Group(q)
<1>1. At(q, "commit") /\ Is(q, GroupOps)
  BY DEF CommitGroup
<1>2. Base /\ Typed(q) /\ Staged(q) /\ Stage(q) = "commit" /\ RowTypes /\ g \in Groups
  BY <1>1, Committing, Names DEF Sound, Is
<1>3. GroupFinds(q) /\ GroupStaged(q)
  BY <1>2 DEF Sound, Finds, Staged
<1>4. /\ group[g].status \notin {"none", "gone"}
      /\ IF Is(q, {"erase"}) THEN <<"erase", g>> \in held[q] ELSE <<"group", g>> \in held[q]
      /\ Is(q, {"erase"}) => \A id \in InGroup(g) : Exists(id) => <<"row", id>> \in Locks(q)
  BY <1>1, <1>2, <1>3 DEF GroupFinds, GroupStaged
<1>5. IF Is(q, {"erase"}) THEN Owns(q, <<"erase", g>>) ELSE Owns(q, <<"group", g>>)
  BY <1>1, <1>2, <1>4, CommitOwns DEF Locks
<1>6. /\ \A h \in Groups \ {g} : group'[h] = group[h]
      /\ IF Is(q, {"erase"}) THEN group'[g].status = "gone" ELSE group'[g].status \in {"live", "deleted"}
  BY <1>1, <1>2 DEF CommitGroup, RowTypes, Is
<1>7. \A id \in RowIds : Is(q, {"erase"}) /\ id[1] = g => ~Exists(id)'
  BY <1>2 DEF CommitGroup, Exists, RowTypes
<1>8. ASSUME NEW id \in RowIds
      PROVE  RowEffect(q, id)
  <2>1. CASE ~Is(q, {"erase"}) \/ id[1] # g
    BY <2>1 DEF CommitGroup, RowEffect, Kept
  <2>2. CASE Is(q, {"erase"}) /\ id[1] = g /\ ~Exists(id)
    BY <1>7, <2>2 DEF RowEffect, Kept
  <2>3. CASE Is(q, {"erase"}) /\ id[1] = g /\ Exists(id)
    <3>1. Owns(q, <<"row", id>>)
      BY <1>1, <1>2, <1>4, <2>3, CommitOwns DEF InGroup
    <3>. QED
      BY <1>5, <1>6, <1>7, <2>3, <3>1 DEF RowEffect, Erased
  <2>. QED
    BY <2>1, <2>2, <2>3
<1>9. ASSUME NEW h \in Groups
      PROVE  GroupEffect(q, h)
  <2>1. CASE h # g
    BY <1>6, <2>1 DEF GroupEffect
  <2>2. CASE h = g
    <3>1. group'[h].status = "gone" => \A id \in InGroup(h) : ~Exists(id)'
      BY <1>6, <1>7, <2>2 DEF InGroup
    <3>. QED
      BY <1>4, <1>5, <1>6, <2>2, <3>1 DEF GroupEffect
  <2>. QED
    BY <2>1, <2>2
<1>10. person' = person /\ personOf' = personOf
  BY DEF CommitGroup, peopleVars
<1>. QED
  BY <1>8, <1>9, <1>10, PeopleSame, RelationsSame DEF Effects

\* A step that leaves groups and members alone.
LEMMA RowsSame ==
    ASSUME NEW q, UNCHANGED <<group, member>>
    PROVE  (\A id \in RowIds : RowEffect(q, id)) /\ (\A g \in Groups : GroupEffect(q, g))
  BY DEF RowEffect, Kept, GroupEffect

LEMMA FriendEffects ==
    ASSUME Sound, NEW q \in Reqs, CommitSend(q) \/ CommitAnswer(q) \/ CommitEnding(q)
    PROVE  Effects(q)
<1>. DEFINE x == req[q].who[1]
            y == req[q].who[2]
<1>1. /\ At(q, "commit") /\ Is(q, Friendly)
      /\ CommitSend(q) => Is(q, Sends)
      /\ CommitAnswer(q) => Is(q, Answerings)
      /\ CommitEnding(q) => Is(q, Endings)
  BY DEF CommitSend, CommitAnswer, CommitEnding, Is, Friendly
<1>2. Base /\ Typed(q) /\ Staged(q) /\ Stage(q) = "commit" /\ FriendFinds(q)
  BY <1>1, Committing DEF Sound, Finds
<1>3. UNCHANGED <<group, member, person, personOf>>
  BY DEF CommitSend, CommitAnswer, CommitEnding, rowVars, peopleVars
<1>4. Is(q, Sends \cup {"accept_friend", "block"}) =>
          /\ Here(x) /\ Here(y) /\ Owns(q, <<"share", x>>) /\ Owns(q, <<"share", y>>)
  <2>1. SUFFICES ASSUME Is(q, Sends \cup {"accept_friend", "block"})
                 PROVE  /\ Here(x) /\ Here(y) /\ Owns(q, <<"share", x>>) /\ Owns(q, <<"share", y>>)
    OBVIOUS
  <2>2. Here(x) /\ Here(y)
    BY <1>2, <2>1 DEF FriendFinds, Is
  <2>3. <<"share", x>> \in held[q] /\ <<"share", y>> \in held[q]
    BY <1>1, <1>2, <2>1 DEF Staged, FriendStaged, Is, Friendly
  <2>. QED
    BY <1>1, <1>2, <2>2, <2>3, CommitOwns DEF Locks
<1>. HIDE DEF x, y
<1>5. ASSUME NEW row \in relation'
      PROVE  RelationEffect(q, row)
  <2>1. CASE row \in relation
    BY <2>1 DEF RelationEffect
  <2>2. CASE /\ row \notin relation /\ row.from \in {x, y} /\ row.to \in {x, y}
             /\ Is(q, Sends \cup {"accept_friend", "block"})
    BY <1>4, <2>2 DEF RelationEffect
  <2>3. CASE \E old \in relation : row = [old EXCEPT !.type = "friend"]
    <3>1. \A old \in relation : [old EXCEPT !.type = "friend"].from = old.from
                                /\ [old EXCEPT !.type = "friend"].to = old.to
      BY <1>2 DEF Base, RowTypes
    <3>. QED
      BY <2>3, <3>1 DEF RelationEffect
  <2>4. \A id, type : /\ Relation(id, x, y, type).from = x /\ Relation(id, x, y, type).to = y
                      /\ Relation(id, y, x, type).from = y /\ Relation(id, y, x, type).to = x
    BY DEF Relation
  <2>5. CASE CommitSend(q)
    <3>1. row \in relation \/ row = Relation(<<q, 1>>, x, y, SentType(q)) \/ row = Relation(<<q, 2>>, y, x, "friend")
      BY <2>5 DEF CommitSend, x, y
    <3>2. Is(q, Sends \cup {"accept_friend", "block"})
      BY <1>1, <2>5 DEF Is
    <3>. QED
      BY <2>1, <2>2, <2>4, <3>1, <3>2
  <2>6. CASE CommitAnswer(q)
    <3>1. WithId(Op(q).item) \subseteq relation
      BY DEF WithId
    <3>2. \/ row \in relation \/ \E old \in relation : row = [old EXCEPT !.type = "friend"]
          \/ row = Relation(<<q, 2>>, y, x, "friend") /\ ~Is(q, {"withdraw"})
      BY <2>6, <3>1 DEF CommitAnswer, x, y
    <3>3. ~Is(q, {"withdraw"}) => Is(q, Sends \cup {"accept_friend", "block"})
      BY <1>1, <2>6 DEF Is, Answerings
    <3>. QED
      BY <2>1, <2>2, <2>3, <2>4, <3>2, <3>3
  <2>7. CASE CommitEnding(q)
    <3>1. row \in relation \/ (row = Relation(<<q, 1>>, x, y, "blocked") /\ Is(q, {"block"}))
      BY <2>7 DEF CommitEnding, x, y
    <3>2. Is(q, {"block"}) => Is(q, Sends \cup {"accept_friend", "block"})
      BY DEF Is
    <3>. QED
      BY <2>1, <2>2, <2>4, <3>1, <3>2
  <2>. QED
    BY <2>5, <2>6, <2>7
<1>. QED
  BY <1>3, <1>5, RowsSame, PeopleSame DEF Effects

LEMMA RedeemEffects ==
    ASSUME Sound, NEW q \in Reqs, CommitRedeem(q)
    PROVE  Effects(q)
<1>. DEFINE to == req[q].who[1]
            from == req[q].who[2]
<1>1. At(q, "commit") /\ Is(q, {"redeem"}) /\ UNCHANGED <<group, relation>>
  BY DEF CommitRedeem
<1>2. /\ Base /\ Typed(q) /\ Staged(q) /\ LinkStaged(q) /\ Stage(q) = "commit" /\ RowTypes /\ LinkFinds(q)
      /\ Owned /\ AllHere
  BY <1>1, Committing DEF Sound, Finds, Staged, RowsHold
<1>3. Len(req[q].who) = 2
  BY <1>1, <1>2 DEF LinkStaged, Is, LinkOps
<1>4. CASE UNCHANGED <<member, personOf, person>>
  BY <1>1, <1>4, RowsSame, PeopleSame, RelationsSame DEF Effects
<1>5. CASE Merge(q) /\ Cardinality(Range(req[q].who)) # 1
  <2>1. to # from
    BY <1>2, <1>3, <1>5, TwoOf DEF Typed, Record
  <2>2. Merging(q)
    BY <1>1, <1>2, <2>1 DEF Merging
  <2>3. /\ Owns(q, <<"erase", to>>) /\ Owns(q, <<"erase", from>>)
        /\ Here(to) /\ Here(from) /\ to \in People /\ from \in People
    BY <1>2, <2>2, MergeOwns
  <2>4. /\ \A id \in RowIds : Exists(id) => (member[id].person = from <=> id \in req[q].rows)
        /\ \A row \in relation : row.from # from /\ row.to # from
        /\ \A id \in req[q].rows : <<"row", id>> \in Locks(q)
    BY <1>1, <1>2, <2>1 DEF LinkFinds, LinkStaged, Is, LinkOps, RowLocks
  <2>5. /\ person'[from] = "gone" /\ \A p \in People \ {from} : person'[p] = person[p]
    BY <1>2, <1>5, <2>3 DEF Merge, RowTypes
  <2>6. \A u \in Users : person'[personOf'[u]] = "here"
    <3>1. ASSUME NEW u \in Users
          PROVE  person'[personOf'[u]] = "here"
      <4>1. personOf'[u] = IF personOf[u] = from THEN to ELSE personOf[u]
        BY <1>5 DEF Merge
      <4>2. personOf[u] \in People /\ Here(personOf[u])
        BY <1>2 DEF RowTypes, AllHere
      <4>. QED
        BY <2>1, <2>3, <2>5, <4>1, <4>2 DEF Here
    <3>. QED
      BY <3>1
  <2>7. ASSUME NEW id \in RowIds
        PROVE  RowEffect(q, id) /\ (member[id].person = from => ~Exists(id)' \/ member'[id].person = to)
    <3>1. member[id] \in MemberRows
      BY <1>2 DEF RowTypes, MemberRows
    <3>2. CASE id \in req[q].rows /\ Exists(id)
      <4>1. /\ member[id].person = from /\ Owns(q, <<"row", id>>)
        BY <1>1, <1>2, <2>4, <3>2, CommitOwns
      <4>2. \/ member'[id] = [member[id] EXCEPT !.status = "none"]
            \/ RowsOf(id[1], to) = {} /\ member'[id] = [member[id] EXCEPT !.person = to, !.version = @ + 1]
        BY <1>5, <3>2 DEF Merge, Exists
      <4>3. \/ ~Exists(id)'
            \/ /\ RowsOf(id[1], to) = {} /\ member'[id].person = to
               /\ member'[id].version = member[id].version + 1 /\ member'[id].status = member[id].status
        BY <3>1, <4>2 DEF MemberRows, Exists
      <4>. HIDE DEF to, from
      <4>. QED
        BY <2>2, <2>5, <3>2, <4>1, <4>3 DEF RowEffect, Merged, to, from
    <3>3. CASE ~(id \in req[q].rows /\ Exists(id))
      <4>1. member'[id] = member[id]
        BY <1>5, <3>3 DEF Merge, Exists
      <4>2. member[id].person = from => ~Exists(id)
        BY <2>4, <3>3
      <4>. QED
        BY <4>1, <4>2 DEF RowEffect, Kept, Exists
    <3>. QED
      BY <3>2, <3>3
  <2>8. \A p \in People : PersonEffect(q, p)
    BY <2>2, <2>5 DEF PersonEffect
  <2>9. MergeEffect(q)
    BY <2>3, <2>4, <2>5, <2>7 DEF MergeEffect
  <2>10. \A g \in Groups : GroupEffect(q, g)
    BY <1>1 DEF GroupEffect
  <2>. QED
    BY <1>1, <2>6, <2>7, <2>8, <2>9, <2>10, RelationsSame DEF Effects
<1>. QED
  BY <1>4, <1>5 DEF CommitRedeem

LEMMA UnlinkEffects ==
    ASSUME Sound, NEW q \in Reqs, CommitUnlink(q)
    PROVE  Effects(q)
<1>1. UNCHANGED <<group, member, relation>> /\ At(q, "commit") /\ Is(q, {"unlink"})
  BY DEF CommitUnlink, rowVars
<1>2. RowTypes /\ AllHere
  BY DEF Sound, Base, RowsHold
<1>3. NextPerson \in People /\ person[NextPerson] = "none"
  BY DEF CommitUnlink, NextPerson
<1>4. person'[NextPerson] = "here" /\ \A p \in People \ {NextPerson} : person'[p] = person[p]
  BY <1>2, <1>3 DEF CommitUnlink, RowTypes
<1>5. ~Merging(q)
  BY <1>1 DEF Merging, Is
<1>6. \A p \in People : PersonEffect(q, p)
  BY <1>3, <1>4 DEF PersonEffect
<1>7. ASSUME NEW u \in Users
      PROVE  person'[personOf'[u]] = "here"
  <2>1. personOf'[u] = NextPerson \/ personOf'[u] = personOf[u]
    BY <1>2 DEF CommitUnlink, RowTypes
  <2>2. personOf[u] \in People /\ Here(personOf[u])
    BY <1>2 DEF RowTypes, AllHere
  <2>. QED
    BY <1>3, <1>4, <2>1, <2>2 DEF Here
<1>. QED
  BY <1>1, <1>5, <1>6, <1>7, RowsSame, RelationsSame DEF Effects, MergeEffect

\* What any step does to the rows.
LEMMA StepEffects ==
    ASSUME Sound, NEW q \in Reqs, Step(q)
    PROVE  Effects(q)
<1>1. CASE UNCHANGED dataVars
  BY <1>1, QuietEffects
<1>2. CASE (CommitEntry(q) \/ CommitChange(q) \/ CommitGroup(q)) /\ UNCHANGED <<relation, code>>
  BY <1>2, EntryEffects, ChangeEffects, GroupOpEffects
<1>3. CASE (WriteInvite(q) \/ CommitIssue(q)) /\ UNCHANGED relation
  <2>1. UNCHANGED <<group, member, person, personOf>>
    BY <1>3 DEF WriteInvite, CommitIssue, rowVars, peopleVars
  <2>. QED
    BY <1>3, <2>1, RowsSame, PeopleSame, RelationsSame DEF Effects
<1>4. CASE CommitSend(q) \/ CommitAnswer(q) \/ CommitEnding(q)
  BY <1>4, FriendEffects
<1>5. CASE CommitRedeem(q) \/ CommitUnlink(q)
  BY <1>5, RedeemEffects, UnlinkEffects
<1>6. UNCHANGED dataVars \/ Writes(q)
  BY Quiet DEF Sound
<1>7. CommitIssue(q) => UNCHANGED relation
  BY DEF CommitIssue
<1>. QED
  BY <1>1, <1>2, <1>3, <1>4, <1>5, <1>6, <1>7 DEF Writes

-----------------------------------------------------------------------------
(* What a request finds at its own steps                                   *)

LEMMA Went ==
    ASSUME Base, NEW q \in Reqs, NEW next, Goes(q, next)
    PROVE  req'[q] = next
  BY DEF Goes, Base, Shaped

LEMMA Ended ==
    ASSUME Base, NEW q \in Reqs, NEW answer, Answer(q, answer)
    PROVE  /\ req'[q].at = "done" /\ req'[q].answer = answer /\ req'[q].who = req[q].who
           /\ req'[q].rows = req[q].rows /\ req'[q].fresh = req[q].fresh /\ req'[q].seen = req[q].seen
<1>1. req'[q] = [To(q, "done", <<>>) EXCEPT !.answer = answer] /\ Typed(q)
  BY DEF Answer, Base, Shaped
<1>. QED
  BY <1>1 DEF To, Typed, Record

\* What is kept when only the stage and the locks change.
Rest(q) ==
    /\ req'[q].who = req[q].who /\ req'[q].rows = req[q].rows /\ req'[q].fresh = req[q].fresh
    /\ req'[q].seen = req[q].seen

LEMMA WentTo ==
    ASSUME Base, NEW q \in Reqs, NEW stage, NEW locks, Goes(q, To(q, stage, locks))
    PROVE  req'[q].at = stage /\ Rest(q) /\ req'[q].found = req[q].found
<1>1. req'[q] = To(q, stage, locks) /\ Typed(q)
  BY Went DEF Base
<1>. QED
  BY <1>1 DEF To, Typed, Record, Rest

\* What a step sets besides the stage and the locks.
LEMMA WentWith ==
    ASSUME Base, NEW q \in Reqs, NEW stage, NEW locks, NEW who, NEW rows, NEW fresh, NEW seen, NEW found
    PROVE  /\ Goes(q, [To(q, stage, locks) EXCEPT !.who = who]) =>
                 /\ req'[q].at = stage /\ req'[q].who = who /\ req'[q].rows = req[q].rows
                 /\ req'[q].fresh = req[q].fresh /\ req'[q].seen = req[q].seen
           /\ Goes(q, [To(q, stage, locks) EXCEPT !.rows = rows]) =>
                 /\ req'[q].at = stage /\ req'[q].who = req[q].who /\ req'[q].rows = rows
                 /\ req'[q].fresh = req[q].fresh /\ req'[q].seen = req[q].seen
           /\ Goes(q, [To(q, stage, locks) EXCEPT !.fresh = fresh]) =>
                 /\ req'[q].at = stage /\ req'[q].who = req[q].who /\ req'[q].rows = req[q].rows
                 /\ req'[q].fresh = fresh /\ req'[q].seen = req[q].seen
           /\ Goes(q, [To(q, stage, locks) EXCEPT !.found = found]) =>
                 req'[q].at = stage /\ Rest(q) /\ req'[q].found = found
           /\ Goes(q, [To(q, stage, locks) EXCEPT !.who = who, !.seen = seen]) =>
                 /\ req'[q].at = stage /\ req'[q].who = who /\ req'[q].rows = req[q].rows
                 /\ req'[q].fresh = req[q].fresh /\ req'[q].seen = seen
           /\ Goes(q, [To(q, stage, locks) EXCEPT !.who = who, !.fresh = fresh]) =>
                 /\ req'[q].at = stage /\ req'[q].who = who /\ req'[q].rows = req[q].rows
                 /\ req'[q].fresh = fresh /\ req'[q].seen = req[q].seen
           /\ Goes(q, [To(q, stage, locks) EXCEPT !.who = who, !.rows = rows]) =>
                 /\ req'[q].at = stage /\ req'[q].who = who /\ req'[q].rows = rows
                 /\ req'[q].fresh = req[q].fresh /\ req'[q].seen = req[q].seen
           /\ Goes(q, [To(q, stage, locks) EXCEPT !.rows = rows, !.fresh = fresh]) =>
                 /\ req'[q].at = stage /\ req'[q].who = req[q].who /\ req'[q].rows = rows
                 /\ req'[q].fresh = fresh /\ req'[q].seen = req[q].seen
           /\ Goes(q, [To(q, stage, locks) EXCEPT !.who = who, !.rows = rows, !.fresh = fresh]) =>
                 /\ req'[q].at = stage /\ req'[q].who = who /\ req'[q].rows = rows
                 /\ req'[q].fresh = fresh /\ req'[q].seen = req[q].seen
<1>1. Typed(q) /\ \A next : Goes(q, next) => req'[q] = next
  BY Went DEF Base
<1>. QED
  BY <1>1 DEF To, Typed, Record, Rest

LEMMA WentAgain ==
    ASSUME Base, NEW q \in Reqs, NEW stage, NEW locks, Again(q, stage, locks)
    PROVE  /\ req'[q].at \in {"done", stage} /\ Rest(q)
<1>1. CASE Answer(q, "error")
  BY <1>1, Ended DEF Rest
<1>2. CASE req' = [req EXCEPT ![q] = [To(q, stage, locks) EXCEPT !.again = TRUE]]
  <2>1. req'[q] = [To(q, stage, locks) EXCEPT !.again = TRUE] /\ Typed(q)
    BY <1>2 DEF Base, Shaped
  <2>. QED
    BY <2>1 DEF To, Typed, Record, Rest
<1>. QED
  BY <1>1, <1>2 DEF Again

\* The next of several locks of a statement.
LEMMA WentOn ==
    ASSUME Base, NEW q \in Reqs, Take(q)
    PROVE  /\ req'[q].at = req[q].at /\ Rest(q) /\ req'[q].found = req[q].found
           /\ req'[q].answer = req[q].answer
<1>1. req'[q] = [req[q] EXCEPT !.todo = Tail(@)] /\ Typed(q)
  BY DEF Take, Base, Shaped
<1>. QED
  BY <1>1 DEF Typed, Record, Rest

LEMMA Unmoved ==
    ASSUME NEW q, Op(q)' = Op(q), UNCHANGED dataVars
    PROVE  /\ Group(q)' = Group(q) /\ Stage(q)' = req'[q].at /\ (\A kinds : Is(q, kinds)' <=> Is(q, kinds))
           /\ UNCHANGED <<group, member, person, relation, invite, personOf, marked, code>>
           /\ \A g : Live(g)' <=> Live(g)
           /\ \A g, p : RowsOf(g, p)' = RowsOf(g, p)
           /\ \A id : Exists(id)' <=> Exists(id)
           /\ \A p : Here(p)' <=> Here(p)
  BY DEF Group, Stage, Is, dataVars, rowVars, peopleVars, Live, RowsOf, Exists, Here

\* What was found at a stage is found where nothing else has changed.
LEMMA VacantSame ==
    ASSUME NEW q, Op(q)' = Op(q), UNCHANGED dataVars, Rest(q)
    PROVE  (Vacant(q)' <=> Vacant(q)) /\ (Found(q)' <=> Found(q)) /\ Referred(q)' = Referred(q)
<1>1. Referred(q)' = Referred(q)
  BY ReferredSame DEF Rest
<1>. QED
  BY <1>1, Unmoved DEF Vacant, Found, Rest

LEMMA EntryFound ==
    ASSUME Base, NEW q \in Reqs, Entry(q), UNCHANGED dataVars, EntryFinds(q), Op(q)' = Op(q)
    PROVE  EntryFinds(q)'
<1>. DEFINE g == Group(q)
<1>1. Typed(q) /\ EntryStaged(q)
  BY DEF Base, Staged
<1>2. CASE req'[q].at = "done"
  BY <1>2 DEF EntryFinds, Stage, Inside
<1>3. CASE req'[q].at = "group" /\ ~Is(q, {"create"})
  BY <1>3, Unmoved DEF EntryFinds, Inside
<1>4. ASSUME req'[q].at \in {"rows", "counts", "invite", "row"}, Live(g), ~Is(q, {"create"})
      PROVE  EntryFinds(q)'
  <2>1. Stage(q)' \notin {"share", "commit"}
    BY <1>4, Unmoved
  <2>. QED
    BY <1>4, <2>1, Unmoved DEF EntryFinds
<1>5. ASSUME req'[q].at \in {"counts", "row"}, Is(q, {"create"}), group[g].status = "none"
      PROVE  EntryFinds(q)'
  <2>1. Stage(q)' \notin {"share", "commit"}
    BY <1>5, Unmoved
  <2>. QED
    BY <1>5, <2>1, Unmoved DEF EntryFinds
<1>6. CASE BeginEntry(q) \/ BeginImport(q)
  <2>1. ~Is(q, {"create"})
    BY <1>6 DEF BeginEntry, BeginImport, Is
  <2>2. CASE \E answer \in Answers : Answer(q, answer)
    BY <1>2, <2>2, Ended
  <2>3. ASSUME NEW who, NEW seen, Goes(q, [To(q, "group", GroupLock(g)) EXCEPT !.who = who, !.seen = seen])
        PROVE  EntryFinds(q)'
    <3>1. req'[q].at = "group"
      BY <1>1, <2>3, WentWith
    <3>. QED
      BY <1>3, <2>1, <3>1
  <2>4. CASE Goes(q, To(q, "group", GroupLock(g)))
    BY <1>3, <2>1, <2>4, WentTo
  <2>. QED
    BY <1>6, <2>2, <2>3, <2>4 DEF BeginEntry, BeginImport, Answers
<1>7. CASE BeginCreate(q)
  <2>1. PICK locks, who, fresh : Goes(q, [To(q, "counts", locks) EXCEPT !.who = who, !.fresh = fresh])
    BY <1>7 DEF BeginCreate
  <2>2. req'[q].at = "counts"
    BY <1>1, <2>1, WentWith
  <2>. QED
    BY <1>5, <1>7, <2>2 DEF BeginCreate
<1>8. CASE EnterGroup(q)
  <2>1. CASE \E answer \in Answers : Answer(q, answer)
    BY <1>2, <2>1, Ended
  <2>2. ASSUME NEW locks, Live(g), Goes(q, [To(q, "counts", locks) EXCEPT !.rows = RowsOf(g, Person(q)),
                          !.fresh = IF RowsOf(g, Person(q)) = {} THEN {Person(q)} ELSE {}])
        PROVE  EntryFinds(q)'
    <3>1. req'[q].at = "counts"
      BY <1>1, <2>2, WentWith
    <3>. QED
      BY <1>4, <1>8, <2>2, <3>1 DEF EnterGroup, Is
  <2>. QED
    BY <1>8, <2>1, <2>2 DEF EnterGroup, Answers
<1>9. CASE ImportPeople(q)
  <2>1. CASE \E answer \in Answers : Answer(q, answer)
    BY <1>2, <2>1, Ended
  <2>2. ASSUME NEW order, NEW who, Live(g), Goes(q, [To(q, "rows", order) EXCEPT !.who = who])
        PROVE  EntryFinds(q)'
    <3>1. req'[q].at = "rows"
      BY <1>1, <2>2, WentWith
    <3>. QED
      BY <1>4, <1>9, <2>2, <3>1 DEF ImportPeople, Is
  <2>. QED
    BY <1>9, <2>1, <2>2 DEF ImportPeople, Answers
<1>10. CASE ImportRows(q)
  <2>0. Live(g) /\ ~Is(q, {"create"})
    BY <1>10 DEF EntryFinds, ImportRows, Inside, Is, Entries, At, Stage
  <2>1. CASE \E answer \in Answers : Answer(q, answer)
    BY <1>2, <2>1, Ended
  <2>2. ASSUME NEW locks, NEW who, NEW rows, NEW fresh,
               Goes(q, [To(q, "counts", locks) EXCEPT !.who = who, !.rows = rows, !.fresh = fresh])
        PROVE  EntryFinds(q)'
    <3>1. req'[q].at = "counts"
      BY <1>1, <2>2, WentWith
    <3>. QED
      BY <1>4, <2>0, <3>1
  <2>. QED
    BY <1>10, <2>1, <2>2 DEF ImportRows, Answers
<1>11. CASE EnterCounts(q) \/ EnterInvite(q)
  <2>0. /\ ~Is(q, {"create"}) => Live(g)
        /\ Is(q, {"create"}) => group[g].status = "none"
    BY <1>11 DEF EntryFinds, EnterCounts, EnterInvite, Inside, Is, Entries, At, Stage
  <2>1. CASE \E answer \in Answers : Answer(q, answer)
    BY <1>2, <2>1, Ended
  <2>2. ASSUME NEW locks, NEW stage \in {"invite", "row"}, Goes(q, To(q, stage, locks)),
               stage = "invite" => Is(q, {"accept"})
        PROVE  EntryFinds(q)'
    <3>1. req'[q].at = stage
      BY <2>2, WentTo
    <3>2. stage = "invite" => ~Is(q, {"create"})
      BY <2>2 DEF Is
    <3>. QED
      BY <1>4, <1>5, <2>0, <3>1, <3>2
  <2>. QED
    BY <1>11, <2>1, <2>2 DEF EnterCounts, EnterInvite, Answers
<1>12. CASE EnterRow(q) \/ EnterShare(q)
  <2>0. /\ ~Is(q, {"create"}) => Live(g)
        /\ Is(q, {"create"}) => group[g].status = "none"
        /\ EnterShare(q) => Found(q)
    BY <1>12 DEF EntryFinds, EnterRow, EnterShare, Inside, At, Stage
  <2>1. CASE \E answer \in Answers : Answer(q, answer)
    BY <1>2, <2>1, Ended
  <2>2. CASE EnterRow(q) /\ ~(\E id \in req[q].rows : member[id].status = "none")
    <3>1. PICK locks : Goes(q, To(q, "share", locks))
      BY <2>2 DEF EnterRow
    <3>2. req'[q].at = "share" /\ Rest(q)
      BY <3>1, WentTo
    <3>3. Found(q)'
      BY <2>2, <3>2, VacantSame DEF Found, Exists
    <3>. QED
      BY <2>0, <3>2, <3>3, Unmoved DEF EntryFinds
  <2>3. CASE EnterShare(q) /\ Goes(q, To(q, "commit", <<>>)) /\ ~(\E p \in Referred(q) : Orphan(p)) /\ ~Taken(q)
    <3>1. req'[q].at = "commit" /\ Rest(q)
      BY <2>3, WentTo
    <3>2. Vacant(q) /\ Found(q)
      BY <2>0, <2>3 DEF Vacant, Taken, Orphan, Here
    <3>. QED
      BY <2>0, <3>1, <3>2, Unmoved, VacantSame DEF EntryFinds
  <2>4. CASE Again(q, "group", GroupLock(g)) /\ Is(q, {"add", "import"})
    <3>1. ~Is(q, {"create"})
      BY <2>4 DEF Is
    <3>. QED
      BY <1>2, <1>3, <2>4, <3>1, WentAgain
  <2>. QED
    BY <1>12, <2>1, <2>2, <2>3, <2>4 DEF EnterRow, EnterShare, Answers
<1>13. CASE CommitEntry(q)
  BY <1>2, <1>13, Ended DEF CommitEntry
<1>. QED
  BY <1>6, <1>7, <1>8, <1>9, <1>10, <1>11, <1>12, <1>13 DEF Entry

LEMMA OneRowOf ==
    ASSUME OneRow, NEW g, NEW p
    PROVE  \A a, b \in RowsOf(g, p) : a = b
  BY DEF OneRow, RowsOf, Exists

LEMMA ChangeFound ==
    ASSUME Base, OneRow, NEW q \in Reqs, Change(q), UNCHANGED dataVars, ChangeFinds(q), Op(q)' = Op(q)
    PROVE  ChangeFinds(q)'
<1>. DEFINE g == Group(q)
            Single(S) == \A a, b \in S : a = b
<1>1. Typed(q) /\ ChangeStaged(q)
  BY DEF Base, Staged
<1>2. CASE req'[q].at = "done"
  BY <1>2, Unmoved DEF ChangeFinds
<1>3. ASSUME req'[q].at \in {"group", "row"}, Single(req'[q].rows), ~Is(q, Edits) /\ req'[q].at = "row" => Live(g)
      PROVE  ChangeFinds(q)'
  <2>1. Stage(q)' \notin {"settle", "commit"} /\ Stage(q)' \in {"group", "row"}
    BY <1>3, Unmoved
  <2>. QED
    BY <1>3, <2>1, Unmoved DEF ChangeFinds
<1>4. CASE BeginChange(q)
  <2>1. CASE \E answer \in Answers : Answer(q, answer)
    BY <1>2, <2>1, Ended
  <2>2. ASSUME NEW who, NEW seen, NEW stage \in {"row", "group"}, NEW p, NEW locks,
               ~Is(q, Edits) => stage = "group",
               Goes(q, [To(q, stage, locks) EXCEPT !.who = who, !.rows = RowsOf(g, p), !.seen = seen])
        PROVE  ChangeFinds(q)'
    <3>. DEFINE rows == RowsOf(g, p)
    <3>1. Single(rows)
      BY OneRowOf
    <3>2. Goes(q, [To(q, stage, locks) EXCEPT !.who = who, !.rows = rows, !.seen = seen])
      BY <2>2
    <3>. HIDE DEF rows
    <3>3. req'[q].at = stage /\ req'[q].rows = rows
      <4>1. req'[q] = [To(q, stage, locks) EXCEPT !.who = who, !.rows = rows, !.seen = seen]
        BY <3>2, Went
      <4>. QED
        BY <1>1, <4>1 DEF To, Typed, Record
    <3>. QED
      BY <1>3, <2>2, <3>1, <3>3
  <2>. QED
    BY <1>4, <2>1, <2>2 DEF BeginChange, Answers
<1>5. CASE ChangeGroup(q)
  <2>1. CASE \E answer \in Answers : Answer(q, answer)
    BY <1>2, <2>1, Ended
  <2>2. ASSUME NEW rows, NEW fresh, NEW found, NEW order, Live(g), Single(rows),
               Goes(q, [To(q, "row", order) EXCEPT !.rows = rows, !.fresh = fresh, !.found = found])
        PROVE  ChangeFinds(q)'
    <3>3. req'[q].at = "row" /\ req'[q].rows = rows
      <4>1. req'[q] = [To(q, "row", order) EXCEPT !.rows = rows, !.fresh = fresh, !.found = found]
        BY <2>2, Went
      <4>. QED
        BY <1>1, <4>1 DEF To, Typed, Record
    <3>. QED
      BY <1>3, <2>2, <3>3
  <2>3. Single(RowsOf(g, Person(q))) /\ Single(req[q].rows)
    BY <1>5, OneRowOf DEF ChangeFinds, ChangeGroup, At, Stage
  <2>. QED
    BY <1>5, <2>1, <2>2, <2>3 DEF ChangeGroup, Answers
<1>6. CASE ChangeRow(q)
  <2>0. Single(req[q].rows) /\ (~Is(q, Edits) => Live(g))
    BY <1>6 DEF ChangeFinds, ChangeRow, At, Stage
  <2>1. CASE \E answer \in Answers : Answer(q, answer)
    BY <1>2, <2>1, Ended
  <2>2. ASSUME NEW locks, NEW stage \in {"settle", "commit"}, stage = "commit" <=> Is(q, Edits),
               Goes(q, To(q, stage, locks)), ~\E id \in req[q].rows : Misses(q, id)
        PROVE  ChangeFinds(q)'
    <3>1. req'[q].at = stage /\ Rest(q)
      BY <2>2, WentTo
    <3>2. Found(q)'
      BY <2>2, <3>1, VacantSame DEF Found, Misses, Exists
    <3>3. Stage(q)' = stage /\ Single(req'[q].rows)
      BY <2>0, <3>1, Unmoved DEF Rest
    <3>. QED
      BY <2>0, <2>2, <3>2, <3>3, Unmoved DEF ChangeFinds
  <2>. QED
    BY <1>6, <2>1, <2>2 DEF ChangeRow, Answers
<1>7. CASE Settle(q)
  <2>0. Single(req[q].rows) /\ ~Is(q, Edits) /\ Live(g) /\ Found(q)
    BY <1>1, <1>7 DEF ChangeFinds, Settle, At, Stage, ChangeStaged
  <2>1. CASE \E answer \in Answers : Answer(q, answer)
    BY <1>2, <2>1, Ended
  <2>2. CASE Again(q, "group", GroupLock(g))
    <3>1. req'[q].at \in {"group", "done"} /\ Single(req'[q].rows)
      BY <2>0, <2>2, WentAgain DEF Rest
    <3>. QED
      BY <1>2, <1>3, <3>1
  <2>3. ASSUME NEW found, Goes(q, [To(q, "commit", <<>>) EXCEPT !.found = found]),
               ~(\E p \in Referred(q) : Orphan(p)), ~Taken(q)
        PROVE  ChangeFinds(q)'
    <3>1. req'[q].at = "commit" /\ Rest(q)
      BY <2>3, WentWith
    <3>2. Vacant(q)
      BY <2>3 DEF Vacant, Taken, Orphan, Here
    <3>3. Vacant(q)' /\ Found(q)' /\ Single(req'[q].rows)
      BY <2>0, <3>1, <3>2, VacantSame DEF Rest
    <3>. QED
      BY <2>0, <3>1, <3>3, Unmoved DEF ChangeFinds
  <2>. QED
    BY <1>7, <2>1, <2>2, <2>3 DEF Settle, Answers
<1>8. CASE CommitChange(q)
  BY <1>2, <1>8, Ended DEF CommitChange
<1>. QED
  BY <1>4, <1>5, <1>6, <1>7, <1>8 DEF Change

LEMMA GroupFound ==
    ASSUME Base, NEW q \in Reqs, GroupOp(q), UNCHANGED dataVars, GroupFinds(q), Op(q)' = Op(q)
    PROVE  GroupFinds(q)'
<1>. DEFINE g == Group(q)
<1>1. Typed(q) /\ GroupStaged(q) /\ Progress(q)
  <2>1. Step(q)
    BY DEF Step, dataVars
  <2>. QED
    BY <2>1, StepProgress DEF Base, Staged
<1>2. CASE req'[q].at = "done"
  BY <1>2, Unmoved DEF GroupFinds
<1>3. ASSUME req'[q].at \in {"group", "list", "counts"}, group[g].status # "none"
      PROVE  GroupFinds(q)'
  <2>1. Stage(q)' # "commit"
    BY <1>3, Unmoved
  <2>. QED
    BY <1>3, <2>1, Unmoved DEF GroupFinds
<1>4. CASE \E answer \in Answers : Answer(q, answer)
  BY <1>2, <1>4, Ended
<1>5. CASE BeginGroup(q) /\ ~(\E answer \in Answers : Answer(q, answer))
  <2>1. PICK locks : /\ group[g].status # "none"
                     /\ \/ Goes(q, To(q, "group", locks))
                        \/ Goes(q, To(q, "list", locks))
    BY <1>5 DEF BeginGroup, Answers
  <2>. QED
    BY <1>3, <2>1, WentTo
<1>6. CASE RestoreList(q)
  <2>1. PICK locks, who : Goes(q, [To(q, "counts", locks) EXCEPT !.fresh = who])
    BY <1>6 DEF RestoreList
  <2>2. req'[q].at = "counts"
    BY <2>1, WentWith
  <2>3. group[g].status # "none"
    BY <1>6 DEF GroupFinds, RestoreList, At, Stage, Is, GroupOps
  <2>. QED
    BY <1>3, <2>2, <2>3
<1>7. CASE RestoreCounts(q) /\ ~(\E answer \in Answers : Answer(q, answer))
  <2>1. Goes(q, To(q, "group", GroupLock(g)))
    BY <1>7 DEF RestoreCounts, Answers
  <2>2. group[g].status # "none"
    BY <1>7 DEF GroupFinds, RestoreCounts, At, Stage, Is, GroupOps
  <2>. QED
    BY <1>3, <2>1, <2>2, WentTo
<1>8. CASE GroupLocked(q) /\ ~(\E answer \in Answers : Answer(q, answer))
  <2>0. Is(q, GroupOps) /\ group[g].status \notin {"none", "gone"}
    BY <1>8 DEF GroupFinds, GroupLocked, At, Stage, Answers
  <2>1. PICK locks : /\ Goes(q, To(q, "commit", locks))
                     /\ Is(q, {"erase"}) => locks \in Orders(Cascade(g))
    BY <1>8 DEF GroupLocked, Answers
  <2>2. req'[q].at = "commit"
    BY <2>1, WentTo
  <2>3. Is(q, {"erase"}) => Cascade(g) \subseteq Locks(q)'
    <3>1. SUFFICES ASSUME Is(q, {"erase"}) PROVE Cascade(g) \subseteq Locks(q)'
      OBVIOUS
    <3>2. g \in Groups /\ RowTypes /\ Shaped
      BY <2>0, <1>1, Names DEF Is, Base
    <3>3. locks \in Seq(Lock) /\ Elements(locks) = Cascade(g)
      BY <2>1, <3>1, <3>2, CascadeOrder
    <3>4. req'[q].todo = locks
      <4>1. req'[q] = To(q, "commit", locks)
        BY <2>1, Went
      <4>. QED
        BY <1>1, <4>1 DEF To, Typed, Record
    <3>5. Elements(locks) = Wanted(q)'
      BY <3>4 DEF Elements, Wanted
    <3>. QED
      BY <3>3, <3>5 DEF Locks
  <2>4. Is(q, {"erase"}) =>
          /\ \A id \in InGroup(g) : Exists(id) => <<"row", id>> \in Locks(q)'
          /\ \A i \in Invites : InviteTo[i] = g => <<"invite", i>> \in Locks(q)'
    BY <2>3 DEF Cascade, RowLocks, InGroup, Exists
  <2>. QED
    BY <2>0, <2>2, <2>4, Unmoved DEF GroupFinds, InGroup
<1>9. CASE CommitGroup(q)
  BY <1>2, <1>9, Ended DEF CommitGroup
<1>. QED
  BY <1>4, <1>5, <1>6, <1>7, <1>8, <1>9 DEF GroupOp

LEMMA FriendFound ==
    ASSUME Base, NEW q \in Reqs, Friend(q), UNCHANGED dataVars, FriendFinds(q), Op(q)' = Op(q)
    PROVE  FriendFinds(q)'
<1>. DEFINE x == req[q].who[1]
            y == req[q].who[2]
<1>1. Typed(q) /\ FriendStaged(q)
  BY DEF Base, Staged
<1>2. ASSUME \/ req'[q].at \notin {"deleted", "commit"}
             \/ req'[q].at = "commit" /\ Is(q, {"withdraw", "unfriend", "unblock"})
             \/ req'[q].at = "deleted" /\ Is(q, {"unfriend"})
      PROVE  FriendFinds(q)'
  <2>1. Is(q, {"withdraw", "unfriend", "unblock"}) => ~Is(q, Sends \cup {"accept_friend"}) /\ ~Is(q, {"block"})
    BY DEF Is, Sends
  <2>2. Is(q, {"unfriend"}) => Is(q, {"withdraw", "unfriend", "unblock"})
    BY DEF Is
  <2>. QED
    BY <1>2, <2>1, <2>2, Unmoved DEF FriendFinds
<1>3. ASSUME Here(x), Here(y), req'[q].who = req[q].who
      PROVE  FriendFinds(q)'
  BY <1>3, Unmoved DEF FriendFinds
<1>4. CASE \E answer \in Answers : Answer(q, answer)
  BY <1>2, <1>4, Ended
<1>5. ASSUME NEW stage, NEW locks, Goes(q, To(q, stage, locks)), stage \notin {"deleted", "commit"}
      PROVE  FriendFinds(q)'
  BY <1>2, <1>5, WentTo
<1>6. ASSUME NEW stage, NEW locks, Goes(q, To(q, stage, locks)), Here(x), Here(y)
      PROVE  FriendFinds(q)'
  BY <1>3, <1>6, WentTo DEF Rest
<1>7. ASSUME Typed(q), Len(req[q].who) = 2, ~Gone(q)
      PROVE  Here(x) /\ Here(y)
  <2>1. Range(req[q].who) = {x, y}
    BY <1>7, TwoOf DEF Typed, Record
  <2>. QED
    BY <1>7, <2>1 DEF Gone, Orphan, Here
<1>8. CASE BeginSend(q)
  <2>1. ASSUME NEW locks, NEW who, Goes(q, [To(q, "insert", locks) EXCEPT !.who = who])
        PROVE  FriendFinds(q)'
    <3>1. req'[q].at = "insert"
      <4>1. req'[q] = [To(q, "insert", locks) EXCEPT !.who = who]
        BY <2>1, Went
      <4>. QED
        BY <1>1, <4>1 DEF To, Typed, Record
    <3>. QED
      BY <1>2, <3>1
  <2>. QED
    BY <1>4, <1>8, <2>1 DEF BeginSend, Answers
<1>9. CASE SendRow(q) \/ MirrorRow(q)
  BY <1>4, <1>5, <1>9 DEF SendRow, MirrorRow, Answers
<1>10. CASE RelatedPeople(q)
  <2>1. Len(req[q].who) = 2
    BY <1>1, <1>10 DEF FriendStaged, RelatedPeople, At, Stage, Is, Sends, Answerings
  <2>. QED
    BY <1>1, <1>4, <1>6, <1>7, <1>10, <2>1 DEF RelatedPeople, Answers
<1>11. CASE BeginAnswer(q)
  <2>1. ASSUME NEW locks, NEW who, Goes(q, [To(q, "request", locks) EXCEPT !.who = who])
        PROVE  FriendFinds(q)'
    <3>1. req'[q].at = "request"
      <4>1. req'[q] = [To(q, "request", locks) EXCEPT !.who = who]
        BY <2>1, Went
      <4>. QED
        BY <1>1, <4>1 DEF To, Typed, Record
    <3>. QED
      BY <1>2, <3>1
  <2>. QED
    BY <1>4, <1>11, <2>1 DEF BeginAnswer, Answers
<1>12. CASE AnswerRow(q)
  <2>1. CASE Goes(q, To(q, "commit", <<>>)) /\ Is(q, {"withdraw"})
    BY <1>2, <2>1, WentTo DEF Is
  <2>. QED
    BY <1>4, <1>5, <1>12, <2>1 DEF AnswerRow, Answers
<1>13. CASE BeginEnding(q)
  <2>1. ASSUME NEW stage \in {"delete", "insert", "unblock"}, NEW locks, NEW who, NEW rows,
               Goes(q, [To(q, stage, locks) EXCEPT !.who = who, !.rows = rows])
        PROVE  FriendFinds(q)'
    <3>1. req'[q].at = stage
      <4>1. req'[q] = [To(q, stage, locks) EXCEPT !.who = who, !.rows = rows]
        BY <2>1, Went
      <4>. QED
        BY <1>1, <4>1 DEF To, Typed, Record
    <3>. QED
      BY <1>2, <2>1, <3>1
  <2>. QED
    BY <1>4, <1>13, <2>1 DEF BeginEnding, Answers
<1>14. CASE BlockRow(q)
  BY <1>4, <1>5, <1>14 DEF BlockRow, Answers
<1>15. CASE DeleteBetween(q)
  <2>1. ASSUME NEW order, NEW rows, Goes(q, [To(q, "deleted", order) EXCEPT !.rows = rows]),
               Is(q, {"block"}) => ~Gone(q)
        PROVE  FriendFinds(q)'
    <3>1. req'[q].at = "deleted" /\ req'[q].who = req[q].who
      <4>1. req'[q] = [To(q, "deleted", order) EXCEPT !.rows = rows]
        BY <2>1, Went
      <4>. QED
        BY <1>1, <4>1 DEF To, Typed, Record
    <3>2. Len(req[q].who) = 2
      BY <1>1, <1>15 DEF FriendStaged, DeleteBetween, At, Stage, Is, Endings
    <3>3. CASE Is(q, {"block"})
      BY <1>1, <1>3, <1>7, <2>1, <3>1, <3>2, <3>3
    <3>4. CASE Is(q, {"unfriend"})
      BY <1>2, <3>1, <3>4
    <3>. QED
      BY <1>15, <3>3, <3>4 DEF DeleteBetween, Is
  <2>. QED
    BY <1>4, <1>15, <2>1 DEF DeleteBetween, Answers
<1>16. CASE Deleted(q)
  <2>1. Is(q, {"block"}) => Here(x) /\ Here(y)
    BY <1>16 DEF Deleted, FriendFinds, At, Stage
  <2>2. CASE Goes(q, To(q, "commit", <<>>)) /\ Is(q, {"unfriend"})
    BY <1>2, <2>2, WentTo DEF Is
  <2>3. Is(q, {"block"}) \/ Is(q, {"unfriend"})
    BY <1>16 DEF Deleted, Is
  <2>. QED
    BY <1>4, <1>6, <1>16, <2>1, <2>2, <2>3 DEF Deleted, Answers
<1>17. CASE Unblock(q)
  <2>1. CASE Goes(q, To(q, "commit", <<>>)) /\ Is(q, {"unblock"})
    BY <1>2, <2>1, WentTo DEF Is
  <2>. QED
    BY <1>4, <1>17, <2>1 DEF Unblock, Answers
<1>18. CASE CommitSend(q) \/ CommitAnswer(q) \/ CommitEnding(q)
  BY <1>4, <1>18 DEF CommitSend, CommitAnswer, CommitEnding, Answers
<1>19. CASE UnfriendAgain(q)
  BY <1>2, <1>19, WentAgain DEF UnfriendAgain
<1>. QED
  BY <1>8, <1>9, <1>10, <1>11, <1>12, <1>13, <1>14, <1>15, <1>16, <1>17, <1>18, <1>19 DEF Friend

\* The people of a merge, as the step that found them leaves them.
MergeFound(q) ==
    LET to == req'[q].who[1]
        from == req'[q].who[2]
    IN
    Is(q, {"redeem"}) /\ req'[q].at = "commit" /\ to # from =>
        Here(to) /\ Here(from) /\ ~Holds(from) /\ req'[q].rows = RowsAnywhere(from)

LEMMA LinkMoves ==
    ASSUME Base, NEW q \in Reqs, Link(q), UNCHANGED dataVars
    PROVE  MergeFound(q)
<1>1. Typed(q) /\ LinkStaged(q)
  BY DEF Base, Staged
<1>2. ASSUME req'[q].at # "commit" \/ ~Is(q, {"redeem"}) \/ req'[q].who[1] = req'[q].who[2]
      PROVE  MergeFound(q)
  BY <1>2 DEF MergeFound
<1>3. CASE \E answer \in Answers : Answer(q, answer)
  BY <1>2, <1>3, Ended
<1>4. CASE BeginIssue(q) \/ CommitIssue(q) \/ BeginUnlink(q) \/ UnlinkPerson(q) \/ CommitUnlink(q)
  <2>1. ~Is(q, {"redeem"})
    BY <1>4 DEF BeginIssue, CommitIssue, BeginUnlink, UnlinkPerson, CommitUnlink, Is
  <2>. QED
    BY <1>2, <2>1
<1>5. CASE BeginRedeem(q)
  <2>1. ASSUME NEW locks, NEW who, Goes(q, [To(q, "issuer", locks) EXCEPT !.who = who])
        PROVE  MergeFound(q)
    <3>1. req'[q].at = "issuer"
      <4>1. req'[q] = [To(q, "issuer", locks) EXCEPT !.who = who]
        BY <2>1, Went
      <4>. QED
        BY <1>1, <4>1 DEF To, Typed, Record
    <3>. QED
      BY <1>2, <3>1
  <2>. QED
    BY <1>3, <1>5, <2>1 DEF BeginRedeem, Answers
<1>6. CASE RedeemIssuer(q)
  <2>1. ASSUME NEW locks, Goes(q, [To(q, "code", locks) EXCEPT !.who = <<personOf[Op(q).item[1]]>> \o @])
        PROVE  MergeFound(q)
    <3>1. req'[q].at = "code"
      <4>1. PICK who : who = <<personOf[Op(q).item[1]]>> \o To(q, "code", locks).who
        OBVIOUS
      <4>2. req'[q] = [To(q, "code", locks) EXCEPT !.who = who]
        BY <2>1, <4>1, Went
      <4>. QED
        BY <1>1, <4>2 DEF To, Typed, Record
    <3>. QED
      BY <1>2, <3>1
  <2>. QED
    BY <1>3, <1>6, <2>1 DEF RedeemIssuer, Answers
<1>7. CASE RedeemCode(q)
  <2>0. Len(req[q].who) = 2
    BY <1>1, <1>7 DEF LinkStaged, RedeemCode, At, Stage, Is, LinkOps
  <2>1. CASE Cardinality(Range(req[q].who)) = 1 /\ Goes(q, To(q, "commit", <<>>))
    <3>1. req[q].who[1] = req[q].who[2]
      BY <1>1, <2>0, <2>1, TwoOf DEF Typed, Record
    <3>2. req'[q].who = req[q].who
      BY <2>1, WentTo DEF Rest
    <3>. QED
      BY <1>2, <3>1, <3>2
  <2>2. ASSUME NEW locks, Goes(q, To(q, "counts", locks))
        PROVE  MergeFound(q)
    BY <1>2, <2>2, WentTo
  <2>. QED
    BY <1>3, <1>7, <2>1, <2>2 DEF RedeemCode, Answers
<1>8. CASE RedeemCounts(q)
  <2>1. ASSUME NEW locks, NEW found, Goes(q, [To(q, "people", locks) EXCEPT !.found = found])
        PROVE  MergeFound(q)
    <3>1. req'[q].at = "people"
      <4>1. req'[q] = [To(q, "people", locks) EXCEPT !.found = found]
        BY <2>1, Went
      <4>. QED
        BY <1>1, <4>1 DEF To, Typed, Record
    <3>. QED
      BY <1>2, <3>1
  <2>. QED
    BY <1>8, <2>1 DEF RedeemCounts
<1>9. CASE RedeemPeople(q)
  <2>. DEFINE to == Survivor(q)
              from == Attached(q)
              people == Range(req[q].who)
              rows == RowsAnywhere(from)
  <2>0. Len(req[q].who) = 2 /\ req[q].who[1] # req[q].who[2]
    BY <1>1, <1>9 DEF LinkStaged, RedeemPeople, At, Stage, Is, LinkOps
  <2>1. ASSUME NEW order, Goes(q, [To(q, "commit", order) EXCEPT !.who = <<to, from>>, !.rows = rows]),
               ~(\A p \in people : Holds(p)), ~(\E p \in people : Orphan(p))
        PROVE  MergeFound(q)
    <3>1. people = {req[q].who[1], req[q].who[2]}
      BY <1>1, <2>0, TwoOf DEF Typed, Record
    <3>2. people = {to, from} /\ to # from
      BY <2>0, <3>1 DEF Survivor, Attached
    <3>3. ~Holds(from)
      BY <2>1, <3>1 DEF Survivor, Attached
    <3>4. Here(to) /\ Here(from)
      BY <2>1, <3>2 DEF Orphan, Here
    <3>7. req'[q].who = <<to, from>> /\ req'[q].rows = rows /\ req'[q].at = "commit"
      <4>. HIDE DEF to, from, rows
      <4>1. req'[q] = [To(q, "commit", order) EXCEPT !.who = <<to, from>>, !.rows = rows]
        BY <2>1, Went
      <4>. DEFINE who == <<to, from>>
      <4>2. req'[q] = [To(q, "commit", order) EXCEPT !.who = who, !.rows = rows]
        BY <4>1
      <4>. HIDE DEF who
      <4>3. req'[q].who = who /\ req'[q].rows = rows /\ req'[q].at = "commit"
        BY <1>1, <4>2 DEF To, Typed, Record
      <4>. QED
        BY <4>3 DEF who
    <3>. HIDE DEF to, from, rows, people
    <3>8. req'[q].who[1] = to /\ req'[q].who[2] = from
      BY <3>7
    <3>. QED
      BY <3>2, <3>3, <3>4, <3>7, <3>8 DEF MergeFound, rows
  <2>. QED
    BY <1>3, <1>9, <2>1 DEF RedeemPeople, Answers
<1>10. CASE CommitRedeem(q)
  BY <1>2, <1>10, Ended DEF CommitRedeem
<1>. QED
  BY <1>4, <1>5, <1>6, <1>7, <1>8, <1>9, <1>10 DEF Link

LEMMA LinkFound ==
    ASSUME Base, Owned, NEW q \in Reqs, Link(q), UNCHANGED dataVars, Op(q)' = Op(q)
    PROVE  LinkFinds(q)'
<1>1. PICK to, from : to = req'[q].who[1] /\ from = req'[q].who[2]
  OBVIOUS
<1>2. SUFFICES ASSUME Is(q, {"redeem"}), req'[q].at = "commit", to # from PROVE LinkFinds(q)'
  BY <1>1, Unmoved DEF LinkFinds
<1>3. Here(to) /\ Here(from) /\ ~Holds(from) /\ req'[q].rows = RowsAnywhere(from)
  BY <1>1, <1>2, LinkMoves DEF MergeFound
<1>4. \A row \in relation : row.from # from /\ row.to # from
  BY <1>3 DEF Holds
<1>5. /\ \A id \in RowIds : Exists(id) => (member[id].person = from <=> id \in RowsAnywhere(from))
      /\ \A id \in RowsAnywhere(from) : id[2] = from \/ person[id[2]] = "gone"
  BY DEF RowsAnywhere, Exists, Owned
<1>. QED
  BY <1>1, <1>2, <1>3, <1>4, <1>5, Unmoved DEF LinkFinds

-----------------------------------------------------------------------------
(* Sets of one                                                             *)

LEMMA AtMostOne ==
    ASSUME NEW T, IsFiniteSet(T), NEW S \in SUBSET T, Cardinality(S) <= 1, NEW a \in S, NEW b \in S
    PROVE  a = b
<1>1. SUFFICES ASSUME a # b PROVE FALSE
  OBVIOUS
<1>2. IsFiniteSet(S) /\ IsFiniteSet(S \ {a})
  BY FS_Subset
<1>3. b \in S \ {a}
  BY <1>1
<1>4. Cardinality(S) \in Nat /\ Cardinality(S \ {a}) \in Nat /\ Cardinality(S \ {a}) = Cardinality(S) - 1
  BY <1>2, FS_CardinalityType, FS_RemoveElement
<1>5. Cardinality(S \ {a}) = 0
  BY <1>3, <1>2, <1>4, FS_EmptySet
<1>. QED
  BY <1>2, <1>3, <1>5, FS_EmptySet

LEMMA OneAtMost ==
    ASSUME NEW S, \A a, b \in S : a = b
    PROVE  Cardinality(S) <= 1
<1>1. CASE S = {}
  BY <1>1, FS_EmptySet
<1>2. CASE S # {}
  <2>1. PICK a : S = {a}
    BY <1>2
  <2>. QED
    BY <2>1, FS_Singleton
<1>. QED
  BY <1>1, <1>2

LEMMA DoneFinds ==
    ASSUME NEW q, req'[q].at = "done"
    PROVE  Finds(q)'
<1>1. Stage(q)' = "done"
  BY DEF Stage
<1>. QED
  BY <1>1 DEF Finds, EntryFinds, ChangeFinds, GroupFinds, FriendFinds, LinkFinds, Inside

LEMMA FindsSame ==
    ASSUME NEW q, Finds(q), UNCHANGED dataVars, Op(q)' = Op(q), Locks(q)' = Locks(q),
           req'[q].at = req[q].at, Rest(q)
    PROVE  Finds(q)'
<1>2. /\ Group(q)' = Group(q) /\ Stage(q)' = Stage(q) /\ (\A kinds : Is(q, kinds)' <=> Is(q, kinds))
      /\ \A g : Live(g)' <=> Live(g)
      /\ \A id : Exists(id)' <=> Exists(id)
      /\ \A p : Here(p)' <=> Here(p)
      /\ UNCHANGED <<group, member, person, relation>>
      /\ (Vacant(q)' <=> Vacant(q)) /\ (Found(q)' <=> Found(q))
      /\ req'[q].who = req[q].who /\ req'[q].rows = req[q].rows
  BY Unmoved, VacantSame DEF Stage, Rest
<1>3. EntryFinds(q)' /\ ChangeFinds(q)'
  BY <1>2 DEF Finds, EntryFinds, ChangeFinds
<1>4. GroupFinds(q)'
  BY <1>2 DEF Finds, GroupFinds, InGroup
<1>5. FriendFinds(q)' /\ LinkFinds(q)'
  BY <1>2 DEF Finds, FriendFinds, LinkFinds
<1>. QED
  BY <1>3, <1>4, <1>5 DEF Finds

LEMMA TakeFinds ==
    ASSUME Base, NEW q \in Reqs, Take(q), Finds(q), UNCHANGED dataVars, Op(q)' = Op(q), Locks(q)' = Locks(q)
    PROVE  Finds(q)'
BY WentOn, FindsSame

\* Only the finds of its family say anything of a request.
LEMMA FamilyFinds ==
    ASSUME NEW q, Op(q)' = Op(q)
    PROVE  /\ Is(q, Entries) /\ EntryFinds(q)' => Finds(q)'
           /\ Is(q, Changes) /\ ChangeFinds(q)' => Finds(q)'
           /\ Is(q, GroupOps) /\ GroupFinds(q)' => Finds(q)'
           /\ Is(q, InviteOps) => Finds(q)'
           /\ Is(q, Friendly) /\ FriendFinds(q)' => Finds(q)'
           /\ Is(q, LinkOps) /\ LinkFinds(q)' => Finds(q)'
<1>1. \A kinds : Is(q, kinds)' <=> Is(q, kinds)
  BY DEF Is
<1>2. /\ ~Is(q, Entries) => EntryFinds(q)'
      /\ ~Is(q, Changes) => ChangeFinds(q)'
      /\ ~Is(q, GroupOps) => GroupFinds(q)'
  BY <1>1 DEF EntryFinds, ChangeFinds, GroupFinds
<1>3. ~Is(q, Friendly) => FriendFinds(q)'
  <2>1. ~Is(q, Friendly) => ~Is(q, Sends \cup {"accept_friend"}) /\ ~Is(q, {"block"})
    BY DEF Is, Friendly, Answerings, Endings
  <2>. QED
    BY <1>1, <2>1 DEF FriendFinds
<1>4. ~Is(q, LinkOps) => LinkFinds(q)'
  <2>1. ~Is(q, LinkOps) => ~Is(q, {"redeem"})
    BY DEF Is, LinkOps
  <2>. QED
    BY <1>1, <2>1 DEF LinkFinds
<1>. QED
  BY <1>2, <1>3, <1>4, Families DEF Finds, Friendly

LEMMA StepKinds ==
    ASSUME NEW q
    PROVE  /\ Entry(q) => Is(q, Entries)
           /\ Change(q) => Is(q, Changes)
           /\ GroupOp(q) => Is(q, GroupOps)
           /\ InviteOp(q) => Is(q, InviteOps)
           /\ Friend(q) => Is(q, Friendly)
           /\ Link(q) => Is(q, LinkOps)
<1>1. Entry(q) => Is(q, Entries)
  BY DEF Entry, BeginEntry, BeginImport, BeginCreate, EnterGroup, ImportPeople, ImportRows, EnterCounts,
     EnterInvite, EnterRow, EnterShare, CommitEntry, Is, Entries
<1>2. Change(q) => Is(q, Changes)
  BY DEF Change, BeginChange, ChangeGroup, ChangeRow, Settle, CommitChange
<1>3. (GroupOp(q) => Is(q, GroupOps)) /\ (InviteOp(q) => Is(q, InviteOps))
  BY DEF GroupOp, BeginGroup, RestoreList, RestoreCounts, GroupLocked, CommitGroup, InviteOp, BeginInvite,
     WriteInvite, Is, GroupOps
<1>4. Friend(q) => Is(q, Friendly)
  BY DEF Friend, BeginSend, SendRow, MirrorRow, RelatedPeople, CommitSend, BeginAnswer, AnswerRow, CommitAnswer,
     BeginEnding, BlockRow, DeleteBetween, Deleted, Unblock, CommitEnding, UnfriendAgain, Is, Friendly, Sends,
     Answerings, Endings
<1>5. Link(q) => Is(q, LinkOps)
  BY DEF Link, BeginIssue, CommitIssue, BeginRedeem, RedeemIssuer, RedeemCode, RedeemCounts, RedeemPeople,
     CommitRedeem, BeginUnlink, UnlinkPerson, CommitUnlink, Is, LinkOps
<1>. QED
  BY <1>1, <1>2, <1>3, <1>4, <1>5

LEMMA WritesEnd ==
    ASSUME Base, NEW q \in Reqs, Writes(q)
    PROVE  req'[q].at = "done"
<1>1. \E answer : Answer(q, answer)
  BY DEF Writes, CommitEntry, CommitChange, CommitGroup, WriteInvite, CommitSend, CommitAnswer, CommitEnding,
     CommitIssue, CommitRedeem, CommitUnlink
<1>. QED
  BY <1>1, Ended

LEMMA OwnFinds ==
    ASSUME Sound, NEW q \in Reqs, Step(q)
    PROVE  Finds(q)'
<1>1. Base /\ OneRow /\ Owned /\ Finds(q) /\ Op(q)' = Op(q)
  BY StepProgress DEF Sound, RowsHold, Progress
<1>2. CASE Writes(q)
  BY <1>1, <1>2, WritesEnd, DoneFinds
<1>3. CASE UNCHANGED dataVars
  <2>1. CASE Take(q)
    <3>1. Locks(q)' = Locks(q)
      <4>1. req[q].at # "done"
        <5>1. Staged(q)
          BY <1>1 DEF Base
        <5>2. req[q].todo # <<>>
          BY <2>1 DEF Take
        <5>. QED
          BY <5>1, <5>2 DEF Staged, Unbegun, Stage
      <4>. QED
        BY <1>1, <2>1, <4>1, TakeTurn DEF Base
    <3>. QED
      BY <1>1, <1>3, <2>1, <3>1, TakeFinds
  <2>2. CASE Victim(q)
    BY <1>1, <2>2, Ended, DoneFinds DEF Victim
  <2>3. CASE Entry(q)
    BY <1>1, <1>3, <2>3, EntryFound, FamilyFinds, StepKinds DEF Finds
  <2>4. CASE Change(q)
    BY <1>1, <1>3, <2>4, ChangeFound, FamilyFinds, StepKinds DEF Finds
  <2>5. CASE GroupOp(q)
    BY <1>1, <1>3, <2>5, GroupFound, FamilyFinds, StepKinds DEF Finds
  <2>6. CASE InviteOp(q)
    BY <1>1, <2>6, FamilyFinds, StepKinds
  <2>7. CASE Friend(q)
    BY <1>1, <1>3, <2>7, FriendFound, FamilyFinds, StepKinds DEF Finds
  <2>8. CASE Link(q)
    BY <1>1, <1>3, <2>8, LinkFound, FamilyFinds, StepKinds
  <2>. QED
    BY <2>1, <2>2, <2>3, <2>4, <2>5, <2>6, <2>7, <2>8 DEF Step
<1>. QED
  BY <1>2, <1>3, Quiet

-----------------------------------------------------------------------------
(* The invariant                                                           *)

LEMMA SoundStep ==
    ASSUME Sound, NEW q \in Reqs, Step(q)
    PROVE  Sound' /\ Effects(q) /\ Progress(q)
<1>1. Base /\ Base' /\ Progress(q) /\ RowTypes /\ RowTypes' /\ Creators /\ RowsHold
  BY BaseStep DEF Sound, Base
<1>2. Effects(q)
  BY StepEffects
<1>3. RowsHold'
  BY <1>1, <1>2, RowsKept
<1>4. \A r \in Reqs \ {q} : req'[r] = req[r] /\ held'[r] = held[r]
  BY <1>1 DEF Progress, Turn
<1>5. Creators'
  <2>1. \A r \in Reqs : Op(r)' = Op(r)
    BY <1>1, <1>4 DEF Progress, Op
  <2>2. \A r \in Reqs : Group(r)' = Group(r) /\ \A kinds : Is(r, kinds)' <=> Is(r, kinds)
    BY <2>1 DEF Group, Is
  <2>. QED
    BY <1>1, <2>2 DEF Creators
<1>6. ASSUME NEW r \in Reqs
      PROVE  Finds(r)'
  <2>1. CASE r = q
    BY <2>1, OwnFinds
  <2>2. CASE r # q
    <3>1. Finds(r) /\ r \in Reqs \ {q}
      BY <2>2 DEF Sound
    <3>. QED
      BY <1>1, <1>2, <1>4, <3>1, EntryFindsKept, ChangeFindsKept, GroupFindsKept, FriendFindsKept,
         LinkFindsKept DEF Finds
  <2>. QED
    BY <2>1, <2>2
<1>. QED
  BY <1>1, <1>2, <1>3, <1>5, <1>6 DEF Sound

LEMMA SoundSame ==
    ASSUME Sound, UNCHANGED vars
    PROVE  Sound'
<1>1. Base'
  BY BaseNext DEF Sound
<1>2. UNCHANGED dataVars /\ \A r \in Reqs : req'[r] = req[r] /\ held'[r] = held[r]
  BY DEF vars, dataVars, rowVars, peopleVars
<1>3. RowsHold'
  BY DEF vars, Sound, RowsHold, Owned, RowsInGroups, OneRow, AllHere, Exists, Here
<1>4. Creators'
  BY DEF vars, Sound, Creators, Is, Group, Op
<1>5. ASSUME NEW r \in Reqs
      PROVE  Finds(r)'
  <2>1. req'[r].at = req[r].at /\ Rest(r)
    BY <1>2 DEF Rest
  <2>2. Op(r)' = Op(r) /\ Locks(r)' = Locks(r)
    BY <1>2, SameRequest
  <2>. QED
    BY <1>2, <2>1, <2>2, FindsSame DEF Sound
<1>. QED
  BY <1>1, <1>3, <1>4, <1>5 DEF Sound

LEMMA SoundInit ==
    ASSUME Init
    PROVE  Sound
<1>1. Base
  BY BaseInit
<1>2. Creators /\ Consistent
  BY DEF Init, Creators
<1>3. RowTypes /\ Owned
  BY <1>2 DEF Consistent, Owned, Exists
<1>4. RowsInGroups
  <2>1. ASSUME NEW id \in RowIds, Exists(id), group[id[1]].status \in {"none", "gone"}
        PROVE  FALSE
    <3>1. id[1] \in Groups /\ member[id].person \in People
      BY <1>3, RowTyped
    <3>2. RowsOf(id[1], member[id].person) = {}
      BY <1>2, <2>1, <3>1 DEF Consistent
    <3>. QED
      BY <2>1, <3>2 DEF RowsOf, Exists
  <2>. QED
    BY <2>1 DEF RowsInGroups
<1>5. OneRow
  <2>1. ASSUME NEW a \in RowIds, NEW b \in RowIds, Exists(a), Exists(b), a[1] = b[1],
               member[a].person = member[b].person
        PROVE  a = b
    <3>. DEFINE S == RowsOf(a[1], member[a].person)
    <3>1. a[1] \in Groups /\ member[a].person \in People
      BY <1>3, RowTyped
    <3>2. Cardinality(S) <= 1
      BY <1>2, <3>1 DEF Consistent, LinksKeepRows
    <3>3. a \in S /\ b \in S /\ S \subseteq RowIds
      BY <2>1 DEF RowsOf, Exists
    <3>. QED
      BY <3>2, <3>3, FiniteRows, AtMostOne
  <2>. QED
    BY <2>1 DEF OneRow
<1>6. AllHere
  BY <1>2 DEF Consistent, LinksKeepRows, AllHere, Exists, Here
<1>7. ASSUME NEW r \in Reqs
      PROVE  Finds(r)
  <2>1. Stage(r) = "begin"
    <3>1. req[r] = Fresh(Op(r))
      BY DEF Init
    <3>. QED
      BY <3>1 DEF Fresh, Stage
  <2>. QED
    BY <2>1 DEF Finds, EntryFinds, ChangeFinds, GroupFinds, FriendFinds, LinkFinds, Inside
<1>. QED
  BY <1>1, <1>2, <1>3, <1>4, <1>5, <1>6, <1>7 DEF Sound, RowsHold

\* What a request found, and what it will write by, is still so when it commits,
\* for the locks that it holds: the invariant behind the theorems on rows.
THEOREM LocksKeepFinds == Spec => []Sound
<1>1. Init => Sound
  BY SoundInit
<1>2. Sound /\ [Next]_vars => Sound'
  <2>1. ASSUME Sound, \E q \in Reqs : Step(q) PROVE Sound'
    BY <2>1, SoundStep
  <2>. QED
    BY <2>1, SoundSame DEF Next
<1>. QED
  BY <1>1, <1>2, PTL DEF Spec

\* Merges, splits and whatever is written beside them leave each id and each row
\* with a person who is there, and each person with one row in a group at most.
THEOREM LinksKeepAll == Spec => []LinksKeepRows
<1>1. Sound => LinksKeepRows
  <2>1. SUFFICES ASSUME Sound PROVE LinksKeepRows
    OBVIOUS
  <2>2. OneRow /\ AllHere
    BY <2>1 DEF Sound, RowsHold
  <2>3. ASSUME NEW g \in Groups, NEW p \in People
        PROVE  Cardinality(RowsOf(g, p)) <= 1
    <3>1. \A a, b \in RowsOf(g, p) : a = b
      BY <2>2, OneRowOf
    <3>. QED
      BY <3>1, OneAtMost
  <2>. QED
    BY <2>2, <2>3 DEF LinksKeepRows, AllHere, Exists, Here
<1>. QED
  BY <1>1, LocksKeepFinds, PTL

-----------------------------------------------------------------------------
(* What a request checked in its transaction, and commits by               *)

\* The sweeper found its group idle; a conditional edit, the version it names.
SweepChecks(r) ==
    Is(r, {"sweep"}) /\ Stage(r) = "commit" => Live(Group(r)) /\ group[Group(r)].idle

EditChecks(r) ==
    Is(r, {"edit_if"}) /\ Stage(r) = "commit" => \A id \in req[r].rows : member[id].version = req[r].seen

\* No row that an import changes is banned.
ImportChecks(r) ==
    Is(r, {"import"}) /\ Stage(r) \in Inside \ {"rows"} => \A id \in req[r].rows : member[id].status # "banned"

\* A row of p in g that is still at the version that was seen is not banned.
Unbarred(r, id) ==
    /\ req[r].seen <= member[id].version
    /\ req[r].seen = member[id].version => member[id].status # "banned"

\* A person with a row at the first read has one as long as both are there.
EntryChecks(r) ==
    LET g == Group(r)
        p == Person(r)
    IN
    Is(r, {"join", "add", "accept"}) =>
    /\ Stage(r) = "group" =>
          /\ person[p] # "none" /\ group[g].status # "none"
          /\ \A id \in RowsOf(g, p) : Unbarred(r, id)
          /\ req[r].seen > 0 /\ Here(p) /\ group[g].status # "gone" => RowsOf(g, p) # {}
    /\ Stage(r) \in Inside =>
          /\ person[p] # "none"
          /\ \A id \in req[r].rows : Exists(id) => Unbarred(r, id)
          /\ req[r].fresh # {} /\ Here(p) => req[r].seen = 0

\* What the change was for: an active member leaves, a banned one is let in again.
\* The row that a ban changes is of the person it bans.
ChangeChecks(r) ==
    LET p == Person(r) IN
    /\ Is(r, {"leave", "kick"}) /\ Stage(r) \in {"settle", "commit"} =>
          \A id \in req[r].rows : member[id].status = "active"
    /\ Is(r, {"unban"}) /\ Stage(r) \in {"settle", "commit"} =>
          \A id \in req[r].rows : member[id].status = "banned"
    /\ Is(r, {"ban"}) /\ Stage(r) \notin {"begin", "done"} => person[p] # "none"
    /\ Is(r, {"ban"}) /\ Stage(r) \in {"row", "settle", "commit"} =>
          \A id \in req[r].rows : Exists(id) /\ Here(p) => member[id].person = p

\* A change that leaves its group as it is leaves an active member in it, or takes none.
EmptyChecks(r) ==
    LET g == Group(r) IN
    Is(r, Departures) /\ ~req[r].found =>
    /\ Stage(r) \in {"row", "settle"} =>
          Is(r, {"ban"}) /\ \A id \in req[r].rows : member[id].status # "active"
    /\ Stage(r) = "commit" /\ DeleteWhenEmpty[KindOf[g]] =>
          \/ Done({"redeem"}) \/ Active(g) \ req[r].rows # {}
          \/ \A id \in req[r].rows : member[id].status # "active"

\* Nobody who is merged away is banned.
MergeChecks(r) ==
    Merging(r) => \A id \in RowIds : member[id].person = req[r].who[2] => member[id].status # "banned"

\* The members of its group after an entry.
Then(r) == Active(Group(r)) \cup req[r].rows \cup ({Group(r)} \X req[r].fresh)

Within(g, S) == MaxMembers[KindOf[g]] # NoLimit => Cardinality(S) <= MaxMembers[KindOf[g]]

RoomChecks(r) ==
    Is(r, Entries) =>
    /\ Stage(r) = "counts" => Cardinality(req[r].rows \cup ({Group(r)} \X req[r].fresh)) <= Cardinality(Members(r))
    /\ Stage(r) \in Roomy => Within(Group(r), Then(r))

Checks(r) ==
    /\ SweepChecks(r) /\ EditChecks(r) /\ ImportChecks(r) /\ EntryChecks(r) /\ ChangeChecks(r)
    /\ EmptyChecks(r) /\ MergeChecks(r)

RoomFor == \A g \in Groups : Within(g, Active(g))

Checked == \A r \in Reqs : Checks(r)
Rooms == RoomFor /\ \A r \in Reqs : RoomChecks(r)

\* A ban is written to a row of a person who cannot go meanwhile.
Barring(q) ==
    \A id \in RowIds : Exists(id)' /\ member'[id].status = "banned" =>
        \/ Exists(id) /\ member[id].status = "banned" /\ member'[id].person = member[id].person
        \/ Owns(q, <<"share", member'[id].person>>)

-----------------------------------------------------------------------------
(* What others leave of it                                                 *)

\* Under the lock of its group a row keeps its status or goes.
LEMMA StatusKept ==
    ASSUME RowTypes, Creators, NEW q \in Reqs, Effects(q), NEW r \in Reqs \ {q}, NEW id \in RowIds,
           <<"group", id[1]>> \in held[r], group[id[1]].status # "none", Exists(id)'
    PROVE  /\ Exists(id) /\ member'[id].status = member[id].status
           /\ member'[id] = member[id] \/ member'[id].version = member[id].version + 1
<1>1. RowEffect(q, id) /\ ~Owns(q, <<"group", id[1]>>)
  BY NotOwned DEF Effects
<1>2. ~Created(q, id)
  BY <1>1 DEF Created
<1>. QED
  BY <1>1, <1>2 DEF RowEffect, Kept, Changed, Erased, Merged, Exists

LEMMA ActiveKept ==
    ASSUME RowTypes, Creators, NEW q \in Reqs, Effects(q), NEW r \in Reqs \ {q}, NEW g \in Groups,
           <<"group", g>> \in held[r], group[g].status # "none"
    PROVE  Active(g)' \subseteq Active(g)
<1>1. ASSUME NEW id \in Active(g)'
      PROVE  id \in Active(g)
  <2>1. id \in RowIds /\ id[1] = g /\ member'[id].status = "active"
    BY DEF Active
  <2>. QED
    BY <2>1, StatusKept DEF Active, Exists
<1>. QED
  BY <1>1

\* Nobody comes back, and whoever is there stays unless merged away.
LEMMA PeopleKept ==
    ASSUME NEW q \in Reqs, Effects(q), NEW p \in People, person[p] # "none"
    PROVE  person'[p] # "none" /\ (Here(p)' => Here(p))
<1>1. PersonEffect(q, p)
  BY DEF Effects
<1>. QED
  BY <1>1 DEF PersonEffect, Here

LEMMA EntryUnder ==
    ASSUME Base, NEW r \in Reqs, EntryFinds(r), Is(r, Entries), ~Is(r, {"create"}), Stage(r) \in Inside
    PROVE  <<"group", Group(r)>> \in held[r] /\ Live(Group(r)) /\ Group(r) \in Groups
<1>1. EntryStaged(r) /\ Typed(r) /\ Is(r, Entries \cup Changes \cup GroupOps \cup InviteOps)
  BY DEF Base, Staged, Is
<1>. QED
  BY <1>1, Names DEF EntryStaged, EntryFinds

LEMMA ChangeUnder ==
    ASSUME Base, NEW r \in Reqs, ChangeFinds(r), Is(r, Changes), ~Is(r, Edits), Stage(r) \in {"row", "settle", "commit"}
    PROVE  <<"group", Group(r)>> \in held[r] /\ Live(Group(r)) /\ Group(r) \in Groups
<1>1. ChangeStaged(r) /\ Typed(r) /\ Is(r, Entries \cup Changes \cup GroupOps \cup InviteOps)
  BY DEF Base, Staged, Is
<1>. QED
  BY <1>1, Names DEF ChangeStaged, ChangeFinds

LEMMA SweepChecksKept ==
    ASSUME Base, NEW q \in Reqs, Effects(q), NEW r \in Reqs \ {q}, req'[r] = req[r], held'[r] = held[r], SweepChecks(r)
    PROVE  SweepChecks(r)'
<1>1. SUFFICES ASSUME Is(r, {"sweep"}), Stage(r) = "commit"
               PROVE  Live(Group(r))' /\ group'[Group(r)].idle
  BY SameRequest DEF SweepChecks
<1>2. GroupStaged(r) /\ Typed(r) /\ Is(r, GroupOps) /\ ~Is(r, {"erase"})
  BY <1>1 DEF Base, Staged, Is, GroupOps
<1>3. <<"group", Group(r)>> \in held[r] /\ Group(r) \in Groups
  <2>1. <<"group", Group(r)>> \in held[r]
    BY <1>1, <1>2 DEF GroupStaged
  <2>. QED
    BY <1>2, <2>1, Names DEF Is
<1>4. Live(Group(r)) /\ group[Group(r)].idle
  BY <1>1 DEF SweepChecks
<1>5. group'[Group(r)] = group[Group(r)]
  BY <1>3, <1>4, GroupKept DEF Live
<1>. QED
  BY <1>4, <1>5, SameRequest DEF Live

LEMMA EditChecksKept ==
    ASSUME Base, NEW q \in Reqs, Effects(q), NEW r \in Reqs \ {q}, req'[r] = req[r], held'[r] = held[r], ChangeFinds(r),
           EditChecks(r)
    PROVE  EditChecks(r)'
<1>1. SUFFICES ASSUME Is(r, {"edit_if"}), Stage(r) = "commit", NEW id \in req[r].rows
               PROVE  member'[id].version = req[r].seen
  BY SameRequest DEF EditChecks
<1>2. ChangeStaged(r) /\ RowTypes /\ Is(r, Changes) /\ Is(r, Edits)
  BY <1>1 DEF Base, Staged, Is, Changes, Edits
<1>3. id \in RowIds /\ Exists(id) /\ id = CHOOSE i \in req[r].rows : TRUE
  <2>1. /\ req[r].rows \subseteq InGroup(Group(r)) /\ Found(r)
        /\ \A a, b \in req[r].rows : a = b
    BY <1>1, <1>2 DEF ChangeStaged, ChangeFinds
  <2>2. (CHOOSE i \in req[r].rows : TRUE) \in req[r].rows
    OBVIOUS
  <2>. QED
    BY <2>1, <2>2 DEF InGroup, Found
<1>4. <<"row", id>> \in held[r]
  BY <1>1, <1>2, <1>3 DEF ChangeStaged
<1>. QED
  BY <1>1, <1>2, <1>3, <1>4, FoundKept DEF EditChecks

LEMMA ImportChecksKept ==
    ASSUME Base, Creators, NEW q \in Reqs, Effects(q), NEW r \in Reqs \ {q}, req'[r] = req[r], held'[r] = held[r],
           EntryFinds(r), ImportChecks(r)
    PROVE  ImportChecks(r)'
<1>1. SUFFICES ASSUME Is(r, {"import"}), Stage(r) \in Inside \ {"rows"}, NEW id \in req[r].rows
               PROVE  member'[id].status # "banned"
  BY SameRequest DEF ImportChecks
<1>2. EntryStaged(r) /\ RowTypes /\ Is(r, Entries) /\ ~Is(r, {"create"}) /\ Stage(r) \in Roomy \cup {"counts"}
  BY <1>1 DEF Base, Staged, Is, Entries, Inside, Roomy
<1>3. id \in RowIds /\ id[1] = Group(r) /\ member[id].status # "banned"
  BY <1>1, <1>2 DEF EntryStaged, InGroup, ImportChecks
<1>4. <<"group", Group(r)>> \in held[r] /\ Live(Group(r))
  BY <1>1, <1>2, EntryUnder
<1>. QED
  BY <1>2, <1>3, <1>4, StatusKept DEF Live, Exists

\* Before its group is locked, the rows of a person only move on from what was seen.
LEMMA RowsSeen ==
    ASSUME RowTypes, RowTypes', RowsHold, NEW q \in Reqs, Effects(q), NEW g \in Groups, NEW p \in People, NEW seen \in Nat,
           person[p] # "none", group[g].status # "none",
           \A id \in RowsOf(g, p) : seen <= member[id].version /\ (seen = member[id].version => member[id].status # "banned"),
           seen > 0 /\ Here(p) /\ group[g].status # "gone" => RowsOf(g, p) # {}
    PROVE  /\ \A id \in RowsOf(g, p)' : /\ seen <= member'[id].version
                                        /\ seen = member'[id].version => member'[id].status # "banned"
           /\ seen > 0 /\ Here(p)' /\ group'[g].status # "gone" => RowsOf(g, p)' # {}
<1>1. \A id \in RowIds : member[id].version \in Nat /\ member'[id].version \in Nat
  BY RowTyped DEF RowTypes
<1>2. ASSUME NEW id \in RowsOf(g, p)'
      PROVE  seen <= member'[id].version /\ (seen = member'[id].version => member'[id].status # "banned")
  <2>1. id \in RowIds /\ id[1] = g /\ member'[id].person = p /\ Exists(id)' /\ RowEffect(q, id)
    BY DEF RowsOf, Exists, Effects
  <2>2. CASE Exists(id) /\ member[id].person = p
    <3>1. id \in RowsOf(g, p)
      BY <2>1, <2>2 DEF RowsOf, Exists
    <3>2. member'[id] = member[id] \/ member'[id].version = member[id].version + 1
      BY <2>1, <2>2 DEF RowEffect, Kept, Created, Changed, Erased, Merged, Exists
    <3>. QED
      BY <1>1, <2>1, <3>1, <3>2
  <2>3. CASE ~(Exists(id) /\ member[id].person = p)
    <3>1. RowsOf(g, p) = {} /\ Here(p) /\ group[g].status # "gone" /\ member'[id].version > 0
      <4>1. CASE Kept(id)
        BY <2>1, <2>3, <4>1 DEF Kept, Exists
      <4>2. CASE Created(q, id)
        BY <2>1, <4>2 DEF Created, Live
      <4>3. CASE Changed(q, id)
        BY <2>1, <2>3, <4>3 DEF Changed
      <4>4. CASE Erased(q, id)
        BY <2>1, <4>4 DEF Erased
      <4>5. CASE Merged(q, id)
        <5>1. /\ Exists(id) /\ p = req[q].who[1] /\ RowsOf(g, p) = {} /\ Here(p)
              /\ member'[id].version = member[id].version + 1
          BY <2>1, <4>5 DEF Merged, Effects, MergeEffect
        <5>2. group[g].status # "gone"
          BY <2>1, <5>1 DEF RowsHold, RowsInGroups
        <5>. QED
          BY <1>1, <2>1, <5>1, <5>2
      <4>. QED
        BY <2>1, <4>1, <4>2, <4>3, <4>4, <4>5 DEF RowEffect
    <3>2. seen = 0
      BY <3>1
    <3>. QED
      BY <1>1, <2>1, <3>1, <3>2
  <2>. QED
    BY <2>2, <2>3
<1>3. ASSUME seen > 0, Here(p)', group'[g].status # "gone"
      PROVE  RowsOf(g, p)' # {}
  <2>1. Here(p) /\ group[g].status # "gone"
    <3>1. GroupEffect(q, g)
      BY DEF Effects
    <3>. QED
      BY <1>3, <3>1, PeopleKept DEF GroupEffect
  <2>2. PICK id \in RowsOf(g, p) : TRUE
    BY <1>3, <2>1
  <2>3. id \in RowIds /\ id[1] = g /\ member[id].person = p /\ Exists(id) /\ RowEffect(q, id)
    BY <2>2 DEF RowsOf, Exists, Effects
  <2>4. Exists(id)' /\ member'[id].person = p
    BY <1>3, <2>3 DEF RowEffect, Kept, Created, Changed, Erased, Merged, Here, Exists
  <2>. QED
    BY <2>3, <2>4 DEF RowsOf, Exists
<1>. QED
  BY <1>2, <1>3

LEMMA EntryChecksKept ==
    ASSUME Base, RowTypes', Creators, RowsHold, NEW q \in Reqs, Effects(q), NEW r \in Reqs \ {q},
           req'[r] = req[r], held'[r] = held[r], EntryFinds(r), EntryChecks(r)
    PROVE  EntryChecks(r)'
<1>0. PICK g, p, seen : g = Group(r) /\ p = Person(r) /\ seen = req[r].seen
  OBVIOUS
<1>1. SUFFICES ASSUME Is(r, {"join", "add", "accept"}) PROVE EntryChecks(r)'
  BY SameRequest DEF EntryChecks
<1>2. /\ EntryStaged(r) /\ RowTypes /\ Typed(r) /\ Is(r, Entries) /\ ~Is(r, {"create"}) /\ ~Is(r, {"import"})
      /\ seen \in Nat /\ g \in Groups
  <2>1. Typed(r) /\ Is(r, Entries \cup Changes \cup GroupOps \cup InviteOps)
    BY <1>1 DEF Base, Is, Entries
  <2>. QED
    BY <1>0, <1>1, <2>1, Names DEF Base, Staged, Is, Entries, Typed, Record
<1>3. Stage(r) \notin {"begin", "done"} => p \in People
  BY <1>0, <1>2, ElementOfSeq DEF EntryStaged, Typed, Record, Person
<1>4. /\ Stage(r)' = Stage(r) /\ Group(r)' = g /\ Person(r)' = p /\ req'[r].seen = seen
      /\ req'[r].rows = req[r].rows /\ req'[r].fresh = req[r].fresh
      /\ \A kinds : Is(r, kinds)' <=> Is(r, kinds)
  BY <1>0, SameRequest
<1>5. Stage(r) = "group" =>
          /\ person'[p] # "none" /\ group'[g].status # "none"
          /\ \A id \in RowsOf(g, p)' : Unbarred(r, id)'
          /\ seen > 0 /\ Here(p)' /\ group'[g].status # "gone" => RowsOf(g, p)' # {}
  <2>1. SUFFICES ASSUME Stage(r) = "group"
                 PROVE  /\ person'[p] # "none" /\ group'[g].status # "none"
                        /\ \A id \in RowsOf(g, p)' : Unbarred(r, id)'
                        /\ seen > 0 /\ Here(p)' /\ group'[g].status # "gone" => RowsOf(g, p)' # {}
    OBVIOUS
  <2>2. /\ person[p] # "none" /\ group[g].status # "none"
        /\ \A id \in RowsOf(g, p) : seen <= member[id].version /\ (seen = member[id].version => member[id].status # "banned")
        /\ seen > 0 /\ Here(p) /\ group[g].status # "gone" => RowsOf(g, p) # {}
    BY <1>0, <1>1, <2>1 DEF EntryChecks, Unbarred
  <2>3. person'[p] # "none"
    BY <1>3, <2>1, <2>2, PeopleKept
  <2>4. group'[g].status # "none"
    BY <1>2, <2>2 DEF Effects, GroupEffect
  <2>5. /\ \A id \in RowsOf(g, p)' : /\ seen <= member'[id].version
                                     /\ seen = member'[id].version => member'[id].status # "banned"
        /\ seen > 0 /\ Here(p)' /\ group'[g].status # "gone" => RowsOf(g, p)' # {}
    BY <1>2, <1>3, <2>1, <2>2, RowsSeen
  <2>. QED
    BY <1>4, <2>3, <2>4, <2>5 DEF Unbarred
<1>6. Stage(r) \in Inside =>
          /\ person'[p] # "none"
          /\ \A id \in req[r].rows : Exists(id)' => Unbarred(r, id)'
          /\ req[r].fresh # {} /\ Here(p)' => seen = 0
  <2>1. SUFFICES ASSUME Stage(r) \in Inside
                 PROVE  /\ person'[p] # "none"
                        /\ \A id \in req[r].rows : Exists(id)' => Unbarred(r, id)'
                        /\ req[r].fresh # {} /\ Here(p)' => seen = 0
    OBVIOUS
  <2>2. /\ person[p] # "none" /\ p \in People
        /\ \A id \in req[r].rows : Exists(id) => Unbarred(r, id)
        /\ req[r].fresh # {} /\ Here(p) => seen = 0
    BY <1>0, <1>1, <1>3, <2>1 DEF EntryChecks, Inside
  <2>3. person'[p] # "none" /\ (Here(p)' => Here(p))
    BY <2>2, PeopleKept
  <2>4. ASSUME NEW id \in req[r].rows, Exists(id)'
        PROVE  Unbarred(r, id)'
    <3>1. id \in RowIds /\ id[1] = g
      BY <1>0, <1>1, <1>2, <2>1 DEF EntryStaged, Inside, Roomy, InGroup, Is
    <3>2. <<"group", g>> \in held[r] /\ Live(g)
      BY <1>0, <1>2, <2>1, EntryUnder
    <3>3. /\ Exists(id) /\ member'[id].status = member[id].status
          /\ member'[id] = member[id] \/ member'[id].version = member[id].version + 1
      BY <1>2, <2>4, <3>1, <3>2, StatusKept DEF Live
    <3>4. Unbarred(r, id) /\ member[id].version \in Nat
      BY <1>2, <2>2, <3>1, <3>3, RowTyped
    <3>. QED
      BY <1>0, <1>2, <1>4, <3>3, <3>4 DEF Unbarred
  <2>. QED
    BY <2>2, <2>3, <2>4
<1>. QED
  BY <1>4, <1>5, <1>6 DEF EntryChecks

LEMMA ChangeChecksKept ==
    ASSUME Base, Creators, NEW q \in Reqs, Effects(q), NEW r \in Reqs \ {q},
           req'[r] = req[r], held'[r] = held[r], ChangeFinds(r), ChangeChecks(r)
    PROVE  ChangeChecks(r)'
<1>0. PICK g, p : g = Group(r) /\ p = Person(r)
  OBVIOUS
<1>1. SUFFICES ASSUME Is(r, Changes) PROVE ChangeChecks(r)'
  BY SameRequest DEF ChangeChecks, Is, Changes, Departures
<1>2. /\ ChangeStaged(r) /\ RowTypes /\ Typed(r)
      /\ (Is(r, {"leave", "kick"}) \/ Is(r, {"unban"}) \/ Is(r, {"ban"})) => ~Is(r, Edits)
  BY DEF Base, Staged, Is, Edits
<1>3. Stage(r) \notin {"begin", "done"} => p \in People
  BY <1>0, <1>1, <1>2, ElementOfSeq DEF ChangeStaged, Typed, Record, Person
<1>4. /\ Stage(r)' = Stage(r) /\ Person(r)' = p /\ req'[r].rows = req[r].rows
      /\ \A kinds : Is(r, kinds)' <=> Is(r, kinds)
  BY <1>0, SameRequest
<1>5. ASSUME ~Is(r, Edits), Stage(r) \in {"row", "settle", "commit"}, NEW id \in req[r].rows
      PROVE  /\ id \in RowIds
             /\ Exists(id)' => Exists(id) /\ member'[id].status = member[id].status
  <2>1. id \in RowIds /\ id[1] = g
    BY <1>0, <1>1, <1>2, <1>5 DEF ChangeStaged, InGroup
  <2>2. <<"group", g>> \in held[r] /\ Live(g)
    BY <1>0, <1>1, <1>5, ChangeUnder
  <2>. QED
    BY <1>2, <2>1, <2>2, StatusKept DEF Live
<1>6. ASSUME ~Is(r, Edits), Stage(r) \in {"settle", "commit"}
      PROVE  Found(r)'
  <2>1. ChangeFinds(r)'
    BY ChangeFindsKept
  <2>. QED
    BY <1>1, <1>4, <1>6, <2>1 DEF ChangeFinds
<1>7. ASSUME ~Is(r, Edits), Stage(r) \in {"settle", "commit"}, NEW id \in req[r].rows
      PROVE  member'[id].status = member[id].status
  <2>1. Exists(id)'
    BY <1>4, <1>6, <1>7 DEF Found
  <2>. QED
    BY <1>5, <1>7, <2>1
<1>8. Is(r, {"leave", "kick"}) /\ Stage(r) \in {"settle", "commit"} =>
          \A id \in req[r].rows : member'[id].status = "active"
  BY <1>2, <1>7 DEF ChangeChecks
<1>9. Is(r, {"unban"}) /\ Stage(r) \in {"settle", "commit"} =>
          \A id \in req[r].rows : member'[id].status = "banned"
  BY <1>2, <1>7 DEF ChangeChecks
<1>10. Is(r, {"ban"}) /\ Stage(r) \notin {"begin", "done"} => person[p] # "none" /\ person'[p] # "none"
  BY <1>0, <1>3, PeopleKept DEF ChangeChecks
<1>11. ASSUME Is(r, {"ban"}), Stage(r) \in {"row", "settle", "commit"}, NEW id \in req[r].rows, Exists(id)', Here(p)'
       PROVE  member'[id].person = p
  <2>1. id \in RowIds /\ Exists(id)
    BY <1>2, <1>5, <1>11
  <2>2. Here(p)
    BY <1>3, <1>10, <1>11, PeopleKept
  <2>3. member[id].person = p
    BY <1>0, <1>11, <2>1, <2>2 DEF ChangeChecks
  <2>4. RowEffect(q, id)
    BY <2>1 DEF Effects
  <2>. QED
    BY <1>11, <2>1, <2>3, <2>4 DEF RowEffect, Kept, Created, Changed, Erased, Merged, Exists, Here
<1>. QED
  BY <1>4, <1>8, <1>9, <1>10, <1>11 DEF ChangeChecks

\* A merge that writes has redeemed its code.
LEMMA MergeDone ==
    ASSUME Base, NEW q \in Reqs, Step(q), Merging(q), member' # member
    PROVE  Done({"redeem"})'
<1>1. Is(q, {"redeem"}) /\ Op(q)' = Op(q)
  BY StepProgress DEF Merging, Base, Progress
<1>2. CommitRedeem(q)
  <2>1. Writes(q)
    BY Quiet DEF dataVars, rowVars
  <2>2. ~Is(q, Entries) /\ ~Is(q, Changes) /\ ~Is(q, GroupOps) /\ ~Is(q, InviteOps) /\ ~Is(q, Friendly)
        /\ ~Is(q, {"issue", "unlink"})
    <3>1. Is(q, LinkOps) /\ ~Is(q, {"issue", "unlink"})
      BY <1>1 DEF LinkOps, Is
    <3>. QED
      BY <3>1, Families DEF Friendly
  <2>. QED
    BY <2>1, <2>2 DEF Writes, CommitEntry, CommitChange, CommitGroup, WriteInvite, CommitSend, CommitAnswer,
       CommitEnding, CommitIssue, CommitUnlink, Is, Friendly, Sends, Answerings, Endings
<1>3. req'[q].at = "done" /\ req'[q].answer = "ok"
  BY <1>2, Ended DEF CommitRedeem
<1>. QED
  BY <1>1, <1>3 DEF Done, Answered, Is

\* A request that has answered takes no more steps.
LEMMA Acting ==
    ASSUME Base, NEW q \in Reqs, Step(q)
    PROVE  req[q].at # "done"
<1>1. Unbegun(q)
  BY DEF Base, Staged
<1>2. CASE Take(q) \/ Victim(q)
  <2>1. req[q].todo # <<>>
    BY <1>2 DEF Take, Victim, InCycle, Cycle, Deadlocked
  <2>. QED
    BY <1>1, <2>1 DEF Unbegun, Stage
<1>3. CASE Entry(q)
  BY <1>3 DEF Entry, BeginEntry, BeginImport, BeginCreate, EnterGroup, ImportPeople, ImportRows, EnterCounts,
     EnterInvite, EnterRow, EnterShare, CommitEntry, At
<1>4. CASE Change(q) \/ GroupOp(q) \/ InviteOp(q)
  BY <1>4 DEF Change, BeginChange, ChangeGroup, ChangeRow, Settle, CommitChange, GroupOp, BeginGroup, RestoreList,
     RestoreCounts, GroupLocked, CommitGroup, InviteOp, BeginInvite, WriteInvite, At
<1>5. CASE Friend(q)
  <2>1. CASE UnfriendAgain(q)
    BY <1>1, <2>1 DEF UnfriendAgain, InCycle, Cycle, Deadlocked, Unbegun, Stage
  <2>. QED
    BY <1>5, <2>1 DEF Friend, BeginSend, SendRow, MirrorRow, RelatedPeople, CommitSend, BeginAnswer, AnswerRow,
       CommitAnswer, BeginEnding, BlockRow, DeleteBetween, Deleted, Unblock, CommitEnding, At
<1>6. CASE Link(q)
  BY <1>6 DEF Link, BeginIssue, CommitIssue, BeginRedeem, RedeemIssuer, RedeemCode, RedeemCounts, RedeemPeople,
     CommitRedeem, BeginUnlink, UnlinkPerson, CommitUnlink, At
<1>. QED
  BY <1>2, <1>3, <1>4, <1>5, <1>6 DEF Step

LEMMA DoneKept ==
    ASSUME Base, NEW q \in Reqs, Step(q), NEW kinds, Done(kinds)
    PROVE  Done(kinds)'
<1>1. PICK r \in Reqs : Is(r, kinds) /\ Answered(r, "ok")
  BY DEF Done
<1>2. r # q
  BY <1>1, Acting DEF Answered
<1>3. req'[r] = req[r] /\ held'[r] = held[r]
  BY <1>2, StepProgress DEF Base, Progress, Turn
<1>. QED
  BY <1>1, <1>3 DEF Done, Answered, Is, Op

LEMMA EmptyChecksKept ==
    ASSUME Base, Creators, NEW q \in Reqs, Step(q), Effects(q), NEW r \in Reqs \ {q},
           req'[r] = req[r], held'[r] = held[r], ChangeFinds(r), EmptyChecks(r)
    PROVE  EmptyChecks(r)'
<1>0. PICK g : g = Group(r)
  OBVIOUS
<1>1. SUFFICES ASSUME Is(r, Departures), ~req[r].found PROVE EmptyChecks(r)'
  BY SameRequest DEF EmptyChecks
<1>2. ChangeStaged(r) /\ RowTypes /\ Is(r, Changes) /\ ~Is(r, Edits)
  BY <1>1 DEF Base, Staged, Is, Changes, Departures, Edits
<1>4. /\ Stage(r)' = Stage(r) /\ Group(r)' = g /\ req'[r].rows = req[r].rows /\ req'[r].found = req[r].found
      /\ \A kinds : Is(r, kinds)' <=> Is(r, kinds)
  BY <1>0, SameRequest
<1>5. ASSUME Stage(r) \in {"row", "settle", "commit"}, NEW id \in RowIds, id[1] = g, member'[id].status = "active"
      PROVE  member[id].status = "active"
  <2>1. <<"group", g>> \in held[r] /\ Live(g)
    BY <1>0, <1>2, <1>5, ChangeUnder
  <2>. QED
    BY <1>2, <1>5, <2>1, StatusKept DEF Live, Exists
<1>6. Stage(r) \in {"row", "settle", "commit"} => req[r].rows \subseteq InGroup(g)
  BY <1>0, <1>2 DEF ChangeStaged
<1>7. Stage(r) \in {"row", "settle"} => Is(r, {"ban"}) /\ \A id \in req[r].rows : member'[id].status # "active"
  BY <1>1, <1>5, <1>6 DEF EmptyChecks, InGroup
<1>8. ASSUME Stage(r) = "commit", DeleteWhenEmpty[KindOf[g]], ~Done({"redeem"})',
             ~(\A id \in req[r].rows : member'[id].status # "active")
      PROVE  Active(g)' \ req[r].rows # {}
  <2>1. ~(\A id \in req[r].rows : member[id].status # "active")
    BY <1>5, <1>6, <1>8 DEF InGroup
  <2>2. ~Done({"redeem"})
    <3>1. Done({"redeem"}) => Done({"redeem"})'
      BY DoneKept
    <3>. QED
      BY <1>8, <3>1
  <2>3. PICK id \in Active(g) : id \notin req[r].rows
    BY <1>0, <1>1, <1>8, <2>1, <2>2 DEF EmptyChecks
  <2>4. id \in RowIds /\ id[1] = g /\ member[id].status = "active" /\ Exists(id) /\ RowEffect(q, id)
    BY <2>3 DEF Active, Exists, Effects
  <2>5. <<"group", g>> \in held[r]
    BY <1>0, <1>2, <1>8, ChangeUnder
  <2>6. ~Owns(q, <<"group", g>>) /\ ~Owns(q, <<"erase", g>>)
    BY <2>5, NotOwned
  <2>7. member'[id].status = "active"
    <3>1. CASE Kept(id)
      BY <2>4, <3>1 DEF Kept
    <3>2. CASE Created(q, id) \/ Changed(q, id) \/ Erased(q, id)
      BY <2>4, <2>6, <3>2 DEF Created, Changed, Erased
    <3>3. CASE Merged(q, id)
      <4>1. member' = member
        BY <1>8, <3>3, MergeDone DEF Merged
      <4>. QED
        BY <2>4, <4>1
    <3>. QED
      BY <2>4, <3>1, <3>2, <3>3 DEF RowEffect
  <2>. QED
    BY <2>3, <2>4, <2>7 DEF Active
<1>. QED
  BY <1>4, <1>7, <1>8 DEF EmptyChecks

LEMMA MergeChecksKept ==
    ASSUME Base, NEW q \in Reqs, Barring(q), NEW r \in Reqs \ {q},
           req'[r] = req[r], held'[r] = held[r], MergeChecks(r)
    PROVE  MergeChecks(r)'
<1>0. PICK from : from = req[r].who[2]
  OBVIOUS
<1>1. SUFFICES ASSUME Merging(r) PROVE MergeChecks(r)'
  BY SameRequest DEF MergeChecks, Merging
<1>2. <<"erase", from>> \in held[r]
  <2>1. LinkStaged(r) /\ Is(r, LinkOps)
    BY <1>1 DEF Base, Staged, Merging, Is, LinkOps
  <2>2. Len(req[r].who) = 2 /\ Erases(Members(r)) \subseteq held[r]
    BY <1>1, <2>1 DEF LinkStaged, Merging
  <2>3. from \in Members(r)
    <3>1. Typed(r) /\ 2 \in DOMAIN req[r].who
      BY <2>2 DEF Base, Typed, Record
    <3>. QED
      BY <1>0, <3>1 DEF Members, Range
  <2>. QED
    BY <2>2, <2>3 DEF Erases
<1>3. ASSUME NEW id \in RowIds, member'[id].person = from, member'[id].status = "banned"
      PROVE  FALSE
  <2>1. Exists(id)'
    BY <1>3 DEF Exists
  <2>2. ~(member[id].status = "banned" /\ member[id].person = from)
    BY <1>0, <1>1 DEF MergeChecks
  <2>3. Owns(q, <<"share", from>>)
    BY <1>3, <2>1, <2>2 DEF Barring
  <2>. QED
    BY <1>2, <2>3, NotOwned
<1>. QED
  BY <1>0, <1>3 DEF MergeChecks

\* The members after an entry are rows, a finite number of them.
LEMMA EntryRows ==
    ASSUME Base, NEW r \in Reqs, Is(r, Entries), Stage(r) \in Roomy \cup {"counts"}
    PROVE  /\ Group(r) \in Groups /\ Active(Group(r)) \subseteq RowIds
           /\ req[r].rows \subseteq RowIds /\ ({Group(r)} \X req[r].fresh) \subseteq RowIds
           /\ Then(r) \subseteq RowIds
<1>1. EntryStaged(r) /\ Typed(r) /\ Is(r, Entries \cup Changes \cup GroupOps \cup InviteOps)
  BY DEF Base, Staged, Is
<1>2. Group(r) \in Groups
  BY <1>1, Names
<1>3. req[r].rows \subseteq RowIds /\ req[r].fresh \subseteq People
  BY <1>1 DEF EntryStaged, InGroup, Typed, Record
<1>4. ({Group(r)} \X req[r].fresh) \subseteq RowIds
  BY <1>2, <1>3 DEF RowIds
<1>. QED
  BY <1>2, <1>3, <1>4 DEF Active, Then

LEMMA LimitType ==
    ASSUME NEW g \in Groups, MaxMembers[KindOf[g]] # NoLimit
    PROVE  MaxMembers[KindOf[g]] \in Nat
<1>1. KindOf[g] \in Kinds
  BY DEF Kinds
<1>. QED
  BY <1>1, MembershipsAssumption

LEMMA RoomChecksKept ==
    ASSUME Base, RowTypes', Creators, RowsHold', NEW q \in Reqs, Effects(q), NEW r \in Reqs \ {q},
           req'[r] = req[r], held'[r] = held[r], EntryFinds(r), EntryFinds(r)', RoomChecks(r)
    PROVE  RoomChecks(r)'
<1>0. PICK g : g = Group(r)
  OBVIOUS
<1>1. SUFFICES ASSUME Is(r, Entries) PROVE RoomChecks(r)'
  BY SameRequest DEF RoomChecks
<1>2. EntryStaged(r) /\ RowTypes
  BY DEF Base, Staged
<1>3. /\ Stage(r)' = Stage(r) /\ Group(r)' = g /\ req'[r].rows = req[r].rows /\ req'[r].fresh = req[r].fresh
      /\ Members(r)' = Members(r)
      /\ \A kinds : Is(r, kinds)' <=> Is(r, kinds)
  BY <1>0, SameRequest
<1>4. ASSUME Stage(r) \in Roomy
      PROVE  Active(g)' \subseteq Active(g)
  <2>1. CASE Is(r, {"create"})
    <3>1. group'[g].status = "none"
      BY <1>1, <1>3, <1>4, <2>1 DEF EntryFinds, Roomy
    <3>2. ASSUME NEW id \in Active(g)'
          PROVE  FALSE
      <4>1. id \in RowIds /\ id[1] = g /\ Exists(id)'
        BY DEF Active, Exists
      <4>. QED
        BY <3>1, <4>1 DEF RowsHold, RowsInGroups
    <3>. QED
      BY <3>2
  <2>2. CASE ~Is(r, {"create"})
    <3>1. <<"group", g>> \in held[r] /\ Live(g) /\ g \in Groups
      BY <1>0, <1>1, <1>4, <2>2, EntryUnder DEF Roomy, Inside
    <3>. QED
      BY <1>2, <3>1, ActiveKept DEF Live
  <2>. QED
    BY <2>1, <2>2
<1>5. ASSUME Stage(r) \in Roomy
      PROVE  Within(g, Then(r))'
  <2>1. Then(r)' \subseteq Then(r)
    BY <1>0, <1>3, <1>4, <1>5 DEF Then
  <2>2. IsFiniteSet(Then(r))
    <3>1. Then(r) \subseteq RowIds
      BY <1>0, <1>1, <1>2, <1>5, EntryRows DEF Base
    <3>. QED
      BY <3>1, FiniteRows, FS_Subset
  <2>3. Cardinality(Then(r)') <= Cardinality(Then(r)) /\ Cardinality(Then(r)') \in Nat /\ Cardinality(Then(r)) \in Nat
    BY <2>1, <2>2, FS_Subset, FS_CardinalityType
  <2>4. Within(g, Then(r))
    BY <1>0, <1>1, <1>5 DEF RoomChecks
  <2>5. g \in Groups
    BY <1>0, <1>1, <1>5, EntryRows
  <2>. QED
    BY <2>3, <2>4, <2>5, LimitType DEF Within
<1>. QED
  BY <1>0, <1>1, <1>3, <1>5 DEF RoomChecks

-----------------------------------------------------------------------------
(* What the writes do to bans and members                                  *)

\* A row that a request creates was nobody's.
LEMMA Unowned ==
    ASSUME RowTypes, RowsHold, NEW g \in Groups, NEW p \in People, Here(p), RowsOf(g, p) = {}
    PROVE  ~Exists(<<g, p>>)
<1>1. <<g, p>> \in RowIds
  BY DEF RowIds
<1>2. SUFFICES ASSUME Exists(<<g, p>>) PROVE FALSE
  OBVIOUS
<1>3. member[<<g, p>>].person = p
  BY <1>1, <1>2 DEF RowsHold, Owned, Here
<1>. QED
  BY <1>1, <1>2, <1>3 DEF RowsOf, Exists

\* The rows an entry writes: those it read, and new ones.
LEMMA EntryWrites ==
    ASSUME Sound, NEW q \in Reqs, CommitEntry(q), NEW id \in RowIds
    PROVE  /\ Is(q, Entries) /\ Stage(q) = "commit" /\ Group(q) \in Groups
           /\ id \in req[q].rows => id[1] = Group(q) /\ Exists(id) /\ member'[id].status = "active"
           /\ id \notin req[q].rows /\ id[1] = Group(q) /\ id[2] \in req[q].fresh =>
                 ~Exists(id) /\ member'[id].status = "active"
           /\ id \notin req[q].rows /\ ~(id[1] = Group(q) /\ id[2] \in req[q].fresh) => member'[id] = member[id]
<1>1. /\ At(q, "commit") /\ Is(q, Entries) /\ Stage(q) = "commit" /\ EntryStaged(q) /\ Typed(q) /\ Staged(q)
      /\ RowTypes /\ RowsHold /\ Found(q) /\ Vacant(q)
  BY DEF CommitEntry, Sound, Base, Staged, At, Stage, Finds, EntryFinds
<1>2. Group(q) \in Groups /\ req[q].rows \subseteq InGroup(Group(q))
  BY <1>1, EntryRows DEF EntryStaged, Roomy, Sound
<1>3. req[q].fresh \subseteq Referred(q) /\ req[q].fresh \subseteq People
  BY <1>1, FreshReferred DEF Is, Entries, Changes, Edits, Departures
<1>4. ASSUME NEW p \in req[q].fresh
      PROVE  ~Exists(<<Group(q), p>>)
  BY <1>1, <1>2, <1>3, Unowned DEF Vacant
<1>5. member \in [RowIds -> MemberRows] /\ id = <<id[1], id[2]>>
  BY <1>1 DEF RowTypes, MemberRows, RowIds
<1>6. member' = [i \in RowIds |->
          IF i \in req[q].rows
          THEN [member[i] EXCEPT !.status = "active", !.version = @ + 1]
          ELSE IF i[1] = Group(q) /\ i[2] \in req[q].fresh
          THEN Row(i[2], "active")
          ELSE member[i]]
  BY DEF CommitEntry
<1>7. id \in req[q].rows => id[1] = Group(q) /\ Exists(id) /\ member'[id].status = "active"
  BY <1>1, <1>2, <1>5, <1>6 DEF Found, InGroup, MemberRows
<1>8. id \notin req[q].rows /\ id[1] = Group(q) /\ id[2] \in req[q].fresh => ~Exists(id) /\ member'[id].status = "active"
  BY <1>4, <1>5, <1>6 DEF Row
<1>9. id \notin req[q].rows /\ ~(id[1] = Group(q) /\ id[2] \in req[q].fresh) => member'[id] = member[id]
  BY <1>6
<1>. QED
  BY <1>1, <1>2, <1>7, <1>8, <1>9

LEMMA ChangeWrites ==
    ASSUME Sound, NEW q \in Reqs, CommitChange(q), NEW id \in RowIds
    PROVE  /\ Is(q, Changes) /\ Stage(q) = "commit" /\ Group(q) \in Groups
           /\ id \in req[q].rows =>
                 /\ id[1] = Group(q) /\ Exists(id) /\ member'[id].person = member[id].person
                 /\ Is(q, Edits) => member'[id].status = member[id].status
                 /\ ~Is(q, Edits) => member'[id].status = NewStatus[Op(q).kind]
           /\ id \notin req[q].rows /\ id[1] = Group(q) /\ id[2] \in req[q].fresh =>
                 ~Exists(id) /\ member'[id].status = "banned" /\ member'[id].person = id[2] /\ id[2] = Person(q)
           /\ id \notin req[q].rows /\ ~(id[1] = Group(q) /\ id[2] \in req[q].fresh) => member'[id] = member[id]
<1>1. /\ At(q, "commit") /\ Is(q, Changes) /\ Stage(q) = "commit" /\ ChangeStaged(q) /\ Typed(q) /\ Staged(q)
      /\ RowTypes /\ RowsHold /\ Found(q) /\ (~Is(q, Edits) => Vacant(q))
  BY DEF CommitChange, Sound, Base, Staged, At, Stage, Finds, ChangeFinds
<1>2. Group(q) \in Groups /\ req[q].rows \subseteq InGroup(Group(q))
  BY <1>1, Names DEF ChangeStaged, Is
<1>3. ASSUME NEW p \in req[q].fresh
      PROVE  ~Exists(<<Group(q), p>>) /\ p = Person(q)
  <2>1. Is(q, {"ban"}) /\ p = Person(q)
    BY <1>1, <1>3 DEF ChangeStaged
  <2>2. ~Is(q, Edits) /\ Is(q, Entries \cup Changes)
    BY <1>1, <2>1 DEF Is, Edits
  <2>3. p \in Referred(q) /\ p \in People
    BY <1>1, <1>3, <2>2, FreshReferred
  <2>4. Here(p) /\ RowsOf(Group(q), p) = {}
    BY <1>1, <1>3, <2>2, <2>3 DEF Vacant
  <2>. QED
    BY <1>1, <1>2, <2>1, <2>3, <2>4, Unowned
<1>5. member \in [RowIds -> MemberRows] /\ id = <<id[1], id[2]>>
  BY <1>1 DEF RowTypes, MemberRows, RowIds
<1>6. member' = [i \in RowIds |->
          IF i \in req[q].rows
          THEN [member[i] EXCEPT !.version = @ + 1, !.noted = @ \/ Is(q, Edits),
                            !.status = IF Is(q, Edits) THEN @ ELSE NewStatus[Op(q).kind]]
          ELSE IF i[1] = Group(q) /\ i[2] \in req[q].fresh
          THEN Row(i[2], "banned")
          ELSE member[i]]
  BY DEF CommitChange
<1>7. ASSUME id \in req[q].rows
      PROVE  /\ id[1] = Group(q) /\ Exists(id) /\ member'[id].person = member[id].person
             /\ Is(q, Edits) => member'[id].status = member[id].status
             /\ ~Is(q, Edits) => member'[id].status = NewStatus[Op(q).kind]
  BY <1>1, <1>2, <1>5, <1>6, <1>7 DEF Found, InGroup, MemberRows
<1>8. ASSUME id \notin req[q].rows, id[1] = Group(q), id[2] \in req[q].fresh
      PROVE  ~Exists(id) /\ member'[id].status = "banned" /\ member'[id].person = id[2] /\ id[2] = Person(q)
  BY <1>3, <1>5, <1>6, <1>8 DEF Row
<1>9. id \notin req[q].rows /\ ~(id[1] = Group(q) /\ id[2] \in req[q].fresh) => member'[id] = member[id]
  BY <1>6
<1>. QED
  BY <1>1, <1>2, <1>7, <1>8, <1>9

LEMMA RedeemWrites ==
    ASSUME Sound, NEW q \in Reqs, CommitRedeem(q)
    PROVE  \/ member' = member
           \/ /\ Merging(q)
              /\ \A id \in RowIds :
                    \/ member'[id] = member[id]
                    \/ /\ Exists(id) /\ member[id].person = req[q].who[2]
                       /\ ~Exists(id)' \/ member'[id].status = member[id].status
<1>. DEFINE to == req[q].who[1]
            from == req[q].who[2]
<1>1. At(q, "commit") /\ Is(q, {"redeem"})
  BY DEF CommitRedeem
<1>2. Typed(q) /\ LinkStaged(q) /\ Stage(q) = "commit" /\ RowTypes /\ LinkFinds(q)
  BY <1>1, Committing DEF Sound, Finds, Staged
<1>3. Len(req[q].who) = 2
  BY <1>1, <1>2 DEF LinkStaged, Is, LinkOps
<1>4. CASE Merge(q) /\ Cardinality(Range(req[q].who)) # 1
  <2>1. to # from
    BY <1>2, <1>3, <1>4, TwoOf DEF Typed, Record
  <2>2. Merging(q)
    BY <1>1, <1>2, <2>1 DEF Merging
  <2>3. ASSUME NEW id \in RowIds
        PROVE  \/ member'[id] = member[id]
               \/ /\ Exists(id) /\ member[id].person = from
                  /\ ~Exists(id)' \/ member'[id].status = member[id].status
    <3>1. member[id] \in MemberRows
      BY <1>2 DEF RowTypes, MemberRows
    <3>2. CASE id \in req[q].rows /\ Exists(id)
      <4>1. member[id].person = from
        BY <1>1, <1>2, <2>1, <3>2 DEF LinkFinds
      <4>2. \/ member'[id] = [member[id] EXCEPT !.status = "none"]
            \/ member'[id] = [member[id] EXCEPT !.person = to, !.version = @ + 1]
        BY <1>4, <3>2 DEF Merge, Exists
      <4>. QED
        BY <3>1, <3>2, <4>1, <4>2 DEF MemberRows, Exists
    <3>3. CASE ~(id \in req[q].rows /\ Exists(id))
      BY <1>4, <3>3 DEF Merge, Exists
    <3>. QED
      BY <3>2, <3>3
  <2>. QED
    BY <2>2, <2>3
<1>. QED
  BY <1>4 DEF CommitRedeem

LEMMA GroupWrites ==
    ASSUME RowTypes, NEW q, CommitGroup(q)
    PROVE  \/ member' = member
           \/ /\ Is(q, {"erase"}) /\ At(q, "commit") /\ Answer(q, "ok")
              /\ \A id \in RowIds : member'[id] = member[id] \/ (id[1] = Group(q) /\ ~Exists(id)')
<1>1. CASE Is(q, {"erase"})
  <2>1. ASSUME NEW id \in RowIds
        PROVE  member'[id] = member[id] \/ (id[1] = Group(q) /\ ~Exists(id)')
    <3>1. member[id] \in MemberRows
      BY DEF RowTypes, MemberRows
    <3>2. member'[id] = IF id[1] = Group(q) THEN [member[id] EXCEPT !.status = "none"] ELSE member[id]
      BY <1>1 DEF CommitGroup
    <3>. QED
      BY <3>1, <3>2 DEF MemberRows, Exists
  <2>2. At(q, "commit") /\ Answer(q, "ok")
    BY DEF CommitGroup
  <2>. QED
    BY <1>1, <2>1, <2>2
<1>2. CASE ~Is(q, {"erase"})
  BY <1>2 DEF CommitGroup
<1>. QED
  BY <1>1, <1>2

\* The steps that write rows of members.
LEMMA MemberWrites ==
    ASSUME NEW q, Step(q)
    PROVE  member' = member \/ CommitEntry(q) \/ CommitChange(q) \/ CommitGroup(q) \/ CommitRedeem(q)
<1>1. CASE UNCHANGED dataVars
  BY <1>1 DEF dataVars, rowVars
<1>2. CASE Writes(q)
  BY <1>2 DEF Writes, WriteInvite, CommitSend, CommitAnswer, CommitEnding, CommitIssue, CommitUnlink, rowVars
<1>. QED
  BY <1>1, <1>2, Quiet

\* A change to a row that it found for somebody, or a row of its own.
LEMMA BanOwns ==
    ASSUME Sound, NEW q \in Reqs, CommitChange(q), Is(q, {"ban"})
    PROVE  Here(Person(q)) /\ Owns(q, <<"share", Person(q)>>)
<1>1. At(q, "commit") /\ Base /\ Is(q, Changes) /\ ~Is(q, Edits)
  BY DEF CommitChange, Sound, Is, Changes, Departures, Edits
<1>2. Stage(q) = "commit" /\ ChangeStaged(q) /\ ChangeFinds(q)
  BY <1>1, Committing DEF Sound, Finds, Staged
<1>3. Vacant(q) /\ ShareLocks(Referred(q)) \subseteq held[q]
  BY <1>1, <1>2 DEF ChangeFinds, ChangeStaged
<1>4. Referred(q) = {Person(q)}
  BY DEF Referred, Is
<1>5. <<"share", Person(q)>> \in held[q] /\ Here(Person(q))
  BY <1>3, <1>4 DEF ShareLocks, Vacant
<1>. QED
  BY <1>1, <1>5, CommitOwns DEF Locks

LEMMA StepBarring ==
    ASSUME Sound, NEW q \in Reqs, Step(q), Checks(q)
    PROVE  Barring(q)
<1>1. SUFFICES ASSUME NEW id \in RowIds, Exists(id)', member'[id].status = "banned",
                      ~(Exists(id) /\ member[id].status = "banned" /\ member'[id].person = member[id].person)
               PROVE  Owns(q, <<"share", member'[id].person>>)
  BY DEF Barring
<1>2. member'[id] # member[id]
  BY <1>1 DEF Exists
<1>3. CASE CommitEntry(q)
  BY <1>1, <1>2, <1>3, EntryWrites
<1>4. CASE CommitChange(q)
  <2>1. CASE id \in req[q].rows
    <3>1. Exists(id) /\ member'[id].person = member[id].person /\ ~Is(q, Edits) /\ NewStatus[Op(q).kind] = "banned"
      BY <1>1, <1>4, <2>1, ChangeWrites
    <3>2. Is(q, {"ban"}) /\ Stage(q) = "commit"
      <4>1. Is(q, Changes) /\ Stage(q) = "commit"
        BY <1>4, ChangeWrites
      <4>. QED
        BY <3>1, <4>1 DEF NewStatus, Is, Changes, Departures, Edits
    <3>3. member[id].person = Person(q)
      BY <1>4, <2>1, <3>1, <3>2, BanOwns DEF Checks, ChangeChecks
    <3>. QED
      BY <1>4, <3>1, <3>2, <3>3, BanOwns
  <2>2. CASE id \notin req[q].rows
    <3>1. req[q].fresh # {} /\ member'[id].person = Person(q)
      BY <1>2, <1>4, <2>2, ChangeWrites
    <3>2. Is(q, {"ban"})
      <4>1. ChangeStaged(q)
        BY DEF Sound, Base, Staged
      <4>. QED
        BY <1>4, <3>1, <4>1, ChangeWrites DEF ChangeStaged
    <3>. QED
      BY <1>4, <3>1, <3>2, BanOwns
  <2>. QED
    BY <2>1, <2>2
<1>5. CASE CommitGroup(q)
  BY <1>1, <1>2, <1>5, GroupWrites DEF Sound, Base
<1>6. CASE CommitRedeem(q)
  BY <1>1, <1>2, <1>6, RedeemWrites DEF Checks, MergeChecks, Exists
<1>. QED
  BY <1>2, <1>3, <1>4, <1>5, <1>6, MemberWrites

LEMMA BansStep ==
    ASSUME Sound, NEW q \in Reqs, Step(q), Checks(q), NEW id \in RowIds, member[id].status = "banned"
    PROVE  \/ member'[id].status = "banned" /\ member'[id].person = member[id].person
           \/ Commits(q, {"unban", "erase"})
           \/ Commits(q, {"join", "add", "accept"}) /\ req[q].seen # member[id].version
<1>1. SUFFICES ASSUME member'[id] # member[id]
               PROVE  \/ member'[id].status = "banned" /\ member'[id].person = member[id].person
                      \/ Commits(q, {"unban", "erase"})
                      \/ Commits(q, {"join", "add", "accept"}) /\ req[q].seen # member[id].version
  OBVIOUS
<1>2. Exists(id) /\ Base /\ RowTypes
  BY DEF Exists, Sound, Base
<1>3. CASE CommitEntry(q)
  <2>1. id \in req[q].rows /\ Is(q, Entries) /\ Stage(q) = "commit"
    BY <1>1, <1>2, <1>3, EntryWrites
  <2>2. ~Is(q, {"import"})
    BY <2>1 DEF Checks, ImportChecks, Inside
  <2>3. ~Is(q, {"create"})
    BY <2>1 DEF Sound, Base, Staged, EntryStaged, Roomy
  <2>4. Is(q, {"join", "add", "accept"})
    BY <2>1, <2>2, <2>3 DEF Is, Entries
  <2>5. req[q].seen # member[id].version
    BY <1>2, <2>1, <2>4 DEF Checks, EntryChecks, Inside, Unbarred
  <2>6. At(q, "commit") /\ req'[q].answer = "ok"
    BY <1>2, <1>3, Ended DEF CommitEntry
  <2>. QED
    BY <2>4, <2>5, <2>6 DEF Commits
<1>4. CASE CommitChange(q)
  <2>1. /\ id \in req[q].rows /\ member'[id].person = member[id].person /\ Is(q, Changes) /\ Stage(q) = "commit"
        /\ Is(q, Edits) => member'[id].status = member[id].status
        /\ ~Is(q, Edits) => member'[id].status = NewStatus[Op(q).kind]
    BY <1>1, <1>2, <1>4, ChangeWrites
  <2>2. ~Is(q, {"leave", "kick"})
    BY <2>1 DEF Checks, ChangeChecks
  <2>3. Is(q, {"ban"}) => member'[id].status = "banned"
    BY <2>1 DEF Is, Edits, NewStatus
  <2>4. At(q, "commit") /\ req'[q].answer = "ok"
    BY <1>2, <1>4, Ended DEF CommitChange
  <2>5. Is(q, {"unban"}) => Commits(q, {"unban", "erase"})
    BY <2>4 DEF Commits, Is
  <2>6. Is(q, Edits) \/ Is(q, {"ban"}) \/ Is(q, {"unban"})
    BY <2>1, <2>2 DEF Is, Changes, Departures
  <2>. QED
    BY <2>1, <2>3, <2>5, <2>6
<1>5. CASE CommitGroup(q)
  <2>1. Is(q, {"erase"}) /\ At(q, "commit") /\ Answer(q, "ok")
    BY <1>1, <1>2, <1>5, GroupWrites
  <2>2. req'[q].answer = "ok"
    BY <1>2, <2>1, Ended
  <2>. QED
    BY <2>1, <2>2 DEF Commits, Is
<1>6. CASE CommitRedeem(q)
  BY <1>1, <1>6, RedeemWrites DEF Checks, MergeChecks
<1>. QED
  BY <1>1, <1>3, <1>4, <1>5, <1>6, MemberWrites

LEMMA EmptyStep ==
    ASSUME Sound, NEW q \in Reqs, Step(q), Checks(q), NEW g \in Groups, Live(g), Live(g)', DeleteWhenEmpty[KindOf[g]],
           Active(g) # {}, ~Done({"redeem"}), ~Commits(q, {"redeem"})
    PROVE  Active(g)' # {}
<1>1. SUFFICES ASSUME member' # member PROVE Active(g)' # {}
  BY DEF Active
<1>2. Base /\ RowTypes
  BY DEF Sound, Base
<1>0. PICK id : id \in Active(g)
  OBVIOUS
<1>3. id \in RowIds /\ id[1] = g /\ member[id].status = "active" /\ Exists(id)
  BY <1>0 DEF Active, Exists
<1>4. ASSUME NEW other \in RowIds, other[1] = g, member'[other].status = "active"
      PROVE  Active(g)' # {}
  BY <1>4 DEF Active
<1>5. CASE CommitEntry(q)
  BY <1>3, <1>4, <1>5, EntryWrites
<1>6. CASE CommitChange(q)
  <2>1. Is(q, Changes) /\ Stage(q) = "commit"
    BY <1>3, <1>6, ChangeWrites
  <2>2. CASE g # Group(q) \/ id \notin req[q].rows \/ Is(q, Edits)
    BY <1>3, <1>4, <1>6, <2>2, ChangeWrites
  <2>3. CASE g = Group(q) /\ id \in req[q].rows /\ ~Is(q, Edits)
    <3>1. ~req[q].found
      <4>1. req[q].found => group'[g].status = "deleted"
        BY <1>2, <1>6, <2>3 DEF CommitChange, RowTypes
      <4>. QED
        BY <4>1 DEF Live
    <3>2. Is(q, Departures)
      <4>1. ~Is(q, {"unban"})
        BY <1>3, <2>1, <2>3 DEF Checks, ChangeChecks
      <4>. QED
        BY <2>1, <2>3, <4>1 DEF Is, Changes
    <3>3. Active(g) \ req[q].rows # {}
      BY <1>3, <2>1, <2>3, <3>1, <3>2 DEF Checks, EmptyChecks
    <3>4. PICK other \in Active(g) : other \notin req[q].rows
      BY <3>3
    <3>5. other \in RowIds /\ other[1] = g /\ member[other].status = "active" /\ Exists(other)
      BY <3>4 DEF Active, Exists
    <3>6. member'[other] = member[other]
      BY <1>6, <3>4, <3>5, ChangeWrites
    <3>. QED
      BY <1>4, <3>5, <3>6
  <2>. QED
    BY <2>2, <2>3
<1>7. CASE CommitGroup(q)
  <2>1. Is(q, {"erase"}) /\ (member'[id] = member[id] \/ g = Group(q))
    BY <1>1, <1>2, <1>3, <1>7, GroupWrites
  <2>2. g = Group(q) => group'[g].status = "gone"
    BY <1>2, <1>7, <2>1 DEF CommitGroup, RowTypes, Is
  <2>. QED
    BY <1>3, <1>4, <2>1, <2>2 DEF Live
<1>8. CASE CommitRedeem(q)
  <2>1. Is(q, {"redeem"}) /\ At(q, "commit") /\ req'[q].answer = "ok"
    BY <1>2, <1>8, Ended DEF CommitRedeem
  <2>. QED
    BY <2>1 DEF Commits
<1>. QED
  BY <1>1, <1>5, <1>6, <1>7, <1>8, MemberWrites

LEMMA RoomStep ==
    ASSUME Sound, Sound', NEW q \in Reqs, Step(q), RoomFor, RoomChecks(q)
    PROVE  RoomFor'
<1>1. SUFFICES ASSUME NEW g \in Groups PROVE Within(g, Active(g)')
  BY DEF RoomFor, Within
<1>2. Base /\ RowTypes
  BY DEF Sound, Base
<1>3. ASSUME NEW S, S \subseteq RowIds, Within(g, S), Active(g)' \subseteq S
      PROVE  Within(g, Active(g)')
  <2>1. IsFiniteSet(S)
    BY <1>3, FiniteRows, FS_Subset
  <2>2. Cardinality(Active(g)') <= Cardinality(S) /\ Cardinality(Active(g)') \in Nat /\ Cardinality(S) \in Nat
    BY <1>3, <2>1, FS_Subset, FS_CardinalityType
  <2>. QED
    BY <1>3, <2>2, LimitType DEF Within
<1>4. ASSUME \A id \in RowIds : member'[id].status = "active" => member[id].status = "active"
      PROVE  Within(g, Active(g)')
  <2>1. Active(g)' \subseteq Active(g) /\ Active(g) \subseteq RowIds
    BY <1>4 DEF Active
  <2>2. Within(g, Active(g))
    BY DEF RoomFor
  <2>. QED
    BY <1>3, <2>1, <2>2
<1>5. CASE member' = member
  BY <1>4, <1>5
<1>6. CASE CommitEntry(q)
  <2>1. Is(q, Entries) /\ Stage(q) = "commit"
    BY <1>6 DEF CommitEntry, At, Stage
  <2>2. CASE g = Group(q)
    <3>1. Active(g)' \subseteq Then(q)
      <4>1. ASSUME NEW id \in Active(g)'
            PROVE  id \in Then(q)
        <5>1. id \in RowIds /\ id[1] = g /\ member'[id].status = "active" /\ id = <<id[1], id[2]>>
          BY DEF Active, RowIds
        <5>2. CASE id \in req[q].rows \/ id[2] \in req[q].fresh
          BY <2>2, <5>1, <5>2 DEF Then
        <5>3. CASE id \notin req[q].rows /\ id[2] \notin req[q].fresh
          <6>1. member'[id] = member[id]
            BY <1>6, <5>1, <5>3, EntryWrites
          <6>. QED
            BY <2>2, <5>1, <6>1 DEF Then, Active
        <5>. QED
          BY <5>2, <5>3
      <4>. QED
        BY <4>1
    <3>2. Then(q) \subseteq RowIds
      BY <1>2, <2>1, EntryRows DEF Roomy
    <3>3. Within(g, Then(q))
      BY <2>1, <2>2 DEF RoomChecks, Roomy
    <3>. QED
      BY <1>3, <3>1, <3>2, <3>3
  <2>3. CASE g # Group(q)
    <3>1. Active(g)' \subseteq Active(g) /\ Active(g) \subseteq RowIds
      <4>1. ASSUME NEW id \in RowIds, id[1] = g
            PROVE  member'[id] = member[id]
        BY <1>6, <2>3, <4>1, EntryWrites
      <4>. QED
        BY <4>1 DEF Active
    <3>2. Within(g, Active(g))
      BY DEF RoomFor
    <3>. QED
      BY <1>3, <3>1, <3>2
  <2>. QED
    BY <2>2, <2>3
<1>7. CASE CommitChange(q)
  <2>1. ASSUME NEW id \in RowIds, member'[id].status = "active"
        PROVE  member[id].status = "active"
    <3>1. Is(q, Changes) /\ ~Is(q, Edits) => NewStatus[Op(q).kind] # "active"
      BY DEF Is, Changes, Departures, Edits, NewStatus
    <3>. QED
      BY <1>7, <2>1, <3>1, ChangeWrites
  <2>. QED
    BY <1>4, <2>1
<1>8. CASE CommitGroup(q)
  BY <1>2, <1>4, <1>8, GroupWrites DEF Exists
<1>9. CASE CommitRedeem(q)
  BY <1>4, <1>9, RedeemWrites DEF Exists
<1>. QED
  BY <1>5, <1>6, <1>7, <1>8, <1>9, MemberWrites

-----------------------------------------------------------------------------
(* What the steps of an entry leave in its record                          *)

LEMMA OneOf ==
    ASSUME NEW S, NEW s \in Seq(S), Len(s) = 1
    PROVE  Range(s) = {s[1]} /\ s[1] \in S
<1>1. DOMAIN s = {1}
  OBVIOUS
<1>. QED
  BY <1>1 DEF Range

LEMMA EntryMoves ==
    ASSUME Base, NEW q \in Reqs, Entry(q), UNCHANGED dataVars
    PROVE  \/ req'[q].at = "done"
           \/ /\ BeginEntry(q) /\ ~Barred(Group(q), personOf[Op(q).users[1]]) /\ Live(Group(q))
              /\ req'[q].at = "group" /\ req'[q].who = <<personOf[Op(q).users[1]]>>
              /\ req'[q].seen = Version(Group(q), personOf[Op(q).users[1]])
           \/ BeginImport(q) /\ req'[q].at = "group"
           \/ /\ BeginCreate(q) /\ req'[q].at = "counts" /\ req'[q].who = <<personOf[Op(q).users[1]]>>
              /\ req'[q].rows = req[q].rows /\ req'[q].fresh = {personOf[Op(q).users[1]]}
           \/ /\ EnterGroup(q) /\ Live(Group(q))
              /\ req'[q].at = "counts" /\ req'[q].who = req[q].who /\ req'[q].seen = req[q].seen
              /\ req'[q].rows = RowsOf(Group(q), Person(q))
              /\ req'[q].fresh = IF RowsOf(Group(q), Person(q)) = {} THEN {Person(q)} ELSE {}
           \/ ImportPeople(q) /\ req'[q].at = "rows"
           \/ /\ ImportRows(q) /\ req'[q].at = "counts"
              /\ LET entering == {p \in Range(req[q].who) : Status(Group(q), p) # "active"} IN
                 /\ \A p \in entering : ~Barred(Group(q), p)
                 /\ req'[q].who = CHOOSE who \in Orders(entering) : TRUE
                 /\ req'[q].rows = UNION {RowsOf(Group(q), p) : p \in entering}
                 /\ req'[q].fresh = {p \in entering : RowsOf(Group(q), p) = {}}
           \/ /\ EnterCounts(q) /\ ~LimitBroken(Group(q), Range(req[q].who))
              /\ req'[q].at \in {"invite", "row"} /\ Rest(q)
           \/ /\ req[q].at \in {"invite", "row", "share"} /\ req'[q].at \in {"row", "share", "commit"} /\ Rest(q)
           \/ /\ EnterShare(q) /\ req'[q].at = "group" /\ Rest(q) /\ Taken(q) /\ Is(q, {"add", "import"})
              /\ \A p \in Referred(q) : ~Orphan(p)
<1>1. Typed(q)
  BY DEF Base
<1>2. CASE \E answer \in Answers : Answer(q, answer)
  BY <1>2, Ended
<1>3. CASE BeginEntry(q) /\ ~(\E answer \in Answers : Answer(q, answer))
  <2>1. PICK p, seen, locks : /\ p = personOf[Op(q).users[1]] /\ seen = Version(Group(q), p)
                              /\ locks = GroupLock(Group(q))
    OBVIOUS
  <2>2. Goes(q, [To(q, "group", locks) EXCEPT !.who = <<p>>, !.seen = seen])
        /\ ~Barred(Group(q), p) /\ Live(Group(q))
    BY <1>3, <2>1 DEF BeginEntry, Answers
  <2>3. req'[q].at = "group" /\ req'[q].who = <<p>> /\ req'[q].seen = seen
    <3>1. req'[q] = [To(q, "group", locks) EXCEPT !.who = <<p>>, !.seen = seen]
      BY <2>2, Went
    <3>. QED
      BY <1>1, <3>1 DEF To, Typed, Record
  <2>. QED
    BY <1>3, <2>1, <2>2, <2>3
<1>4. CASE BeginImport(q) /\ ~(\E answer \in Answers : Answer(q, answer))
  <2>1. Goes(q, To(q, "group", GroupLock(Group(q))))
    BY <1>4 DEF BeginImport, Answers
  <2>. QED
    BY <1>4, <2>1, WentTo
<1>5. CASE BeginCreate(q)
  <2>1. PICK p : p = personOf[Op(q).users[1]]
    OBVIOUS
  <2>2. PICK locks : Goes(q, [To(q, "counts", locks) EXCEPT !.who = <<p>>, !.fresh = {p}])
    BY <1>5, <2>1 DEF BeginCreate
  <2>3. req'[q].at = "counts" /\ req'[q].who = <<p>> /\ req'[q].rows = req[q].rows /\ req'[q].fresh = {p}
    <3>1. req'[q] = [To(q, "counts", locks) EXCEPT !.who = <<p>>, !.fresh = {p}]
      BY <2>2, Went
    <3>. QED
      BY <1>1, <3>1 DEF To, Typed, Record
  <2>. QED
    BY <1>5, <2>1, <2>3
<1>6. CASE EnterGroup(q) /\ ~(\E answer \in Answers : Answer(q, answer))
  <2>1. PICK rows, fresh : /\ rows = RowsOf(Group(q), Person(q))
                           /\ fresh = IF RowsOf(Group(q), Person(q)) = {} THEN {Person(q)} ELSE {}
    OBVIOUS
  <2>2. PICK locks : Goes(q, [To(q, "counts", locks) EXCEPT !.rows = rows, !.fresh = fresh])
    BY <1>6, <2>1 DEF EnterGroup, Answers
  <2>3. Live(Group(q))
    BY <1>6 DEF EnterGroup, Answers
  <2>4. /\ req'[q].at = "counts" /\ req'[q].who = req[q].who /\ req'[q].seen = req[q].seen
        /\ req'[q].rows = rows /\ req'[q].fresh = fresh
    <3>1. req'[q] = [To(q, "counts", locks) EXCEPT !.rows = rows, !.fresh = fresh]
      BY <2>2, Went
    <3>. QED
      BY <1>1, <3>1 DEF To, Typed, Record
  <2>. QED
    BY <1>6, <2>1, <2>3, <2>4
<1>7. CASE ImportPeople(q) /\ ~(\E answer \in Answers : Answer(q, answer))
  <2>1. PICK locks, who : Goes(q, [To(q, "rows", locks) EXCEPT !.who = who])
    BY <1>7 DEF ImportPeople, Answers
  <2>. QED
    BY <1>7, <2>1, WentWith
<1>8. CASE ImportRows(q) /\ ~(\E answer \in Answers : Answer(q, answer))
  <2>1. PICK entering : entering = {p \in Range(req[q].who) : Status(Group(q), p) # "active"}
    OBVIOUS
  <2>2. PICK who, rows, fresh : /\ who = CHOOSE order \in Orders(entering) : TRUE
                                /\ rows = UNION {RowsOf(Group(q), p) : p \in entering}
                                /\ fresh = {p \in entering : RowsOf(Group(q), p) = {}}
    OBVIOUS
  <2>3. /\ \A p \in entering : ~Barred(Group(q), p)
        /\ \E locks : Goes(q, [To(q, "counts", locks) EXCEPT !.who = who, !.rows = rows, !.fresh = fresh])
    BY <1>8, <2>1, <2>2 DEF ImportRows, Answers
  <2>4. req'[q].at = "counts" /\ req'[q].who = who /\ req'[q].rows = rows /\ req'[q].fresh = fresh
    <3>1. PICK locks : req'[q] = [To(q, "counts", locks) EXCEPT !.who = who, !.rows = rows, !.fresh = fresh]
      BY <2>3, Went
    <3>. QED
      BY <1>1, <3>1 DEF To, Typed, Record
  <2>. QED
    BY <1>8, <2>1, <2>2, <2>3, <2>4
<1>9. CASE EnterCounts(q) /\ ~(\E answer \in Answers : Answer(q, answer))
  <2>1. /\ ~LimitBroken(Group(q), Range(req[q].who))
        /\ \E stage \in {"invite", "row"} : \E locks : Goes(q, To(q, stage, locks))
    BY <1>9 DEF EnterCounts, Answers
  <2>. QED
    BY <1>9, <2>1, WentTo
<1>10. CASE (EnterInvite(q) \/ EnterRow(q)) /\ ~(\E answer \in Answers : Answer(q, answer))
  <2>1. /\ req[q].at \in {"invite", "row"}
        /\ \E stage \in {"row", "share"} : \E locks : Goes(q, To(q, stage, locks))
    BY <1>10 DEF EnterInvite, EnterRow, Answers, At
  <2>. QED
    BY <2>1, WentTo
<1>11. CASE EnterShare(q) /\ ~(\E answer \in Answers : Answer(q, answer))
  <2>1. req[q].at = "share" /\ \A p \in Referred(q) : ~Orphan(p)
    BY <1>11 DEF EnterShare, Answers, At
  <2>2. CASE Goes(q, To(q, "commit", <<>>))
    BY <2>1, <2>2, WentTo
  <2>3. CASE Again(q, "group", GroupLock(Group(q))) /\ Taken(q) /\ Is(q, {"add", "import"})
    BY <1>11, <2>1, <2>3, WentAgain
  <2>. QED
    BY <1>11, <2>2, <2>3 DEF EnterShare, Answers
<1>12. CASE CommitEntry(q)
  BY <1>2, <1>12 DEF CommitEntry, Answers
<1>. QED
  BY <1>2, <1>3, <1>4, <1>5, <1>6, <1>7, <1>8, <1>9, <1>10, <1>11, <1>12 DEF Entry

LEMMA StatusOf ==
    ASSUME OneRow, NEW g, NEW p, NEW id \in RowsOf(g, p)
    PROVE  Status(g, p) = member[id].status /\ Version(g, p) = member[id].version
<1>1. (CHOOSE i \in RowsOf(g, p) : TRUE) \in RowsOf(g, p)
  OBVIOUS
<1>2. id = CHOOSE i \in RowsOf(g, p) : TRUE
  BY <1>1, OneRowOf
<1>. QED
  BY <1>2 DEF Status, Version

-----------------------------------------------------------------------------
(* What a request checks at its own steps                                  *)

LEMMA EntryChecked ==
    ASSUME Sound, NEW q \in Reqs, Entry(q), UNCHANGED dataVars, Op(q)' = Op(q), EntryChecks(q)
    PROVE  EntryChecks(q)'
<1>0. PICK g, p : g = Group(q) /\ p = Person(q)
  OBVIOUS
<1>1. SUFFICES ASSUME Is(q, {"join", "add", "accept"}) PROVE EntryChecks(q)'
  BY Unmoved DEF EntryChecks
<1>2. Base /\ RowTypes /\ OneRow /\ Owned /\ AllHere /\ Typed(q) /\ EntryStaged(q) /\ EntryFinds(q)
  BY DEF Sound, Base, RowsHold, Staged, Finds
<1>3. /\ Group(q)' = g /\ Stage(q)' = req'[q].at /\ UNCHANGED <<group, member, person>>
      /\ \A id : Exists(id)' <=> Exists(id)
      /\ \A x : Here(x)' <=> Here(x)
      /\ \A x : RowsOf(g, x)' = RowsOf(g, x)
  BY <1>0, Unmoved
<1>4. \A id \in RowIds : member[id].version \in Nat
  BY <1>2, RowTyped
<1>5. CASE req'[q].at = "done"
  BY <1>3, <1>5 DEF EntryChecks, Inside
<1>6. CASE BeginEntry(q) /\ ~Barred(g, personOf[Op(q).users[1]]) /\ Live(g)
           /\ req'[q].at = "group" /\ req'[q].who = <<personOf[Op(q).users[1]]>>
           /\ req'[q].seen = Version(g, personOf[Op(q).users[1]])
  <2>1. PICK x : x = personOf[Op(q).users[1]]
    OBVIOUS
  <2>2. Here(x) /\ Person(q)' = x
    <3>1. Op(q).users[1] \in Users
      BY <1>1, <1>2, Names DEF Is, Entries
    <3>. QED
      BY <1>2, <1>6, <2>1, <3>1 DEF AllHere, Person
  <2>3. \A id \in RowsOf(g, x) : Unbarred(q, id)'
    <3>1. ASSUME NEW id \in RowsOf(g, x)
          PROVE  Unbarred(q, id)'
      <4>1. member[id].status # "banned" /\ req'[q].seen = member[id].version /\ id \in RowIds
        BY <1>2, <1>6, <2>1, StatusOf DEF Barred, RowsOf
      <4>. QED
        BY <1>3, <1>4, <4>1 DEF Unbarred
    <3>. QED
      BY <3>1
  <2>4. req'[q].seen > 0 => RowsOf(g, x) # {}
    BY <1>6, <2>1 DEF Version
  <2>. QED
    BY <1>3, <1>6, <2>2, <2>3, <2>4 DEF EntryChecks, Here, Live, Inside
<1>7. CASE EnterGroup(q) /\ Live(g)
           /\ req'[q].at = "counts" /\ req'[q].who = req[q].who /\ req'[q].seen = req[q].seen
           /\ req'[q].rows = RowsOf(g, p)
           /\ req'[q].fresh = IF RowsOf(g, p) = {} THEN {p} ELSE {}
  <2>1. Stage(q) = "group"
    BY <1>7 DEF EnterGroup, At, Stage
  <2>2. /\ person[p] # "none" /\ \A id \in RowsOf(g, p) : Unbarred(q, id)
        /\ req[q].seen > 0 /\ Here(p) => RowsOf(g, p) # {}
    BY <1>0, <1>1, <1>7, <2>1 DEF EntryChecks, Live
  <2>3. req[q].seen \in Nat /\ Person(q)' = p
    BY <1>0, <1>2, <1>7 DEF Typed, Record, Person
  <2>4. \A id \in req'[q].rows : Unbarred(q, id)'
    BY <1>3, <1>7, <2>2 DEF Unbarred
  <2>5. req'[q].fresh # {} /\ Here(p) => req'[q].seen = 0
    BY <1>7, <2>2, <2>3
  <2>. QED
    BY <1>3, <1>7, <2>2, <2>3, <2>4, <2>5 DEF EntryChecks, Inside
<1>8. CASE Stage(q) \in Inside /\ req'[q].at \in Inside /\ Rest(q)
  <2>1. /\ person[p] # "none"
        /\ \A id \in req[q].rows : Exists(id) => Unbarred(q, id)
        /\ req[q].fresh # {} /\ Here(p) => req[q].seen = 0
    BY <1>0, <1>1, <1>8 DEF EntryChecks
  <2>2. Person(q)' = p
    BY <1>0, <1>8 DEF Person, Rest
  <2>. QED
    BY <1>3, <1>8, <2>1, <2>2 DEF EntryChecks, Unbarred, Rest, Inside
<1>9. CASE EnterShare(q) /\ req'[q].at = "group" /\ Rest(q) /\ Taken(q) /\ Is(q, {"add", "import"})
           /\ \A x \in Referred(q) : ~Orphan(x)
  <2>1. Stage(q) = "share"
    BY <1>9 DEF EnterShare, At, Stage
  <2>2. req[q].fresh # {} /\ req[q].fresh \subseteq {p}
    <3>1. req[q].fresh # {}
      BY <1>9 DEF Taken
    <3>2. Members(q) = {p}
      <4>1. Len(req[q].who) = 1 /\ req[q].who \in Seq(People)
        BY <1>1, <1>2, <2>1 DEF EntryStaged, Typed, Record, Is, Entries
      <4>. QED
        BY <1>0, <4>1, OneOf DEF Members, Person
    <3>. QED
      BY <1>1, <1>2, <2>1, <3>1, <3>2 DEF EntryStaged, Roomy, Is, Entries
  <2>3. Here(p)
    BY <1>9, <2>2 DEF Referred, Orphan, Here
  <2>4. req[q].seen = 0
    BY <1>0, <1>1, <2>1, <2>2, <2>3 DEF EntryChecks, Inside
  <2>5. \A id \in RowsOf(g, p) : Unbarred(q, id)'
    <3>1. ASSUME NEW id \in RowsOf(g, p)
          PROVE  Unbarred(q, id)'
      <4>1. id \in RowIds /\ member[id].version > 0 /\ member[id].version \in Nat
        BY <1>2, <1>4 DEF RowsOf, Owned, Exists
      <4>2. req'[q].seen = 0
        BY <1>9, <2>4 DEF Rest
      <4>. QED
        BY <1>3, <4>1, <4>2 DEF Unbarred
    <3>. QED
      BY <3>1
  <2>6. group[g].status # "none"
    BY <1>0, <1>1, <1>2, <2>1 DEF EntryFinds, Inside, Live, Is, Entries
  <2>7. Person(q)' = p /\ req'[q].seen = 0
    BY <1>0, <1>9, <2>4 DEF Person, Rest
  <2>. QED
    BY <1>3, <1>9, <2>3, <2>5, <2>6, <2>7 DEF EntryChecks, Here, Inside
<1>10. ~BeginImport(q) /\ ~BeginCreate(q) /\ ~ImportPeople(q) /\ ~ImportRows(q)
  BY <1>1 DEF BeginImport, BeginCreate, ImportPeople, ImportRows, Is
<1>11. EnterCounts(q) => Stage(q) = "counts"
  BY DEF EnterCounts, At, Stage
<1>. QED
  BY <1>0, <1>2, <1>5, <1>6, <1>7, <1>8, <1>9, <1>10, <1>11, EntryMoves DEF Inside, Stage

LEMMA ImportChecked ==
    ASSUME Sound, NEW q \in Reqs, Entry(q), UNCHANGED dataVars, Op(q)' = Op(q), ImportChecks(q)
    PROVE  ImportChecks(q)'
<1>1. SUFFICES ASSUME Is(q, {"import"}), req'[q].at \in Inside \ {"rows"}
               PROVE  \A id \in req'[q].rows : member[id].status # "banned"
  BY Unmoved DEF ImportChecks
<1>2. Base /\ OneRow
  BY DEF Sound, RowsHold
<1>3. CASE LET entering == {p \in Range(req[q].who) : Status(Group(q), p) # "active"} IN
           /\ \A p \in entering : ~Barred(Group(q), p)
           /\ req'[q].rows = UNION {RowsOf(Group(q), p) : p \in entering}
  <2>1. ASSUME NEW id \in req'[q].rows
        PROVE  member[id].status # "banned"
    <3>1. PICK p : id \in RowsOf(Group(q), p) /\ ~Barred(Group(q), p)
      BY <1>3
    <3>. QED
      BY <1>2, <3>1, StatusOf DEF Barred
  <2>. QED
    BY <2>1
<1>4. CASE Stage(q) \in Inside \ {"rows"} /\ Rest(q)
  BY <1>1, <1>4 DEF ImportChecks, Rest
<1>5. ~BeginEntry(q) /\ ~BeginCreate(q) /\ ~EnterGroup(q)
  BY <1>1 DEF BeginEntry, BeginCreate, EnterGroup, Is
<1>6. EnterCounts(q) => Stage(q) = "counts"
  BY DEF EnterCounts, At, Stage
<1>. QED
  BY <1>1, <1>2, <1>3, <1>4, <1>5, <1>6, EntryMoves DEF Inside, Stage

\* The rows that an import takes over and those it creates are no more than the people.
LEMMA OneEach ==
    ASSUME RowTypes, OneRow, NEW g \in Groups, NEW P \in SUBSET People
    PROVE  LET N == (UNION {RowsOf(g, p) : p \in P}) \cup ({g} \X {p \in P : RowsOf(g, p) = {}})
           IN  N \subseteq RowIds /\ Cardinality(N) <= Cardinality(P)
<1>. DEFINE rows == UNION {RowsOf(g, p) : p \in P}
            fresh == {p \in P : RowsOf(g, p) = {}}
            N == rows \cup ({g} \X fresh)
            f == [id \in N |-> IF id \in rows THEN member[id].person ELSE id[2]]
<1>1. N \subseteq RowIds
  BY DEF RowsOf, RowIds
<1>2. \A id \in rows : id[1] = g /\ Exists(id) /\ member[id].person \in P /\ id \in RowsOf(g, member[id].person)
  BY DEF RowsOf, Exists
<1>3. \A id \in N \ rows : id = <<g, id[2]>> /\ id[2] \in fresh
  OBVIOUS
<1>4. \A id \in N : f[id] \in P
  BY <1>2, <1>3
<1>5. ASSUME NEW a \in N, NEW b \in N, f[a] = f[b]
      PROVE  a = b
  <2>1. CASE a \in rows /\ b \in rows
    BY <1>1, <1>2, <1>5, <2>1 DEF OneRow
  <2>2. CASE a \notin rows /\ b \notin rows
    BY <1>3, <1>5, <2>2
  <2>3. CASE a \in rows /\ b \notin rows
    BY <1>2, <1>3, <1>5, <2>3
  <2>4. CASE a \notin rows /\ b \in rows
    BY <1>2, <1>3, <1>5, <2>4
  <2>. QED
    BY <2>1, <2>2, <2>3, <2>4
<1>6. f \in Injection(N, P)
  BY <1>4, <1>5 DEF Injection, IsInjective
<1>7. IsFiniteSet(P)
  BY FS_Subset, MembershipsAssumption
<1>. HIDE DEF N, f
<1>8. Cardinality(N) <= Cardinality(P)
  BY <1>6, <1>7, FS_Injection DEF ExistsInjection
<1>. QED
  BY <1>1, <1>8 DEF N

LEMMA OneOrMore ==
    ASSUME NEW p
    PROVE  Cardinality({p}) = 1 /\ Range(<<p>>) = {p}
BY FS_Singleton DEF Range

\* What is left of the room for members once an entry has counted them.
LEMMA RoomLeft ==
    ASSUME Base, NEW q \in Reqs, Is(q, Entries), Stage(q) = "counts", RoomChecks(q),
           ~LimitBroken(Group(q), Range(req[q].who))
    PROVE  Within(Group(q), Then(q))
<1>0. PICK g, N, most : g = Group(q) /\ N = req[q].rows \cup ({g} \X req[q].fresh) /\ most = MaxMembers[KindOf[g]]
  OBVIOUS
<1>1. SUFFICES ASSUME most # NoLimit PROVE Cardinality(Then(q)) <= most
  BY <1>0 DEF Within
<1>2. g \in Groups /\ Active(g) \subseteq RowIds /\ N \subseteq RowIds /\ Then(q) = Active(g) \cup N
  BY <1>0, EntryRows DEF Then
<1>3. IsFiniteSet(Active(g)) /\ IsFiniteSet(N)
  BY <1>2, FiniteRows, FS_Subset
<1>4. IsFiniteSet(Range(req[q].who))
  <2>1. Range(req[q].who) \subseteq People
    <3>1. req[q].who \in Seq(People)
      BY DEF Base, Typed, Record
    <3>. QED
      BY <3>1, ElementOfSeq DEF Range
  <2>. QED
    BY <2>1, FS_Subset, MembershipsAssumption
<1>5. most \in Nat /\ Cardinality(Active(g)) + Cardinality(Range(req[q].who)) <= most
  <2>1. ~(Cardinality(Active(g)) + Cardinality(Range(req[q].who)) > most)
    BY <1>0, <1>1 DEF LimitBroken
  <2>2. /\ Cardinality(Active(g)) \in Nat /\ Cardinality(Range(req[q].who)) \in Nat
    BY <1>3, <1>4, FS_CardinalityType
  <2>. QED
    BY <1>0, <1>1, <1>2, <2>1, <2>2, LimitType
<1>6. Cardinality(N) <= Cardinality(Range(req[q].who))
  BY <1>0 DEF RoomChecks, Members
<1>7. Cardinality(Active(g) \cup N) <= Cardinality(Active(g)) + Cardinality(N)
  <2>1. /\ Cardinality(Active(g) \cup N) = Cardinality(Active(g)) + Cardinality(N) - Cardinality(Active(g) \cap N)
    BY <1>3, FS_Union
  <2>2. IsFiniteSet(Active(g) \cap N)
    BY <1>3, FS_Subset
  <2>3. /\ Cardinality(Active(g)) \in Nat /\ Cardinality(N) \in Nat /\ Cardinality(Active(g) \cap N) \in Nat
    BY <1>3, <2>2, FS_CardinalityType
  <2>. QED
    BY <2>1, <2>3
<1>8. /\ Cardinality(Active(g)) \in Nat /\ Cardinality(N) \in Nat /\ Cardinality(Range(req[q].who)) \in Nat
      /\ Cardinality(Active(g) \cup N) \in Nat
  BY <1>3, <1>4, FS_CardinalityType, FS_Union
<1>. QED
  BY <1>2, <1>5, <1>6, <1>7, <1>8

LEMMA RoomChecked ==
    ASSUME Sound, NEW q \in Reqs, Entry(q), UNCHANGED dataVars, Op(q)' = Op(q), RoomChecks(q)
    PROVE  RoomChecks(q)'
<1>0. PICK g, p : g = Group(q) /\ p = Person(q)
  OBVIOUS
<1>1. Base /\ RowTypes /\ OneRow /\ Typed(q) /\ EntryStaged(q) /\ Unbegun(q) /\ Is(q, Entries)
  BY StepKinds DEF Sound, Base, RowsHold, Staged
<1>2. /\ Group(q)' = g /\ Stage(q)' = req'[q].at /\ UNCHANGED member /\ Active(g)' = Active(g)
      /\ Is(q, Entries)' /\ g \in Groups
  <2>1. Is(q, Entries \cup Changes \cup GroupOps \cup InviteOps)
    BY <1>1 DEF Is
  <2>. QED
    BY <1>0, <1>1, <2>1, Unmoved, Names DEF Active
<1>3. CASE req'[q].at \notin Roomy \cup {"counts"}
  BY <1>2, <1>3 DEF RoomChecks
<1>4. ASSUME req'[q].at = "counts",
             Cardinality(req'[q].rows \cup ({g} \X req'[q].fresh)) <= Cardinality(Range(req'[q].who))
      PROVE  RoomChecks(q)'
  BY <1>2, <1>4 DEF RoomChecks, Members, Roomy
<1>5. ASSUME req'[q].at \in Roomy, Within(g, Then(q)), Rest(q)
      PROVE  RoomChecks(q)'
  <2>1. Then(q)' = Then(q)
    BY <1>0, <1>2, <1>5 DEF Then, Rest
  <2>. QED
    BY <1>2, <1>5, <2>1 DEF RoomChecks, Roomy, Within
<1>6. CASE BeginCreate(q) /\ req'[q].at = "counts" /\ req'[q].who = <<personOf[Op(q).users[1]]>>
           /\ req'[q].rows = req[q].rows /\ req'[q].fresh = {personOf[Op(q).users[1]]}
  <2>1. PICK x : x = personOf[Op(q).users[1]]
    OBVIOUS
  <2>2. req[q].rows = {}
    BY <1>1, <1>6 DEF BeginCreate, At, Stage, Unbegun
  <2>3. req'[q].rows \cup ({g} \X req'[q].fresh) = {<<g, x>>} /\ req'[q].who = <<x>>
    BY <1>6, <2>1, <2>2
  <2>4. Cardinality({<<g, x>>}) = 1 /\ Cardinality(Range(<<x>>)) = 1
    BY OneOrMore
  <2>5. Cardinality(req'[q].rows \cup ({g} \X req'[q].fresh)) = 1
    BY <2>3, <2>4
  <2>6. Cardinality(Range(req'[q].who)) = 1
    BY <2>3, <2>4
  <2>7. Cardinality(req'[q].rows \cup ({g} \X req'[q].fresh)) <= Cardinality(Range(req'[q].who))
    BY <2>5, <2>6
  <2>. QED
    BY <1>4, <1>6, <2>7
<1>7. CASE EnterGroup(q) /\ req'[q].at = "counts" /\ req'[q].who = req[q].who
           /\ req'[q].rows = RowsOf(g, p) /\ req'[q].fresh = IF RowsOf(g, p) = {} THEN {p} ELSE {}
  <2>1. Cardinality(Range(req[q].who)) = 1
    <3>1. Len(req[q].who) = 1 /\ req[q].who \in Seq(People)
      BY <1>1, <1>7 DEF EnterGroup, At, Stage, EntryStaged, Typed, Record, Is
    <3>. QED
      BY <3>1, OneOf, OneOrMore
  <2>2. \A a, b \in req'[q].rows \cup ({g} \X req'[q].fresh) : a = b
    <3>1. CASE RowsOf(g, p) = {}
      BY <1>7, <3>1
    <3>2. CASE RowsOf(g, p) # {}
      <4>1. req'[q].rows \cup ({g} \X req'[q].fresh) = RowsOf(g, p)
        BY <1>7, <3>2
      <4>. QED
        BY <1>1, <4>1, OneRowOf
    <3>. QED
      BY <3>1, <3>2
  <2>3. Cardinality(req'[q].rows \cup ({g} \X req'[q].fresh)) <= 1
    BY <2>2, OneAtMost
  <2>. QED
    BY <1>4, <1>7, <2>1, <2>3
<1>8. CASE /\ ImportRows(q) /\ req'[q].at = "counts"
           /\ LET entering == {x \in Range(req[q].who) : Status(Group(q), x) # "active"} IN
              /\ req'[q].who = CHOOSE who \in Orders(entering) : TRUE
              /\ req'[q].rows = UNION {RowsOf(Group(q), x) : x \in entering}
              /\ req'[q].fresh = {x \in entering : RowsOf(Group(q), x) = {}}
  <2>1. PICK P : P = {x \in Range(req[q].who) : Status(Group(q), x) # "active"}
    OBVIOUS
  <2>2. P \subseteq People
    <3>1. req[q].who \in Seq(People)
      BY <1>1 DEF Typed, Record
    <3>. QED
      BY <2>1, <3>1, ElementOfSeq DEF Range
  <2>3. req'[q].rows = UNION {RowsOf(g, x) : x \in P} /\ req'[q].fresh = {x \in P : RowsOf(g, x) = {}}
    BY <1>0, <1>8, <2>1
  <2>4. Cardinality(req'[q].rows \cup ({g} \X req'[q].fresh)) <= Cardinality(P)
    BY <1>1, <1>2, <2>2, <2>3, OneEach
  <2>5. Range(req'[q].who) = P
    <3>1. req'[q].who \in Orders(P)
      <4>1. Orders(P) # {}
        BY <2>2, SomeOrder, FS_Subset, MembershipsAssumption
      <4>. QED
        BY <1>8, <2>1, <4>1
    <3>. QED
      BY <3>1 DEF Orders, Range
  <2>. QED
    BY <1>4, <1>8, <2>4, <2>5
<1>9. CASE EnterCounts(q) /\ ~LimitBroken(Group(q), Range(req[q].who)) /\ req'[q].at \in {"invite", "row"} /\ Rest(q)
  <2>1. Within(g, Then(q))
    BY <1>0, <1>1, <1>9, RoomLeft DEF EnterCounts, At, Stage
  <2>. QED
    BY <1>5, <1>9, <2>1 DEF Roomy
<1>10. CASE Stage(q) \in Roomy /\ req'[q].at \in Roomy /\ Rest(q)
  <2>1. Within(g, Then(q))
    BY <1>0, <1>1, <1>10 DEF RoomChecks
  <2>. QED
    BY <1>5, <1>10, <2>1
<1>. QED
  BY <1>0, <1>1, <1>3, <1>6, <1>7, <1>8, <1>9, <1>10, EntryMoves DEF Roomy, Stage

LEMMA ChangeMoves ==
    ASSUME Base, NEW q \in Reqs, Change(q), UNCHANGED dataVars
    PROVE  \/ req'[q].at = "done"
           \/ /\ BeginChange(q) /\ req'[q].at \in {"group", "row"} /\ (req'[q].at = "row" => Is(q, Edits))
              /\ req'[q].who = <<personOf[Op(q).users[1]]>>
           \/ /\ ChangeGroup(q) /\ req'[q].at = "row" /\ req'[q].who = req[q].who
              /\ req'[q].rows = IF Is(q, {"ban"}) THEN RowsOf(Group(q), Person(q)) ELSE req[q].rows
              /\ req'[q].found <=> Is(q, {"leave", "kick"}) \/ (Is(q, {"ban"}) /\ Status(Group(q), Person(q)) = "active")
           \/ /\ ChangeRow(q) /\ req'[q].at = (IF Is(q, Edits) THEN "commit" ELSE "settle")
              /\ Rest(q) /\ req'[q].found = req[q].found
              /\ \A id \in req[q].rows : ~Misses(q, id)
              /\ Is(q, {"leave", "kick"}) => \A id \in req[q].rows : member[id].status = "active"
           \/ /\ Settle(q) /\ req'[q].at = "commit" /\ Rest(q)
              /\ req'[q].found <=> req[q].found /\ Empties(Group(q), req[q].rows)
           \/ Settle(q) /\ req'[q].at = "group" /\ Rest(q)
<1>1. Typed(q)
  BY DEF Base
<1>2. CASE \E answer \in Answers : Answer(q, answer)
  BY <1>2, Ended
<1>3. CASE BeginChange(q) /\ ~(\E answer \in Answers : Answer(q, answer))
  <2>0. PICK x, rows, seen, stage, locks :
            /\ x = personOf[Op(q).users[1]] /\ rows = RowsOf(Group(q), x) /\ seen = Version(Group(q), x)
            /\ stage = (IF Is(q, Edits) THEN "row" ELSE "group") /\ locks = ChangeLocks(q, rows)
    OBVIOUS
  <2>. DEFINE who == <<x>>
  <2>1. /\ Goes(q, [To(q, stage, locks) EXCEPT !.who = who, !.rows = rows, !.seen = seen])
        /\ stage \in {"group", "row"} /\ (stage = "row" => Is(q, Edits))
    BY <1>3, <2>0 DEF BeginChange, Answers
  <2>2. req'[q].at = stage /\ req'[q].who = who
    <3>1. req'[q] = [To(q, stage, locks) EXCEPT !.who = who, !.rows = rows, !.seen = seen]
      BY <2>1, Went
    <3>. QED
      BY <1>1, <3>1 DEF To, Typed, Record
  <2>. QED
    BY <1>3, <2>0, <2>1, <2>2
<1>4. CASE ChangeGroup(q) /\ ~(\E answer \in Answers : Answer(q, answer))
  <2>1. PICK rows, found : /\ rows = IF Is(q, {"ban"}) THEN RowsOf(Group(q), Person(q)) ELSE req[q].rows
                           /\ found = (Is(q, {"leave", "kick"})
                                         \/ (Is(q, {"ban"}) /\ Status(Group(q), Person(q)) = "active"))
    OBVIOUS
  <2>2. PICK fresh, locks :
            Goes(q, [To(q, "row", locks) EXCEPT !.rows = rows, !.fresh = fresh, !.found = found])
    BY <1>4, <2>1 DEF ChangeGroup, Answers
  <2>3. req'[q].at = "row" /\ req'[q].who = req[q].who /\ req'[q].rows = rows /\ req'[q].found = found
    <3>1. req'[q] = [To(q, "row", locks) EXCEPT !.rows = rows, !.fresh = fresh, !.found = found]
      BY <2>2, Went
    <3>. QED
      BY <1>1, <3>1 DEF To, Typed, Record
  <2>. QED
    BY <1>4, <2>1, <2>3
<1>5. CASE ChangeRow(q) /\ ~(\E answer \in Answers : Answer(q, answer))
  <2>1. /\ \A id \in req[q].rows : ~Misses(q, id)
        /\ Is(q, {"leave", "kick"}) => \A id \in req[q].rows : member[id].status = "active"
        /\ \E locks : Goes(q, To(q, IF Is(q, Edits) THEN "commit" ELSE "settle", locks))
    BY <1>5 DEF ChangeRow, Answers
  <2>. QED
    BY <1>5, <2>1, WentTo
<1>6. CASE Settle(q) /\ ~(\E answer \in Answers : Answer(q, answer))
  <2>1. CASE Again(q, "group", GroupLock(Group(q)))
    BY <1>6, <2>1, WentAgain
  <2>2. CASE Goes(q, [To(q, "commit", <<>>) EXCEPT !.found = req[q].found /\ Empties(Group(q), req[q].rows)])
    <3>1. PICK found : found = (req[q].found /\ Empties(Group(q), req[q].rows))
      OBVIOUS
    <3>2. req'[q].at = "commit" /\ Rest(q) /\ req'[q].found = found
      <4>1. req'[q] = [To(q, "commit", <<>>) EXCEPT !.found = found]
        BY <2>2, <3>1, Went
      <4>. QED
        BY <1>1, <4>1 DEF To, Typed, Record, Rest
    <3>. QED
      BY <1>6, <3>1, <3>2
  <2>. QED
    BY <1>6, <2>1, <2>2 DEF Settle, Answers
<1>7. CASE CommitChange(q)
  BY <1>2, <1>7 DEF CommitChange, Answers
<1>. QED
  BY <1>2, <1>3, <1>4, <1>5, <1>6, <1>7 DEF Change

LEMMA ChangeChecked ==
    ASSUME Sound, NEW q \in Reqs, Change(q), UNCHANGED dataVars, Op(q)' = Op(q),
           EditChecks(q), ChangeChecks(q), EmptyChecks(q)
    PROVE  EditChecks(q)' /\ ChangeChecks(q)' /\ EmptyChecks(q)'
<1>0. PICK g, p : g = Group(q) /\ p = Person(q)
  OBVIOUS
<1>1. Base /\ OneRow /\ AllHere /\ Typed(q) /\ ChangeStaged(q) /\ Is(q, Changes)
  BY StepKinds DEF Sound, Base, RowsHold, Staged
<1>2. /\ Group(q)' = g /\ Stage(q)' = req'[q].at /\ UNCHANGED <<group, member, person>>
      /\ \A id : Exists(id)' <=> Exists(id)
      /\ \A x : Here(x)' <=> Here(x)
      /\ Active(g)' = Active(g)
      /\ \A kinds : Is(q, kinds)' <=> Is(q, kinds)
  BY <1>0, Unmoved DEF Active
<1>3. ~Is(q, Departures \cup {"unban"}) <=> Is(q, Edits)
  BY <1>1 DEF Is, Changes, Departures, Edits
<1>4. CASE req'[q].at = "done"
  BY <1>2, <1>4 DEF EditChecks, ChangeChecks, EmptyChecks
<1>5. CASE /\ BeginChange(q) /\ req'[q].at \in {"group", "row"} /\ (req'[q].at = "row" => Is(q, Edits))
           /\ req'[q].who = <<personOf[Op(q).users[1]]>>
  <2>1. person[Person(q)'] # "none"
    <3>1. Op(q).users[1] \in Users
      BY <1>1, Names DEF Is, Changes, Departures, Edits
    <3>. QED
      BY <1>1, <1>5, <3>1 DEF AllHere, Here, Person
  <2>2. EditChecks(q)'
    BY <1>2, <1>5 DEF EditChecks
  <2>3. EmptyChecks(q)'
    BY <1>2, <1>5 DEF EmptyChecks, Is, Edits, Departures
  <2>4. ChangeChecks(q)'
    BY <1>2, <1>5, <2>1 DEF ChangeChecks, Is, Edits, Departures
  <2>. QED
    BY <2>2, <2>3, <2>4
<1>6. CASE /\ ChangeGroup(q) /\ req'[q].at = "row" /\ req'[q].who = req[q].who
           /\ req'[q].rows = IF Is(q, {"ban"}) THEN RowsOf(Group(q), Person(q)) ELSE req[q].rows
           /\ req'[q].found <=> Is(q, {"leave", "kick"}) \/ (Is(q, {"ban"}) /\ Status(Group(q), Person(q)) = "active")
  <2>1. Stage(q) = "group" /\ Person(q)' = p
    BY <1>0, <1>6 DEF ChangeGroup, At, Stage, Person
  <2>2. Is(q, {"ban"}) => \A id \in req'[q].rows : member[id].person = p
    BY <1>0, <1>6 DEF RowsOf
  <2>3. ASSUME Is(q, Departures), ~req'[q].found
        PROVE  Is(q, {"ban"}) /\ \A id \in req'[q].rows : member[id].status # "active"
    <3>1. Is(q, {"ban"}) /\ Status(g, p) # "active" /\ req'[q].rows = RowsOf(g, p)
      BY <1>0, <1>6, <2>3 DEF Is, Departures
    <3>. QED
      BY <1>1, <3>1, StatusOf
  <2>4. EditChecks(q)'
    BY <1>2, <1>6 DEF EditChecks
  <2>5. EmptyChecks(q)'
    BY <1>2, <1>6, <2>3 DEF EmptyChecks
  <2>6. ChangeChecks(q)'
    BY <1>0, <1>2, <1>6, <2>1, <2>2 DEF ChangeChecks
  <2>. QED
    BY <2>4, <2>5, <2>6
<1>7. CASE /\ ChangeRow(q) /\ req'[q].at = (IF Is(q, Edits) THEN "commit" ELSE "settle")
           /\ Rest(q) /\ req'[q].found = req[q].found
           /\ \A id \in req[q].rows : ~Misses(q, id)
           /\ Is(q, {"leave", "kick"}) => \A id \in req[q].rows : member[id].status = "active"
  <2>1. Stage(q) = "row" /\ Person(q)' = p
    BY <1>0, <1>7 DEF ChangeRow, At, Stage, Person, Rest
  <2>2. EditChecks(q)'
    BY <1>2, <1>7 DEF EditChecks, Misses, Rest
  <2>3. EmptyChecks(q)'
    <3>1. Is(q, Departures) => req'[q].at = "settle"
      BY <1>7 DEF Is, Departures, Edits
    <3>. QED
      BY <1>2, <1>7, <2>1, <3>1 DEF EmptyChecks, Rest
  <2>4. ChangeChecks(q)'
    BY <1>0, <1>2, <1>7, <2>1 DEF ChangeChecks, Misses, Rest
  <2>. QED
    BY <2>2, <2>3, <2>4
<1>8. CASE /\ Settle(q) /\ req'[q].at = "commit" /\ Rest(q)
           /\ req'[q].found <=> req[q].found /\ Empties(Group(q), req[q].rows)
  <2>1. Stage(q) = "settle" /\ Person(q)' = p /\ ~Is(q, Edits)
    BY <1>0, <1>1, <1>8 DEF Settle, At, Stage, Person, Rest, ChangeStaged
  <2>2. EditChecks(q)'
    BY <1>2, <2>1 DEF EditChecks, Is, Edits
  <2>3. EmptyChecks(q)'
    BY <1>0, <1>2, <1>8, <2>1 DEF EmptyChecks, Empties, Rest
  <2>4. ChangeChecks(q)'
    BY <1>0, <1>2, <1>8, <2>1 DEF ChangeChecks, Rest
  <2>. QED
    BY <2>2, <2>3, <2>4
<1>9. CASE Settle(q) /\ req'[q].at = "group" /\ Rest(q)
  <2>1. Stage(q) = "settle" /\ Person(q)' = p
    BY <1>0, <1>9 DEF Settle, At, Stage, Person, Rest
  <2>2. EditChecks(q)' /\ EmptyChecks(q)'
    BY <1>2, <1>9 DEF EditChecks, EmptyChecks
  <2>3. ChangeChecks(q)'
    BY <1>0, <1>2, <1>9, <2>1 DEF ChangeChecks, Rest
  <2>. QED
    BY <2>2, <2>3
<1>. QED
  BY <1>1, <1>4, <1>5, <1>6, <1>7, <1>8, <1>9, ChangeMoves

LEMMA SweepChecked ==
    ASSUME Sound, NEW q \in Reqs, GroupOp(q), UNCHANGED dataVars, Op(q)' = Op(q)
    PROVE  SweepChecks(q)'
<1>1. Base /\ Is(q, GroupOps)
  BY StepKinds DEF Sound
<1>2. SUFFICES ASSUME Is(q, {"sweep"}), req'[q].at = "commit"
               PROVE  Live(Group(q)) /\ group[Group(q)].idle
  BY Unmoved DEF SweepChecks
<1>3. ~(\E answer \in Answers : Answer(q, answer))
  BY <1>1, <1>2, Ended
<1>4. ~BeginGroup(q)
  <2>1. BeginGroup(q) => \E locks : Goes(q, To(q, "group", locks))
    BY <1>2, <1>3 DEF BeginGroup, Answers, Is
  <2>. QED
    BY <1>1, <1>2, <2>1, WentTo
<1>5. ~RestoreList(q) /\ ~RestoreCounts(q) /\ ~CommitGroup(q)
  BY <1>2, <1>3 DEF RestoreList, RestoreCounts, CommitGroup, Is, Answers
<1>6. GroupLocked(q) => StillIdle(Group(q))
  BY <1>2, <1>3 DEF GroupLocked, Answers
<1>. QED
  BY <1>4, <1>5, <1>6 DEF GroupOp, StillIdle

LEMMA MergeChecked ==
    ASSUME Sound, NEW q \in Reqs, Link(q), UNCHANGED dataVars, Op(q)' = Op(q)
    PROVE  MergeChecks(q)'
<1>1. PICK to, from : to = req'[q].who[1] /\ from = req'[q].who[2]
  OBVIOUS
<1>2. SUFFICES ASSUME Is(q, {"redeem"}), req'[q].at = "commit", to # from
               PROVE  \A id \in RowIds : member[id].person = from => member[id].status # "banned"
  BY <1>1, Unmoved DEF MergeChecks, Merging
<1>3. ~Banned(from)
  BY <1>1, <1>2, LinkMoves DEF MergeFound, Holds, Sound
<1>. QED
  BY <1>3 DEF Banned, RowsAnywhere

-----------------------------------------------------------------------------
(* The invariant of the checks                                             *)

LEMMA DoneChecks ==
    ASSUME NEW q, req'[q].at = "done"
    PROVE  Checks(q)' /\ RoomChecks(q)'
<1>1. Stage(q)' = "done"
  BY DEF Stage
<1>. QED
  BY <1>1 DEF Checks, SweepChecks, EditChecks, ImportChecks, EntryChecks, ChangeChecks, EmptyChecks, MergeChecks,
     RoomChecks, Merging, Inside, Roomy

\* Only the checks of its family say anything of a request.
LEMMA FamilyChecks ==
    ASSUME NEW q, Op(q)' = Op(q)
    PROVE  /\ ~Is(q, Entries) => ImportChecks(q)' /\ EntryChecks(q)' /\ RoomChecks(q)'
           /\ ~Is(q, Changes) => EditChecks(q)' /\ ChangeChecks(q)' /\ EmptyChecks(q)'
           /\ ~Is(q, GroupOps) => SweepChecks(q)'
           /\ ~Is(q, LinkOps) => MergeChecks(q)'
<1>1. \A kinds : Is(q, kinds)' <=> Is(q, kinds)
  BY DEF Is
<1>2. /\ ~Is(q, Entries) => ~Is(q, {"import"}) /\ ~Is(q, {"join", "add", "accept"})
      /\ ~Is(q, Changes) => /\ ~Is(q, {"edit_if"}) /\ ~Is(q, {"leave", "kick"}) /\ ~Is(q, {"unban"})
                            /\ ~Is(q, {"ban"}) /\ ~Is(q, Departures)
      /\ ~Is(q, GroupOps) => ~Is(q, {"sweep"})
      /\ ~Is(q, LinkOps) => ~Is(q, {"redeem"})
  BY DEF Is, Entries, Changes, Departures, Edits, GroupOps, LinkOps
<1>3. ~Is(q, Entries) => ImportChecks(q)' /\ EntryChecks(q)' /\ RoomChecks(q)'
  BY <1>1, <1>2 DEF ImportChecks, EntryChecks, RoomChecks
<1>4. ~Is(q, Changes) => EditChecks(q)' /\ ChangeChecks(q)' /\ EmptyChecks(q)'
  BY <1>1, <1>2 DEF EditChecks, ChangeChecks, EmptyChecks
<1>5. (~Is(q, GroupOps) => SweepChecks(q)') /\ (~Is(q, LinkOps) => MergeChecks(q)')
  BY <1>1, <1>2 DEF SweepChecks, MergeChecks, Merging
<1>. QED
  BY <1>3, <1>4, <1>5

LEMMA ChecksSame ==
    ASSUME NEW q, Checks(q), RoomChecks(q), UNCHANGED dataVars, Op(q)' = Op(q), req'[q].at = req[q].at, Rest(q),
           req'[q].found = req[q].found, Done({"redeem"}) => Done({"redeem"})'
    PROVE  Checks(q)' /\ RoomChecks(q)'
<1>1. /\ Group(q)' = Group(q) /\ Stage(q)' = Stage(q) /\ (\A kinds : Is(q, kinds)' <=> Is(q, kinds))
      /\ \A g : Live(g)' <=> Live(g)
      /\ \A id : Exists(id)' <=> Exists(id)
      /\ \A p : Here(p)' <=> Here(p)
      /\ \A g, p : RowsOf(g, p)' = RowsOf(g, p)
      /\ \A g : Active(g)' = Active(g)
      /\ UNCHANGED <<group, member, person>>
      /\ req'[q].who = req[q].who /\ req'[q].rows = req[q].rows /\ req'[q].fresh = req[q].fresh
      /\ req'[q].seen = req[q].seen /\ req'[q].found = req[q].found
  BY Unmoved DEF Stage, Rest, Active
<1>2. Person(q)' = Person(q) /\ Members(q)' = Members(q) /\ (Merging(q)' <=> Merging(q)) /\ Then(q)' = Then(q)
  BY <1>1 DEF Person, Members, Merging, Then
<1>3. SweepChecks(q)' /\ EditChecks(q)' /\ ImportChecks(q)'
  BY <1>1 DEF Checks, SweepChecks, EditChecks, ImportChecks
<1>4. EntryChecks(q)'
  BY <1>1, <1>2 DEF Checks, EntryChecks, Unbarred
<1>5. ChangeChecks(q)'
  BY <1>1, <1>2 DEF Checks, ChangeChecks
<1>6. EmptyChecks(q)'
  BY <1>1 DEF Checks, EmptyChecks
<1>7. MergeChecks(q)'
  BY <1>1, <1>2 DEF Checks, MergeChecks
<1>8. RoomChecks(q)'
  BY <1>1, <1>2 DEF RoomChecks, Within
<1>. QED
  BY <1>3, <1>4, <1>5, <1>6, <1>7, <1>8 DEF Checks

LEMMA OwnChecks ==
    ASSUME Sound, NEW q \in Reqs, Step(q), Checks(q), RoomChecks(q)
    PROVE  Checks(q)' /\ RoomChecks(q)'
<1>1. Base /\ Op(q)' = Op(q)
  BY StepProgress DEF Sound, Progress
<1>2. CASE Writes(q)
  BY <1>1, <1>2, WritesEnd, DoneChecks
<1>3. CASE UNCHANGED dataVars
  <2>1. CASE Take(q)
    BY <1>1, <1>3, <2>1, WentOn, DoneKept, ChecksSame
  <2>2. CASE Victim(q)
    BY <1>1, <2>2, Ended, DoneChecks DEF Victim
  <2>3. CASE Entry(q)
    <3>1. ~Is(q, Changes) /\ ~Is(q, GroupOps) /\ ~Is(q, LinkOps)
      BY <2>3, StepKinds, Families
    <3>2. ImportChecks(q)' /\ EntryChecks(q)' /\ RoomChecks(q)'
      BY <1>1, <1>3, <2>3, ImportChecked, EntryChecked, RoomChecked DEF Checks
    <3>. QED
      BY <1>1, <3>1, <3>2, FamilyChecks DEF Checks
  <2>4. CASE Change(q)
    <3>1. ~Is(q, Entries) /\ ~Is(q, GroupOps) /\ ~Is(q, LinkOps)
      BY <2>4, StepKinds, Families
    <3>2. EditChecks(q)' /\ ChangeChecks(q)' /\ EmptyChecks(q)'
      BY <1>1, <1>3, <2>4, ChangeChecked DEF Checks
    <3>. QED
      BY <1>1, <3>1, <3>2, FamilyChecks DEF Checks
  <2>5. CASE GroupOp(q)
    <3>1. ~Is(q, Entries) /\ ~Is(q, Changes) /\ ~Is(q, LinkOps)
      BY <2>5, StepKinds, Families
    <3>2. SweepChecks(q)'
      BY <1>1, <1>3, <2>5, SweepChecked
    <3>. QED
      BY <1>1, <3>1, <3>2, FamilyChecks DEF Checks
  <2>6. CASE InviteOp(q) \/ Friend(q)
    <3>1. ~Is(q, Entries) /\ ~Is(q, Changes) /\ ~Is(q, GroupOps) /\ ~Is(q, LinkOps)
      BY <2>6, StepKinds, Families DEF Friendly
    <3>. QED
      BY <1>1, <3>1, FamilyChecks DEF Checks
  <2>7. CASE Link(q)
    <3>1. ~Is(q, Entries) /\ ~Is(q, Changes) /\ ~Is(q, GroupOps)
      BY <2>7, StepKinds, Families
    <3>2. MergeChecks(q)'
      BY <1>1, <1>3, <2>7, MergeChecked
    <3>. QED
      BY <1>1, <3>1, <3>2, FamilyChecks DEF Checks
  <2>. QED
    BY <2>1, <2>2, <2>3, <2>4, <2>5, <2>6, <2>7 DEF Step
<1>. QED
  BY <1>1, <1>2, <1>3, Quiet

LEMMA ChecksStep ==
    ASSUME Sound, Checked, Rooms, NEW q \in Reqs, Step(q)
    PROVE  Sound' /\ Checked' /\ Rooms'
<1>1. /\ Base /\ Base' /\ RowTypes /\ RowTypes' /\ Creators /\ RowsHold /\ RowsHold'
      /\ Effects(q) /\ Sound' /\ Progress(q)
  BY SoundStep DEF Sound, Base
<1>2. Checks(q) /\ RoomChecks(q) /\ RoomFor /\ Barring(q)
  BY StepBarring DEF Checked, Rooms
<1>3. ASSUME NEW r \in Reqs
      PROVE  Checks(r)' /\ RoomChecks(r)'
  <2>1. CASE r = q
    BY <1>2, <2>1, OwnChecks
  <2>2. CASE r # q
    <3>1. r \in Reqs \ {q} /\ req'[r] = req[r] /\ held'[r] = held[r] /\ Finds(r) /\ Finds(r)'
          /\ Checks(r) /\ RoomChecks(r)
      BY <1>1, <2>2 DEF Progress, Turn, Sound, Checked, Rooms
    <3>2. EntryFinds(r) /\ EntryFinds(r)' /\ ChangeFinds(r)
      BY <3>1 DEF Finds
    <3>3. SweepChecks(r)' /\ EditChecks(r)' /\ ImportChecks(r)'
      BY <1>1, <3>1, <3>2, SweepChecksKept, EditChecksKept, ImportChecksKept DEF Checks
    <3>4. EntryChecks(r)' /\ ChangeChecks(r)'
      BY <1>1, <3>1, <3>2, EntryChecksKept, ChangeChecksKept DEF Checks
    <3>5. EmptyChecks(r)' /\ MergeChecks(r)'
      BY <1>1, <1>2, <3>1, <3>2, EmptyChecksKept, MergeChecksKept DEF Checks
    <3>6. RoomChecks(r)'
      BY <1>1, <3>1, <3>2, RoomChecksKept
    <3>. QED
      BY <3>3, <3>4, <3>5, <3>6 DEF Checks
  <2>. QED
    BY <2>1, <2>2
<1>4. RoomFor'
  BY <1>1, <1>2, RoomStep
<1>. QED
  BY <1>1, <1>3, <1>4 DEF Checked, Rooms

LEMMA ChecksStutter ==
    ASSUME Sound, Checked, Rooms, UNCHANGED vars
    PROVE  Sound' /\ Checked' /\ Rooms'
<1>1. UNCHANGED dataVars /\ \A r \in Reqs : req'[r] = req[r]
  BY DEF vars, dataVars, rowVars, peopleVars
<1>2. ASSUME NEW r \in Reqs
      PROVE  Checks(r)' /\ RoomChecks(r)'
  <2>1. Op(r)' = Op(r) /\ req'[r].at = req[r].at /\ Rest(r) /\ req'[r].found = req[r].found
    BY <1>1 DEF Op, Rest
  <2>2. Done({"redeem"}) => Done({"redeem"})'
    BY DEF vars, Done, Is, Op, Answered
  <2>. QED
    BY <1>1, <2>1, <2>2, ChecksSame DEF Checked, Rooms
<1>3. RoomFor'
  BY DEF vars, Rooms, RoomFor, Within, Active
<1>. QED
  BY <1>2, <1>3, SoundSame DEF Checked, Rooms

LEMMA ChecksInit ==
    ASSUME Init
    PROVE  Sound /\ Checked /\ Rooms
<1>1. ASSUME NEW r \in Reqs
      PROVE  Checks(r) /\ RoomChecks(r)
  <2>1. Stage(r) = "begin" /\ req[r].found = FALSE
    <3>1. req[r] = Fresh(Op(r))
      BY <1>1 DEF Init
    <3>. QED
      BY <3>1 DEF Fresh, Stage
  <2>. QED
    BY <2>1 DEF Checks, SweepChecks, EditChecks, ImportChecks, EntryChecks, ChangeChecks, EmptyChecks, MergeChecks,
       RoomChecks, Merging, Inside, Roomy
<1>2. RoomFor
  BY DEF Init, Consistent, RoomFor, Within
<1>. QED
  BY <1>1, <1>2, SoundInit DEF Checked, Rooms

\* What a request checked before it writes still holds when it writes, and the
\* groups keep their room: the invariant behind the theorems on what requests do.
THEOREM ChecksHold == Spec => [](Sound /\ Checked /\ Rooms)
<1>1. Init => Sound /\ Checked /\ Rooms
  BY ChecksInit
<1>2. Sound /\ Checked /\ Rooms /\ [Next]_vars => (Sound /\ Checked /\ Rooms)'
  <2>1. ASSUME Sound /\ Checked /\ Rooms, NEW q \in Reqs, Step(q) PROVE (Sound /\ Checked /\ Rooms)'
    BY <2>1, ChecksStep
  <2>2. ASSUME Sound /\ Checked /\ Rooms, UNCHANGED vars PROVE (Sound /\ Checked /\ Rooms)'
    BY <2>2, ChecksStutter
  <2>. QED
    BY <2>1, <2>2 DEF Next
<1>. QED
  BY <1>1, <1>2, PTL DEF Spec

\* No live group has more active members than its kind allows: creates, joins,
\* adds, accepts and imports count under the lock of the group, and links, changes
\* and restores add nobody.
THEOREM MembersFit == Spec => []WithinMaxMembers
<1>1. Sound /\ Checked /\ Rooms => WithinMaxMembers
  BY DEF Rooms, RoomFor, Within, WithinMaxMembers
<1>. QED
  BY <1>1, ChecksHold, PTL

\* A ban stays on its row and with its person, through links too, until an unban,
\* a hard delete of the group, or an entry whose look for bans is older than it.
THEOREM BansHold == Spec => BansStand
<1>. DEFINE A == \A id \in RowIds : member[id].status = "banned" =>
                    \/ member'[id].status = "banned" /\ member'[id].person = member[id].person
                    \/ \E r \in Reqs : \/ Commits(r, {"unban", "erase"})
                                       \/ Commits(r, {"join", "add", "accept"})
                                          /\ req[r].seen # member[id].version
<1>1. Sound /\ Checked /\ Rooms /\ [Next]_vars => A \/ UNCHANGED vars
  <2>1. ASSUME Sound, Checked, NEW q \in Reqs, Step(q) PROVE A
    BY <2>1, BansStep DEF Checked
  <2>. QED
    BY <2>1 DEF Next
<1>. QED
  BY <1>1, ChecksHold, PTL DEF Spec, BansStand

\* The departure that takes the last active member of a group deletes it in the
\* same transaction, where its kind says so: afterMembershipChange.
THEOREM EmptiesGo == Spec => EmptyGroupsGo
<1>. DEFINE A == \A g \in Groups :
                    Live(g) /\ Live(g)' /\ DeleteWhenEmpty[KindOf[g]] /\ Active(g) # {} /\ ~Done({"redeem"})
                       /\ ~(\E r \in Reqs : Commits(r, {"redeem"})) => Active(g)' # {}
<1>1. Sound /\ Checked /\ Rooms /\ [Next]_vars => A \/ UNCHANGED vars
  <2>1. ASSUME Sound, Checked, NEW q \in Reqs, Step(q) PROVE A
    BY <2>1, EmptyStep DEF Checked
  <2>. QED
    BY <2>1 DEF Next
<1>. QED
  BY <1>1, ChecksHold, PTL DEF Spec, EmptyGroupsGo

\* The sweeper deletes no group whose members changed after it was listed: it
\* reads the group again under its lock.
THEOREM SweepsIdle == Spec => OnlyIdleSwept
<1>. DEFINE A == \A r \in Reqs : Commits(r, {"sweep"}) => Live(Group(r)) /\ group[Group(r)].idle
<1>1. Sound /\ Checked /\ Rooms /\ [Next]_vars => A \/ UNCHANGED vars
  <2>1. ASSUME Checked PROVE A
    BY <2>1 DEF Checked, Checks, SweepChecks, Commits, At, Stage
  <2>. QED
    BY <2>1
<1>. QED
  BY <1>1, ChecksHold, PTL DEF Spec, OnlyIdleSwept

\* An edit with If-Match is written over the version that its request named: it
\* reads the version of the row that it has locked.
THEOREM EditsMatch == Spec => ConditionalEdits
<1>. DEFINE A == \A r \in Reqs : Commits(r, {"edit_if"}) =>
                    \A id \in req[r].rows : /\ member[id].status # "none"
                                            /\ member[id].version = req[r].seen
<1>1. Sound /\ Checked /\ Rooms /\ [Next]_vars => A \/ UNCHANGED vars
  <2>1. ASSUME Sound, Checked, NEW r \in Reqs, Commits(r, {"edit_if"})
        PROVE  \A id \in req[r].rows : member[id].status # "none" /\ member[id].version = req[r].seen
    <3>1. Is(r, {"edit_if"}) /\ Is(r, Changes) /\ Stage(r) = "commit"
      BY <2>1 DEF Commits, At, Stage, Is, Changes, Edits
    <3>2. \A id \in req[r].rows : Exists(id)
      BY <2>1, <3>1 DEF Sound, Finds, ChangeFinds, Found
    <3>3. \A id \in req[r].rows : member[id].version = req[r].seen
      BY <2>1, <3>1 DEF Checked, Checks, EditChecks
    <3>. QED
      BY <3>2, <3>3 DEF Exists
  <2>. QED
    BY <2>1
<1>. QED
  BY <1>1, ChecksHold, PTL DEF Spec, ConditionalEdits

-----------------------------------------------------------------------------
(* What is offered and answered: invitations, requests, friends, codes     *)

\* A code that is used or deleted is not offered again.
Dead(c) == code[c] \in {"used", "deleted"}

\* Whatever has the id of a row that was there is that row, or what an accept
\* made of it; the request that created it is done.
Seen(row) ==
    /\ \A q \in Reqs : row.id[1] = q => Stage(q) = "done"
    /\ \A now \in WithId(row.id) :
          /\ now.from = row.from /\ now.to = row.to
          /\ now.type = row.type \/ (row.type = "request" /\ now.type = "friend")

Known == \A row \in relation : Seen(row)

\* What is offered is still open while its lock is held, and closed for good by an answer.
InviteOffer(r) ==
    /\ Is(r, {"accept"}) /\ Stage(r) \in {"row", "share", "commit"} => invite[Op(r).item] = "open"
    /\ Is(r, {"accept", "decline"}) /\ Answered(r, "ok") => invite[Op(r).item] # "open"

CodeOffer(r) ==
    /\ Is(r, {"redeem"}) /\ Stage(r) \in {"counts", "people", "commit"} => code[Op(r).item] = "live"
    /\ Is(r, {"redeem"}) /\ Answered(r, "ok") => Dead(Op(r).item)

\* The request that an answer is to.
Asked(r, row) ==
    /\ row.id = Op(r).item /\ row.type = "request" /\ Seen(row)
    /\ row.from = req[r].who[1] /\ row.to = req[r].who[2]

RequestOffer(r) ==
    Is(r, Answerings) =>
    /\ Stage(r) \in {"request", "mirror", "people", "commit"} => \E row \in Relations : Asked(r, row)
    /\ Stage(r) \in {"mirror", "people", "commit"} => Pending(Op(r).item) # {}
    /\ Answered(r, "ok") => Pending(Op(r).item) = {} /\ \E row \in Relations : row.id = Op(r).item /\ Seen(row)

\* Under the keys it holds, the friend rows that a request is to write are not there.
BondFree(r) ==
    LET x == req[r].who[1]
        y == req[r].who[2]
    IN
    Is(r, {"befriend", "accept_friend"}) =>
    /\ Stage(r) \in {"mirror", "people", "commit"} => Related(x, y, {"friend"}) = {}
    /\ Stage(r) \in {"people", "commit"} => Related(y, x, {"friend"}) = {}

Mirrors(a, b) == a.type = "friend" /\ b.type = "friend" /\ a.from = b.to /\ a.to = b.from

Listed(r, now) == \E row \in req[r].rows : row.id = now.id

\* What an ending is to delete: both rows of a friendship, or none; but a block may
\* have seen a request that was accepted since.
EndingSees(r) ==
    Is(r, Endings) /\ Stage(r) \in {"deleted", "unblock", "commit"} =>
    /\ \A row \in req[r].rows : /\ Seen(row) /\ (row.type = "blocked" <=> Is(r, {"unblock"}))
                                /\ Is(r, {"unfriend"}) => row.type = "friend"
    /\ \/ Is(r, {"block"}) /\ Done({"accept_friend"})
       \/ \A a, b \in relation : Mirrors(a, b) => (Listed(r, a) <=> Listed(r, b))

Offered(r) == InviteOffer(r) /\ CodeOffer(r) /\ RequestOffer(r) /\ BondFree(r) /\ EndingSees(r)

Offers == Known /\ OfferedOnce /\ FriendsMutual /\ \A r \in Reqs : Offered(r)

\* An id that the redeem of r names has been unlinked, the other by an unlink
\* that does not delete its code.
Left(r) == \E q \in Reqs : Is(q, {"unlink"}) /\ Answered(q, "ok") /\ Op(q).users = Op(r).users

LeftLate(r) ==
    \E q \in Reqs : /\ Is(q, {"unlink"}) /\ Answered(q, "ok")
                    /\ Op(q).users[1] = Op(r).item[1] /\ Op(r).item \notin req[q].rows

Revoked(r) == Stage(r) = "code" /\ Dead(Op(r).item)

Absorbed(r) == \E p \in Members(r) : person[p] = "gone"

\* The two ids of a redeem are with the people it found.
JoinFinds(r) ==
    LET mine == personOf[Op(r).users[1]]
        other == personOf[Op(r).item[1]]
    IN
    Is(r, {"redeem"}) =>
    /\ Stage(r) \in {"issuer", "code", "counts", "people", "commit"} =>
          mine \in Members(r) \/ Left(r) \/ Absorbed(r)
    /\ Stage(r) \in {"code", "counts", "people", "commit"} =>
          other \in Members(r) \/ LeftLate(r) \/ Revoked(r) \/ Absorbed(r)
    /\ Stage(r) \in {"code", "commit"} /\ req[r].who[1] = req[r].who[2] =>
          mine = other \/ Left(r) \/ LeftLate(r) \/ Revoked(r)

JoinAll == \A r \in Reqs : JoinFinds(r)

-----------------------------------------------------------------------------
(* What a step may do to what is offered                                   *)

InviteEffect(q, i) ==
    invite'[i] = invite[i] \/ (Owns(q, <<"invite", i>>) /\ invite'[i] # "open")

CodeEffect(q, c) ==
    \/ code'[c] = code[c]
    \/ code[c] = "none" /\ code'[c] = "live"
    \/ Owns(q, <<"code", c>>) /\ Dead(c)'

Promoted(q, now) ==
    /\ Is(q, {"accept_friend"}) /\ req'[q].answer = "ok" /\ now \notin relation
    /\ \E old \in relation : old.type = "request" /\ now = [old EXCEPT !.type = "friend"]

Added(q, now) == now.id[1] = q /\ now \notin relation

BondEffect(q) ==
    /\ \A now \in relation' :
          \/ now \in relation
          \/ /\ Promoted(q, now) \/ Added(q, now)
             /\ now.type # "blocked" => Owns(q, Bond(now.from, now.to))
             /\ WithId(now.id)' = {now}
             /\ \A other \in relation : ~Mirrors(now, other)
    /\ \A old \in relation : old \in relation' \/ old.type = "blocked" \/ Owns(q, Bond(old.from, old.to))

LEMMA InviteEffects ==
    ASSUME Sound, NEW q \in Reqs, Step(q), NEW i \in Invites
    PROVE  InviteEffect(q, i)
<1>1. Base /\ RowTypes /\ Typed(q) /\ Staged(q) /\ Finds(q)
  BY DEF Sound, Base
<1>2. CASE CommitEntry(q)
  <2>1. At(q, "commit") /\ Is(q, Entries) /\ Stage(q) = "commit"
    BY <1>2 DEF CommitEntry, At, Stage
  <2>2. CASE Is(q, {"accept"})
    <3>1. <<"invite", Op(q).item>> \in held[q]
      BY <1>1, <2>1, <2>2 DEF Staged, EntryStaged
    <3>2. Owns(q, <<"invite", Op(q).item>>)
      BY <1>1, <2>1, <3>1, CommitOwns DEF Locks
    <3>3. invite' = [invite EXCEPT ![Op(q).item] = "used"]
      BY <1>2, <2>2 DEF CommitEntry
    <3>4. invite'[i] = IF i = Op(q).item THEN "used" ELSE invite[i]
      BY <1>1, <3>3 DEF RowTypes
    <3>. QED
      BY <3>2, <3>4 DEF InviteEffect
  <2>3. CASE ~Is(q, {"accept"})
    BY <1>2, <2>3 DEF CommitEntry, InviteEffect
  <2>. QED
    BY <2>2, <2>3
<1>3. CASE CommitGroup(q)
  <2>1. At(q, "commit") /\ Is(q, GroupOps) /\ Stage(q) = "commit"
    BY <1>3 DEF CommitGroup, At, Stage
  <2>2. CASE Is(q, {"erase"}) /\ InviteTo[i] = Group(q)
    <3>1. <<"invite", i>> \in Locks(q)
      BY <1>1, <2>1, <2>2 DEF Finds, GroupFinds
    <3>2. Owns(q, <<"invite", i>>)
      BY <1>1, <2>1, <3>1, CommitOwns
    <3>3. invite'[i] = "deleted"
      BY <1>3, <2>2 DEF CommitGroup
    <3>. QED
      BY <3>2, <3>3 DEF InviteEffect
  <2>3. CASE ~(Is(q, {"erase"}) /\ InviteTo[i] = Group(q))
    BY <1>3, <2>3 DEF CommitGroup, InviteEffect
  <2>. QED
    BY <2>2, <2>3
<1>4. CASE WriteInvite(q)
  <2>1. At(q, "invite") /\ Is(q, InviteOps) /\ Stage(q) = "invite"
    BY <1>4 DEF WriteInvite, At, Stage
  <2>2. <<"invite", Op(q).item>> \in Locks(q)
    BY <1>1, <2>1 DEF Staged, InviteStaged
  <2>3. Owns(q, <<"invite", Op(q).item>>)
    BY <1>1, <2>1, <2>2, CommitOwns
  <2>4. \/ invite' = invite
        \/ \E state \in {"deleted", "declined"} : invite' = [invite EXCEPT ![Op(q).item] = state]
    BY <1>4 DEF WriteInvite
  <2>5. invite'[i] = invite[i] \/ (i = Op(q).item /\ invite'[i] \in {"deleted", "declined"})
    BY <1>1, <2>4 DEF RowTypes
  <2>. QED
    BY <2>3, <2>5 DEF InviteEffect
<1>5. CASE UNCHANGED invite
  BY <1>5 DEF InviteEffect
<1>6. UNCHANGED dataVars \/ Writes(q)
  BY Quiet
<1>7. UNCHANGED dataVars \/ CommitChange(q) \/ CommitSend(q) \/ CommitAnswer(q) \/ CommitEnding(q)
          \/ CommitIssue(q) \/ CommitRedeem(q) \/ CommitUnlink(q) => UNCHANGED invite
  BY DEF dataVars, rowVars, CommitChange, CommitSend, CommitAnswer, CommitEnding, CommitIssue, CommitRedeem,
     CommitUnlink
<1>. QED
  BY <1>2, <1>3, <1>4, <1>5, <1>6, <1>7 DEF Writes

LEMMA CodeEffects ==
    ASSUME Sound, NEW q \in Reqs, Step(q), NEW c \in Codes
    PROVE  CodeEffect(q, c)
<1>1. Base /\ RowTypes /\ Typed(q) /\ Staged(q) /\ LinkStaged(q)
  BY DEF Sound, Base, Staged
<1>2. ASSUME NEW l \in Locks(q), NEW stage, At(q, stage)
      PROVE  Owns(q, l)
  BY <1>1, <1>2, CommitOwns
<1>3. CASE CommitIssue(q)
  <2>1. At(q, "code") /\ Is(q, {"issue"}) /\ Is(q, LinkOps) /\ Stage(q) = "code"
    BY <1>3 DEF CommitIssue, At, Stage, Is, LinkOps
  <2>2. CodeLocks(req[q].rows) \subseteq Locks(q)
    BY <1>1, <2>1 DEF LinkStaged
  <2>3. PICK next \in Codes : code[next] = "none" /\ code' = [Without(req[q].rows) EXCEPT ![next] = "live"]
    BY <1>3 DEF CommitIssue
  <2>4. c \in req[q].rows => Owns(q, <<"code", c>>)
    BY <1>2, <2>1, <2>2 DEF CodeLocks
  <2>5. code'[c] = IF c = next THEN "live" ELSE IF c \in req[q].rows THEN "deleted" ELSE code[c]
    BY <2>3 DEF Without
  <2>. QED
    BY <2>3, <2>4, <2>5 DEF CodeEffect, Dead
<1>4. CASE CommitRedeem(q)
  <2>1. At(q, "commit") /\ Is(q, {"redeem"}) /\ Is(q, LinkOps) /\ Stage(q) = "commit"
    BY <1>4 DEF CommitRedeem, At, Stage, Is, LinkOps
  <2>2. <<"code", Op(q).item>> \in Locks(q)
    BY <1>1, <2>1 DEF LinkStaged, Locks
  <2>3. Owns(q, <<"code", Op(q).item>>)
    BY <1>2, <2>1, <2>2
  <2>4. code'[c] = IF c = Op(q).item THEN "used" ELSE code[c]
    BY <1>1, <1>4 DEF CommitRedeem, RowTypes
  <2>. QED
    BY <2>3, <2>4 DEF CodeEffect, Dead
<1>5. CASE CommitUnlink(q)
  <2>1. At(q, "commit") /\ Is(q, {"unlink"}) /\ Is(q, LinkOps) /\ Stage(q) = "commit"
    BY <1>5 DEF CommitUnlink, At, Stage, Is, LinkOps
  <2>2. CodeLocks(req[q].rows) \subseteq Locks(q)
    BY <1>1, <2>1 DEF LinkStaged
  <2>3. c \in req[q].rows => Owns(q, <<"code", c>>)
    BY <1>2, <2>1, <2>2 DEF CodeLocks
  <2>4. code'[c] = IF c \in req[q].rows THEN "deleted" ELSE code[c]
    BY <1>5 DEF CommitUnlink, Without
  <2>. QED
    BY <2>3, <2>4 DEF CodeEffect, Dead
<1>6. CASE UNCHANGED code
  BY <1>6 DEF CodeEffect
<1>7. UNCHANGED dataVars \/ Writes(q)
  BY Quiet
<1>. QED
  BY <1>3, <1>4, <1>5, <1>6, <1>7 DEF Writes, dataVars

LEMMA SameId ==
    ASSUME RowTypes, Known, NEW a \in relation, NEW b \in relation, a.id = b.id
    PROVE  a = b
<1>1. a \in WithId(b.id) /\ b \in WithId(a.id) /\ Seen(a) /\ Seen(b)
  BY DEF WithId, Known
<1>2. a.from = b.from /\ a.to = b.to
  BY <1>1 DEF Seen
<1>3. a.type = b.type
  <2>1. /\ a.type = b.type \/ (b.type = "request" /\ a.type = "friend")
        /\ b.type = a.type \/ (a.type = "request" /\ b.type = "friend")
    BY <1>1 DEF Seen
  <2>. QED
    BY <2>1
<1>4. a \in Relations /\ b \in Relations
  BY DEF RowTypes, Relations
<1>. QED
  BY <1>2, <1>3, <1>4 DEF Relations

\* No row has the id of a request that has not committed.
LEMMA NewId ==
    ASSUME Known, NEW q \in Reqs, Stage(q) # "done", NEW row \in relation
    PROVE  row.id[1] # q
  BY DEF Known, Seen

LEMMA RelationIs ==
    ASSUME NEW id, NEW x, NEW y, NEW type
    PROVE  /\ Relation(id, x, y, type).id = id /\ Relation(id, x, y, type).type = type
           /\ Relation(id, x, y, type).from = x /\ Relation(id, x, y, type).to = y
  BY DEF Relation

LEMMA SendBonds ==
    ASSUME Sound, Known, NEW q \in Reqs, CommitSend(q), BondFree(q)
    PROVE  /\ BondEffect(q)
           /\ \A old \in relation : old \in relation'
           /\ \A now \in relation' \ relation : now.type = "friend" => Related(now.to, now.from, {"friend"})' # {}
<1>0. PICK x, y : x = req[q].who[1] /\ y = req[q].who[2]
  OBVIOUS
<1>1. At(q, "commit") /\ Is(q, Sends) /\ Is(q, Friendly) /\ Stage(q) = "commit" /\ Base /\ FriendStaged(q)
  BY DEF CommitSend, At, Stage, Is, Friendly, Sound, Base, Staged
<1>2. PICK sent, mirrored : /\ sent = Relation(<<q, 1>>, x, y, SentType(q))
                            /\ mirrored = Relation(<<q, 2>>, y, x, "friend")
  OBVIOUS
<1>3. relation' = relation \cup (IF Is(q, {"send"}) THEN {sent} ELSE {sent, mirrored})
  BY <1>0, <1>2 DEF CommitSend
<1>4. /\ sent.id = <<q, 1>> /\ mirrored.id = <<q, 2>> /\ sent.type \in {"request", "friend"}
      /\ sent.type = "friend" => ~Is(q, {"send"})
      /\ sent.from = x /\ sent.to = y /\ mirrored.from = y /\ mirrored.to = x /\ mirrored.type = "friend"
  BY <1>2, RelationIs DEF SentType
<1>5. \A row \in relation : row.id[1] # q
  BY <1>1, NewId
<1>6. sent \notin relation /\ mirrored \notin relation /\ sent.id # mirrored.id
      /\ sent.id[1] = q /\ mirrored.id[1] = q
  BY <1>4, <1>5
<1>7. Owns(q, Bond(x, y)) /\ (~Is(q, {"send"}) => Owns(q, Bond(y, x)))
  <2>1. Bond(x, y) \in held[q] /\ (Is(q, {"befriend", "accept_friend"}) => Bond(y, x) \in held[q])
    BY <1>0, <1>1 DEF FriendStaged, Friendly
  <2>2. ~Is(q, {"send"}) => Is(q, {"befriend", "accept_friend"})
    BY <1>1 DEF Is, Sends
  <2>. QED
    BY <1>1, <2>1, <2>2, CommitOwns DEF Locks
<1>8. ~Is(q, {"send"}) => Related(x, y, {"friend"}) = {} /\ Related(y, x, {"friend"}) = {}
  <2>1. ~Is(q, {"send"}) => Is(q, {"befriend", "accept_friend"})
    BY <1>1 DEF Is, Sends
  <2>. QED
    BY <1>0, <1>1, <2>1 DEF BondFree
<1>9. ASSUME NEW now \in relation', now \notin relation
      PROVE  /\ Added(q, now) /\ Owns(q, Bond(now.from, now.to)) /\ WithId(now.id)' = {now}
             /\ \A other \in relation : ~Mirrors(now, other)
  <2>1. now = sent \/ (now = mirrored /\ ~Is(q, {"send"}))
    BY <1>3, <1>9
  <2>2. Added(q, now) /\ Owns(q, Bond(now.from, now.to))
    BY <1>4, <1>6, <1>7, <2>1 DEF Added
  <2>3. ASSUME NEW other \in relation', other.id = now.id
        PROVE  other = now
    <3>1. other \notin relation
      BY <1>5, <1>6, <2>1, <2>3
    <3>2. other = sent \/ other = mirrored
      BY <1>3, <3>1
    <3>. QED
      BY <1>6, <2>1, <2>3, <3>2
  <2>4. WithId(now.id)' = {now}
    BY <2>3 DEF WithId
  <2>5. ASSUME NEW other \in relation, Mirrors(now, other)
        PROVE  FALSE
    <3>1. ~Is(q, {"send"})
      BY <1>4, <2>1, <2>5 DEF Mirrors
    <3>2. other \in Related(x, y, {"friend"}) \/ other \in Related(y, x, {"friend"})
      BY <1>4, <2>1, <2>5 DEF Mirrors, Related
    <3>. QED
      BY <1>8, <3>1, <3>2
  <2>. QED
    BY <2>2, <2>4, <2>5
<1>10. \A old \in relation : old \in relation'
  BY <1>3
<1>11. ASSUME NEW now \in relation' \ relation, now.type = "friend"
       PROVE  Related(now.to, now.from, {"friend"})' # {}
  <2>1. ~Is(q, {"send"})
    BY <1>2, <1>3, <1>11, RelationIs DEF SentType
  <2>2. sent.type = "friend" /\ relation' = relation \cup {sent, mirrored} /\ now \in {sent, mirrored}
    BY <1>2, <1>3, <1>11, <2>1, RelationIs DEF SentType
  <2>. QED
    BY <1>4, <2>2 DEF Related
<1>. QED
  BY <1>9, <1>10, <1>11 DEF BondEffect

LEMMA AnswerBonds ==
    ASSUME Sound, Known, NEW q \in Reqs, CommitAnswer(q), BondFree(q), RequestOffer(q)
    PROVE  /\ BondEffect(q)
           /\ \A old \in relation \ relation' : old.type = "request"
           /\ \A now \in relation' \ relation : now.type = "friend" => Related(now.to, now.from, {"friend"})' # {}
<1>0. PICK x, y : x = req[q].who[1] /\ y = req[q].who[2]
  OBVIOUS
<1>1. At(q, "commit") /\ Is(q, Answerings) /\ Is(q, Friendly) /\ Stage(q) = "commit" /\ Base /\ FriendStaged(q)
  BY DEF CommitAnswer, At, Stage, Is, Friendly, Sound, Base, Staged
<1>2. PICK old \in relation : old.id = Op(q).item /\ old.type = "request"
  BY <1>1 DEF RequestOffer, Pending, WithId
<1>3. WithId(Op(q).item) = {old}
  BY <1>1, <1>2, SameId DEF WithId, Base
<1>4. old.from = x /\ old.to = y
  BY <1>0, <1>1, <1>2, <1>3 DEF RequestOffer, Asked, Seen
<1>5. PICK friend, mirrored : /\ friend = [old EXCEPT !.type = "friend"]
                              /\ mirrored = Relation(<<q, 2>>, y, x, "friend")
  OBVIOUS
<1>6. relation' = (relation \ {old}) \cup (IF Is(q, {"withdraw"}) THEN {} ELSE {friend, mirrored})
  BY <1>0, <1>3, <1>5 DEF CommitAnswer
<1>7. /\ friend.id = old.id /\ friend.type = "friend" /\ friend.from = x /\ friend.to = y
      /\ mirrored.id = <<q, 2>> /\ mirrored.type = "friend" /\ mirrored.from = y /\ mirrored.to = x
  <2>1. old \in Relations
    BY <1>1 DEF Base, RowTypes, Relations
  <2>. QED
    BY <1>4, <1>5, <2>1, RelationIs DEF Relations
<1>8. \A row \in relation : row.id[1] # q
  BY <1>1, NewId
<1>9. /\ mirrored \notin relation /\ mirrored.id # friend.id /\ mirrored.id[1] = q
      /\ friend \notin relation
  <2>1. friend \in relation => friend = old
    BY <1>1, <1>7, SameId DEF Base
  <2>. QED
    BY <1>2, <1>7, <1>8, <2>1
<1>10. Owns(q, Bond(x, y)) /\ (~Is(q, {"withdraw"}) => Owns(q, Bond(y, x)))
  <2>1. Bond(x, y) \in held[q] /\ (Is(q, {"befriend", "accept_friend"}) => Bond(y, x) \in held[q])
    BY <1>0, <1>1 DEF FriendStaged, Friendly
  <2>2. ~Is(q, {"withdraw"}) => Is(q, {"befriend", "accept_friend"})
    BY <1>1 DEF Is, Answerings
  <2>. QED
    BY <1>1, <2>1, <2>2, CommitOwns DEF Locks
<1>11. ~Is(q, {"withdraw"}) => /\ Is(q, {"accept_friend"})
                               /\ Related(x, y, {"friend"}) = {} /\ Related(y, x, {"friend"}) = {}
  <2>1. ~Is(q, {"withdraw"}) => Is(q, {"befriend", "accept_friend"}) /\ Is(q, {"accept_friend"})
    BY <1>1 DEF Is, Answerings
  <2>. QED
    BY <1>0, <1>1, <2>1 DEF BondFree
<1>12. req'[q].answer = "ok"
  BY <1>1, Ended DEF CommitAnswer
<1>13. ASSUME NEW now \in relation', now \notin relation
       PROVE  /\ Promoted(q, now) \/ Added(q, now)
              /\ Owns(q, Bond(now.from, now.to)) /\ WithId(now.id)' = {now}
              /\ \A other \in relation : ~Mirrors(now, other)
  <2>1. ~Is(q, {"withdraw"}) /\ now \in {friend, mirrored}
    BY <1>6, <1>13
  <2>2. Promoted(q, now) \/ Added(q, now)
    BY <1>2, <1>5, <1>9, <1>11, <1>12, <2>1 DEF Promoted, Added
  <2>3. Owns(q, Bond(now.from, now.to))
    BY <1>7, <1>10, <2>1
  <2>4. ASSUME NEW other \in relation', other.id = now.id
        PROVE  other = now
    <3>1. CASE other \in relation
      <4>1. other # old
        BY <1>2, <1>6, <1>7, <1>9, <3>1
      <4>2. other.id # old.id
        BY <1>1, <3>1, <4>1, SameId DEF Base
      <4>. QED
        BY <1>7, <1>8, <1>9, <2>1, <2>4, <3>1, <4>2
    <3>2. CASE other \notin relation
      BY <1>6, <1>9, <2>1, <2>4, <3>2
    <3>. QED
      BY <3>1, <3>2
  <2>5. WithId(now.id)' = {now}
    BY <2>4 DEF WithId
  <2>6. ASSUME NEW other \in relation, Mirrors(now, other)
        PROVE  FALSE
    <3>1. other \in Related(x, y, {"friend"}) \/ other \in Related(y, x, {"friend"})
      BY <1>7, <2>1, <2>6 DEF Mirrors, Related
    <3>. QED
      BY <1>11, <2>1, <3>1
  <2>. QED
    BY <2>2, <2>3, <2>5, <2>6
<1>14. \A row \in relation \ relation' : row = old
  BY <1>6
<1>15. \A row \in relation : row \in relation' \/ Owns(q, Bond(row.from, row.to))
  BY <1>4, <1>10, <1>14
<1>16. ASSUME NEW now \in relation' \ relation
       PROVE  Related(now.to, now.from, {"friend"})' # {}
  <2>1. now \in {friend, mirrored} /\ {friend, mirrored} \subseteq relation'
    BY <1>6, <1>16
  <2>. QED
    BY <1>7, <2>1 DEF Related
<1>. QED
  BY <1>2, <1>13, <1>14, <1>15, <1>16 DEF BondEffect

LEMMA EndingBonds ==
    ASSUME Sound, Known, NEW q \in Reqs, CommitEnding(q), EndingSees(q)
    PROVE  BondEffect(q)
<1>0. PICK x, y : x = req[q].who[1] /\ y = req[q].who[2]
  OBVIOUS
<1>1. At(q, "commit") /\ Is(q, Endings) /\ Is(q, Friendly) /\ Stage(q) = "commit" /\ Base /\ FriendStaged(q)
  BY DEF CommitEnding, At, Stage, Is, Friendly, Sound, Base, Staged
<1>2. PICK blocked : blocked = Relation(<<q, 1>>, x, y, "blocked")
  OBVIOUS
<1>3. relation' = (relation \ Remaining(q)) \cup (IF Is(q, {"block"}) THEN {blocked} ELSE {})
  BY <1>0, <1>2 DEF CommitEnding
<1>4. blocked.id = <<q, 1>> /\ blocked.type = "blocked" /\ blocked.id[1] = q
  BY <1>2, RelationIs
<1>5. \A row \in relation : row.id[1] # q
  BY <1>1, NewId
<1>6. ASSUME NEW now \in relation', now \notin relation
      PROVE  /\ Added(q, now) /\ now.type = "blocked" /\ WithId(now.id)' = {now}
             /\ \A other \in relation : ~Mirrors(now, other)
  <2>1. now = blocked
    BY <1>3, <1>6
  <2>2. \A other \in relation' : other.id = now.id => other = now
    BY <1>3, <1>4, <1>5, <2>1
  <2>. QED
    BY <1>4, <1>6, <2>1, <2>2 DEF Added, WithId, Mirrors
<1>7. ASSUME NEW old \in relation, old \notin relation', old.type # "blocked"
      PROVE  Owns(q, Bond(old.from, old.to))
  <2>1. old \in Remaining(q)
    BY <1>3, <1>7
  <2>2. PICK row \in req[q].rows : old \in WithId(row.id)
    BY <2>1 DEF Remaining
  <2>3. Seen(row) /\ (row.type = "blocked" <=> Is(q, {"unblock"}))
    BY <1>1 DEF EndingSees
  <2>4. row.from = old.from /\ row.to = old.to /\ row.type # "blocked"
    BY <1>7, <2>2, <2>3 DEF Seen
  <2>5. Is(q, {"unfriend", "block"})
    BY <1>1, <2>3, <2>4 DEF Is, Endings
  <2>6. Bond(old.from, old.to) \in held[q]
    BY <1>1, <2>4, <2>5 DEF FriendStaged, Friendly, Bonds
  <2>. QED
    BY <1>1, <2>6, CommitOwns DEF Locks
<1>. QED
  BY <1>6, <1>7 DEF BondEffect

LEMMA BondEffects ==
    ASSUME Sound, Offers, NEW q \in Reqs, Step(q)
    PROVE  BondEffect(q)
<1>1. Known /\ BondFree(q) /\ RequestOffer(q) /\ EndingSees(q)
  BY DEF Offers, Offered
<1>2. CASE UNCHANGED relation
  BY <1>2 DEF BondEffect
<1>3. UNCHANGED relation \/ CommitSend(q) \/ CommitAnswer(q) \/ CommitEnding(q)
  BY Quiet DEF Writes, dataVars, CommitIssue, CommitRedeem, CommitUnlink
<1>. QED
  BY <1>1, <1>2, <1>3, SendBonds, AnswerBonds, EndingBonds

-----------------------------------------------------------------------------
(* What others leave of what is offered                                    *)

\* What a promotion makes of a request.
LEMMA PromotedIs ==
    ASSUME RowTypes, NEW q, NEW now, Promoted(q, now)
    PROVE  \E old \in relation : /\ old.type = "request" /\ now.type = "friend" /\ now.id = old.id
                                 /\ now.from = old.from /\ now.to = old.to
<1>1. PICK old \in relation : old.type = "request" /\ now = [old EXCEPT !.type = "friend"]
  BY DEF Promoted
<1>2. old \in Relations
  BY DEF RowTypes, Relations
<1>. QED
  BY <1>1, <1>2 DEF Relations

LEMMA StageKept ==
    ASSUME Base, NEW q \in Reqs, Step(q), NEW r \in Reqs, Stage(r) = "done"
    PROVE  Stage(r)' = "done" /\ r # q
<1>1. r # q
  BY Acting DEF Stage
<1>2. req'[r] = req[r]
  BY <1>1, StepProgress DEF Base, Progress, Turn
<1>. QED
  BY <1>1, <1>2 DEF Stage

LEMMA SeenKept ==
    ASSUME Base, NEW q \in Reqs, Step(q), BondEffect(q), NEW row, Seen(row)
    PROVE  Seen(row)'
<1>1. ASSUME NEW p \in Reqs, row.id[1] = p
      PROVE  Stage(p)' = "done" /\ p # q
  BY <1>1, StageKept DEF Seen
<1>2. ASSUME NEW now \in relation', now.id = row.id
      PROVE  /\ now.from = row.from /\ now.to = row.to
             /\ now.type = row.type \/ (row.type = "request" /\ now.type = "friend")
  <2>1. now \in relation \/ Promoted(q, now) \/ Added(q, now)
    BY DEF BondEffect
  <2>2. CASE now \in relation
    BY <1>2, <2>2 DEF Seen, WithId
  <2>3. CASE Promoted(q, now)
    <3>1. PICK old \in relation : /\ old.type = "request" /\ now.type = "friend" /\ now.id = old.id
                                  /\ now.from = old.from /\ now.to = old.to
      BY <2>3, PromotedIs DEF Base
    <3>2. /\ old.from = row.from /\ old.to = row.to
          /\ old.type = row.type \/ (row.type = "request" /\ old.type = "friend")
      BY <1>2, <3>1 DEF Seen, WithId
    <3>. QED
      BY <3>1, <3>2
  <2>4. CASE Added(q, now)
    BY <1>1, <1>2, <2>4 DEF Added
  <2>. QED
    BY <2>1, <2>2, <2>3, <2>4
<1>. QED
  BY <1>1, <1>2 DEF Seen, WithId

LEMMA KnownKept ==
    ASSUME Sound, Known, NEW q \in Reqs, Step(q), BondEffect(q), Writes(q) \/ UNCHANGED relation
    PROVE  Known'
<1>1. Base
  BY DEF Sound
<1>2. ASSUME NEW now \in relation'
      PROVE  Seen(now)'
  <2>1. CASE now \in relation
    BY <1>1, <2>1, SeenKept DEF Known
  <2>2. CASE now \notin relation
    <3>1. WithId(now.id)' = {now} /\ (Promoted(q, now) \/ Added(q, now))
      BY <2>2 DEF BondEffect
    <3>2. Stage(q)' = "done"
      BY <1>1, <2>2, WritesEnd DEF Stage
    <3>3. ASSUME NEW p \in Reqs, now.id[1] = p
          PROVE  Stage(p)' = "done"
      <4>1. CASE Added(q, now)
        BY <3>2, <3>3, <4>1 DEF Added
      <4>2. CASE Promoted(q, now)
        <5>1. PICK old \in relation : now.id = old.id
          BY <1>1, <4>2, PromotedIs DEF Base
        <5>2. Stage(p) = "done"
          BY <3>3, <5>1 DEF Known, Seen
        <5>. QED
          BY <1>1, <5>2, StageKept
      <4>. QED
        BY <3>1, <4>1, <4>2
    <3>. QED
      BY <3>1, <3>3 DEF Seen
  <2>. QED
    BY <2>1, <2>2
<1>. QED
  BY <1>2 DEF Known

LEMMA InviteOfferKept ==
    ASSUME Base, NEW q \in Reqs, NEW r \in Reqs \ {q}, \A i \in Invites : InviteEffect(q, i),
           req'[r] = req[r], held'[r] = held[r], InviteOffer(r)
    PROVE  InviteOffer(r)'
<1>0. PICK i : i = Op(r).item
  OBVIOUS
<1>1. /\ Stage(r)' = Stage(r) /\ Op(r)' = Op(r) /\ (\A kinds : Is(r, kinds)' <=> Is(r, kinds))
      /\ \A answer : Answered(r, answer)' <=> Answered(r, answer)
  BY SameRequest DEF Answered
<1>2. Typed(r) /\ EntryStaged(r)
  BY DEF Base, Staged
<1>3. CASE ~Is(r, {"accept", "decline"})
  <2>1. ~Is(r, {"accept"})
    BY <1>3 DEF Is
  <2>. QED
    BY <1>1, <1>3, <2>1 DEF InviteOffer
<1>4. CASE Is(r, {"accept", "decline"})
  <2>1. i \in Invites
    <3>1. Is(r, {"accept"} \cup InviteOps)
      BY <1>4 DEF Is, InviteOps
    <3>. QED
      BY <1>0, <1>2, <3>1, Names
  <2>2. InviteEffect(q, i)
    BY <2>1
  <2>3. Is(r, {"accept"}) /\ Stage(r) \in {"row", "share", "commit"} => invite'[i] = "open"
    <3>1. SUFFICES ASSUME Is(r, {"accept"}), Stage(r) \in {"row", "share", "commit"} PROVE invite'[i] = "open"
      OBVIOUS
    <3>2. Is(r, Entries)
      BY <3>1 DEF Is, Entries
    <3>3. <<"invite", i>> \in held[r]
      BY <1>0, <1>2, <3>1, <3>2 DEF EntryStaged
    <3>4. ~Owns(q, <<"invite", i>>)
      BY <3>3, NotOwned
    <3>. QED
      BY <1>0, <2>2, <3>1, <3>4 DEF InviteEffect, InviteOffer
  <2>4. Answered(r, "ok") => invite'[i] # "open"
    BY <1>0, <1>4, <2>2 DEF InviteEffect, InviteOffer
  <2>. QED
    BY <1>0, <1>1, <2>3, <2>4 DEF InviteOffer
<1>. QED
  BY <1>3, <1>4

LEMMA CodeOfferKept ==
    ASSUME Base, NEW q \in Reqs, NEW r \in Reqs \ {q}, \A c \in Codes : CodeEffect(q, c),
           req'[r] = req[r], held'[r] = held[r], CodeOffer(r)
    PROVE  CodeOffer(r)'
<1>0. PICK c : c = Op(r).item
  OBVIOUS
<1>1. /\ Stage(r)' = Stage(r) /\ Op(r)' = Op(r) /\ (\A kinds : Is(r, kinds)' <=> Is(r, kinds))
      /\ \A answer : Answered(r, answer)' <=> Answered(r, answer)
  BY SameRequest DEF Answered
<1>2. Typed(r) /\ LinkStaged(r)
  BY DEF Base, Staged
<1>3. CASE ~Is(r, {"redeem"})
  BY <1>1, <1>3 DEF CodeOffer
<1>4. CASE Is(r, {"redeem"})
  <2>1. c \in Codes /\ Is(r, LinkOps)
    BY <1>0, <1>2, <1>4, Names DEF Is, LinkOps
  <2>2. CodeEffect(q, c)
    BY <2>1
  <2>3. Stage(r) \in {"counts", "people", "commit"} => code'[c] = "live"
    <3>1. SUFFICES ASSUME Stage(r) \in {"counts", "people", "commit"} PROVE code'[c] = "live"
      OBVIOUS
    <3>2. <<"code", c>> \in held[r]
      BY <1>0, <1>2, <1>4, <2>1, <3>1 DEF LinkStaged
    <3>3. ~Owns(q, <<"code", c>>)
      BY <3>2, NotOwned
    <3>. QED
      BY <1>0, <1>4, <2>2, <3>1, <3>3 DEF CodeEffect, CodeOffer
  <2>4. Answered(r, "ok") => code'[c] \in {"used", "deleted"}
    BY <1>0, <1>4, <2>2 DEF CodeEffect, CodeOffer, Dead
  <2>. QED
    BY <1>0, <1>1, <2>3, <2>4 DEF CodeOffer, Dead
<1>. QED
  BY <1>3, <1>4

LEMMA RequestOfferKept ==
    ASSUME Base, NEW q \in Reqs, Step(q), BondEffect(q), NEW r \in Reqs \ {q},
           req'[r] = req[r], held'[r] = held[r], RequestOffer(r)
    PROVE  RequestOffer(r)'
<1>0. PICK x, y, item : x = req[r].who[1] /\ y = req[r].who[2] /\ item = Op(r).item
  OBVIOUS
<1>1. /\ Stage(r)' = Stage(r) /\ Op(r)' = Op(r) /\ (\A kinds : Is(r, kinds)' <=> Is(r, kinds))
      /\ \A answer : Answered(r, answer)' <=> Answered(r, answer)
      /\ req'[r].who = req[r].who
  BY SameRequest DEF Answered
<1>2. SUFFICES ASSUME Is(r, Answerings) PROVE RequestOffer(r)'
  BY <1>1 DEF RequestOffer
<1>3. FriendStaged(r) /\ Is(r, Friendly) /\ RowTypes
  BY <1>2 DEF Base, Staged, Is, Friendly
<1>4. Stage(r) \in {"request", "mirror", "people", "commit"} => (\E row \in Relations : Asked(r, row))'
  <2>1. \A row \in Relations : Asked(r, row) => Asked(r, row)'
    BY <1>1, SeenKept DEF Asked
  <2>. QED
    BY <1>2, <2>1 DEF RequestOffer, Relations
<1>5. Stage(r) \in {"mirror", "people", "commit"} => Pending(item)' # {}
  <2>1. SUFFICES ASSUME Stage(r) \in {"mirror", "people", "commit"} PROVE Pending(item)' # {}
    OBVIOUS
  <2>2. PICK now \in relation : now.id = item /\ now.type = "request"
    BY <1>0, <1>2, <2>1 DEF RequestOffer, Pending, WithId
  <2>3. now.from = x /\ now.to = y
    BY <1>0, <1>2, <2>1, <2>2 DEF RequestOffer, Asked, Seen, WithId
  <2>4. Bond(x, y) \in held[r]
    BY <1>0, <1>2, <1>3, <2>1 DEF FriendStaged, Friendly
  <2>5. ~Owns(q, Bond(x, y))
    BY <2>4, NotOwned DEF Bond
  <2>6. now \in relation'
    BY <2>2, <2>3, <2>5 DEF BondEffect
  <2>. QED
    BY <2>2, <2>6 DEF Pending, WithId
<1>6. Answered(r, "ok") => Pending(item)' = {} /\ (\E row \in Relations : row.id = item /\ Seen(row))'
  <2>1. SUFFICES ASSUME Answered(r, "ok")
                 PROVE  Pending(item)' = {} /\ (\E row \in Relations : row.id = item /\ Seen(row))'
    OBVIOUS
  <2>2. PICK row \in Relations : row.id = item /\ Seen(row)
    BY <1>0, <1>2, <2>1 DEF RequestOffer
  <2>3. Seen(row)'
    BY <2>2, SeenKept
  <2>4. ASSUME NEW now \in relation', now.id = item, now.type = "request"
        PROVE  FALSE
    <3>1. now \notin relation
      BY <1>0, <1>2, <2>1, <2>4 DEF RequestOffer, Pending, WithId
    <3>2. ~Promoted(q, now)
      BY <1>3, <2>4, PromotedIs
    <3>3. Added(q, now)
      BY <3>1, <3>2 DEF BondEffect
    <3>4. Stage(q) = "done"
      BY <2>2, <2>4, <3>3 DEF Added, Seen
    <3>. QED
      BY <3>4, Acting DEF Stage
  <2>. QED
    BY <2>2, <2>3, <2>4 DEF Pending, WithId, Relations
<1>. QED
  BY <1>0, <1>1, <1>4, <1>5, <1>6 DEF RequestOffer

LEMMA BondFreeKept ==
    ASSUME Base, NEW q \in Reqs, BondEffect(q), NEW r \in Reqs \ {q},
           req'[r] = req[r], held'[r] = held[r], BondFree(r)
    PROVE  BondFree(r)'
<1>0. PICK x, y : x = req[r].who[1] /\ y = req[r].who[2]
  OBVIOUS
<1>1. /\ Stage(r)' = Stage(r) /\ Op(r)' = Op(r) /\ (\A kinds : Is(r, kinds)' <=> Is(r, kinds))
      /\ req'[r].who = req[r].who
  BY SameRequest
<1>2. SUFFICES ASSUME Is(r, {"befriend", "accept_friend"}) PROVE BondFree(r)'
  BY <1>1 DEF BondFree
<1>3. FriendStaged(r) /\ Is(r, Friendly)
  BY <1>2 DEF Base, Staged, Is, Friendly, Sends, Answerings
<1>4. ASSUME NEW a, NEW b, Bond(a, b) \in held[r], Related(a, b, {"friend"}) = {}
      PROVE  Related(a, b, {"friend"})' = {}
  <2>1. ASSUME NEW now \in relation', now.from = a, now.to = b, now.type = "friend"
        PROVE  FALSE
    <3>1. now \notin relation
      BY <1>4, <2>1 DEF Related
    <3>2. Owns(q, Bond(a, b))
      BY <2>1, <3>1 DEF BondEffect
    <3>. QED
      BY <1>4, <3>2, NotOwned DEF Bond
  <2>. QED
    BY <2>1 DEF Related
<1>5. /\ Stage(r) \in {"mirror", "people", "commit"} => Bond(x, y) \in held[r]
      /\ Stage(r) \in {"people", "commit"} => Bond(y, x) \in held[r]
  <2>1. Is(r, Sends) \/ Is(r, Answerings)
    BY <1>2 DEF Is, Sends, Answerings
  <2>. QED
    BY <1>0, <1>2, <1>3, <2>1 DEF FriendStaged, Friendly
<1>6. /\ Stage(r) \in {"mirror", "people", "commit"} => Related(x, y, {"friend"}) = {}
      /\ Stage(r) \in {"people", "commit"} => Related(y, x, {"friend"}) = {}
  BY <1>0, <1>2 DEF BondFree
<1>7. /\ Stage(r) \in {"mirror", "people", "commit"} => Related(x, y, {"friend"})' = {}
      /\ Stage(r) \in {"people", "commit"} => Related(y, x, {"friend"})' = {}
  BY <1>4, <1>5, <1>6
<1>. QED
  BY <1>0, <1>1, <1>7 DEF BondFree

LEMMA EndingSeesKept ==
    ASSUME Base, NEW q \in Reqs, Step(q), BondEffect(q), NEW r \in Reqs \ {q},
           req'[r] = req[r], held'[r] = held[r], EndingSees(r)
    PROVE  EndingSees(r)'
<1>0. PICK rows : rows = req[r].rows
  OBVIOUS
<1>1. /\ Stage(r)' = Stage(r) /\ Op(r)' = Op(r) /\ (\A kinds : Is(r, kinds)' <=> Is(r, kinds))
      /\ req'[r].rows = rows
      /\ \A row : Listed(r, row)' <=> Listed(r, row)
  BY <1>0, SameRequest DEF Listed
<1>2. SUFFICES ASSUME Is(r, Endings), Stage(r) \in {"deleted", "unblock", "commit"} PROVE EndingSees(r)'
  BY <1>1 DEF EndingSees
<1>3. \A row \in rows : /\ Seen(row) /\ (row.type = "blocked" <=> Is(r, {"unblock"}))
                        /\ Is(r, {"unfriend"}) => row.type = "friend"
  BY <1>0, <1>2 DEF EndingSees
<1>4. \A row \in rows : Seen(row)'
  BY <1>3, SeenKept
<1>5. CASE Is(r, {"block"}) /\ Done({"accept_friend"})'
  BY <1>1, <1>3, <1>4, <1>5 DEF EndingSees
<1>6. CASE ~(Is(r, {"block"}) /\ Done({"accept_friend"})')
  <2>1. \A a, b \in relation : Mirrors(a, b) => (Listed(r, a) <=> Listed(r, b))
    <3>1. ~(Is(r, {"block"}) /\ Done({"accept_friend"}))
      BY <1>6, DoneKept
    <3>. QED
      BY <1>2, <3>1 DEF EndingSees
  <2>2. ASSUME NEW now \in relation', now \notin relation, now.type = "friend", Listed(r, now)
        PROVE  FALSE
    <3>1. PICK row \in rows : row.id = now.id
      BY <1>0, <2>2 DEF Listed
    <3>2. CASE Added(q, now)
      <4>1. Stage(q) = "done"
        BY <1>3, <3>1, <3>2 DEF Added, Seen
      <4>. QED
        BY <4>1, Acting DEF Stage
    <3>3. CASE Promoted(q, now)
      <4>1. PICK old \in relation : old.type = "request" /\ now.id = old.id
        BY <3>3, PromotedIs DEF Base
      <4>2. row.type = "request"
        BY <1>3, <3>1, <4>1 DEF Seen, WithId
      <4>3. Is(r, {"block"})
        BY <1>2, <1>3, <4>2 DEF Is, Endings
      <4>4. Done({"accept_friend"})'
        <5>1. Stage(q)' = "done" /\ Op(q)' = Op(q)
          <6>1. Writes(q)
            BY <2>2, Quiet DEF dataVars
          <6>. QED
            BY <6>1, WritesEnd, StepProgress DEF Stage, Base, Progress
        <5>. QED
          BY <3>3, <5>1 DEF Promoted, Done, Answered, Is, Stage
      <4>. QED
        BY <1>6, <4>3, <4>4
    <3>. QED
      BY <2>2, <3>2, <3>3 DEF BondEffect
  <2>3. ASSUME NEW a \in relation', NEW b \in relation', Mirrors(a, b)
        PROVE  Listed(r, a) <=> Listed(r, b)
    <3>0. a.type = "friend" /\ b.type = "friend" /\ Mirrors(b, a)
      BY <2>3 DEF Mirrors
    <3>1. CASE a \in relation /\ b \in relation
      BY <2>1, <2>3, <3>1
    <3>2. CASE a \notin relation /\ b \notin relation
      BY <2>2, <3>0, <3>2
    <3>3. CASE a \notin relation /\ b \in relation
      BY <2>3, <3>3 DEF BondEffect
    <3>4. CASE a \in relation /\ b \notin relation
      BY <3>0, <3>4 DEF BondEffect
    <3>. QED
      BY <3>1, <3>2, <3>3, <3>4
  <2>4. \A a, b \in relation' : Mirrors(a, b) => (Listed(r, a)' <=> Listed(r, b)')
    BY <1>1, <2>3
  <2>. QED
    BY <1>1, <1>3, <1>4, <2>4 DEF EndingSees, Mirrors
<1>. QED
  BY <1>5, <1>6

-----------------------------------------------------------------------------
(* What a request's own steps find of what is offered                      *)

\* What a step that goes on, or ends without an ok, says of an accept.
LEMMA AcceptMoves ==
    ASSUME Base, NEW q \in Reqs, Entry(q), ~CommitEntry(q), Is(q, {"accept"})
    PROVE  \/ req'[q].at = "done" /\ req'[q].answer # "ok"
           \/ req'[q].at \in {"group", "counts", "invite"}
           \/ EnterInvite(q) /\ invite[Op(q).item] = "open" /\ req'[q].at = "row"
           \/ req[q].at \in {"row", "share"} /\ req'[q].at \in {"share", "commit"}
<1>1. CASE \E answer \in Answers \ {"ok"} : Answer(q, answer)
  BY <1>1, Ended
<1>2. ASSUME NEW stage, NEW locks, Goes(q, To(q, stage, locks))
      PROVE  req'[q].at = stage
  BY <1>2, WentTo
<1>3. CASE BeginEntry(q) /\ ~(\E answer \in Answers \ {"ok"} : Answer(q, answer))
  <2>1. \E locks, who, seen : Goes(q, [To(q, "group", locks) EXCEPT !.who = who, !.seen = seen])
    BY <1>3 DEF BeginEntry, Answers
  <2>. QED
    BY <2>1, WentWith
<1>4. CASE EnterGroup(q) /\ ~(\E answer \in Answers \ {"ok"} : Answer(q, answer))
  <2>1. \E locks, rows, fresh : Goes(q, [To(q, "counts", locks) EXCEPT !.rows = rows, !.fresh = fresh])
    BY <1>4 DEF EnterGroup, Answers
  <2>. QED
    BY <2>1, WentWith
<1>5. CASE EnterCounts(q) /\ ~(\E answer \in Answers \ {"ok"} : Answer(q, answer))
  BY <1>2, <1>5 DEF EnterCounts, Answers
<1>6. CASE EnterInvite(q) /\ ~(\E answer \in Answers \ {"ok"} : Answer(q, answer))
  BY <1>2, <1>6 DEF EnterInvite, Answers
<1>7. CASE EnterRow(q) /\ ~(\E answer \in Answers \ {"ok"} : Answer(q, answer))
  BY <1>2, <1>7 DEF EnterRow, Answers, At
<1>8. CASE EnterShare(q) /\ ~(\E answer \in Answers \ {"ok"} : Answer(q, answer))
  BY <1>2, <1>8 DEF EnterShare, Answers, At, Is
<1>9. ~BeginImport(q) /\ ~BeginCreate(q) /\ ~ImportPeople(q) /\ ~ImportRows(q)
  BY DEF BeginImport, BeginCreate, ImportPeople, ImportRows, Is
<1>. QED
  BY <1>1, <1>3, <1>4, <1>5, <1>6, <1>7, <1>8, <1>9 DEF Entry

LEMMA InviteOffered ==
    ASSUME Sound, NEW q \in Reqs, Step(q), InviteOffer(q)
    PROVE  /\ InviteOffer(q)'
           /\ Is(q, {"accept", "decline"}) /\ Answered(q, "ok")' => invite[Op(q).item] = "open"
<1>0. PICK i : i = Op(q).item
  OBVIOUS
<1>1. /\ Base /\ RowTypes /\ Op(q)' = Op(q) /\ (\A kinds : Is(q, kinds)' <=> Is(q, kinds)) /\ Stage(q) # "done"
      /\ Typed(q) /\ Staged(q)
  BY StepProgress, Acting DEF Sound, Base, Progress, Is, Stage
<1>2. ASSUME NEW before \in BOOLEAN, before <=> invite[i] = "open",
             /\ Is(q, {"accept"}) /\ req'[q].at \in {"row", "share", "commit"} => invite'[i] = "open"
             /\ Is(q, {"accept", "decline"}) /\ req'[q].at = "done" /\ req'[q].answer = "ok" =>
                   invite'[i] # "open" /\ before
      PROVE  /\ InviteOffer(q)'
             /\ Is(q, {"accept", "decline"}) /\ Answered(q, "ok")' => invite[Op(q).item] = "open"
  BY <1>0, <1>1, <1>2 DEF InviteOffer, Answered, Stage
<1>3. SUFFICES /\ Is(q, {"accept"}) /\ req'[q].at \in {"row", "share", "commit"} => invite'[i] = "open"
               /\ Is(q, {"accept", "decline"}) /\ req'[q].at = "done" /\ req'[q].answer = "ok" =>
                     invite'[i] # "open" /\ invite[i] = "open"
  BY <1>2
<1>4. CASE ~Is(q, {"accept", "decline"})
  <2>1. ~Is(q, {"accept"})
    BY <1>4 DEF Is
  <2>. QED
    BY <1>4, <2>1
<1>5. CASE (Take(q) \/ Victim(q)) /\ invite' = invite
  <2>1. CASE Take(q)
    <3>1. req'[q].at = req[q].at
      BY <1>1, <2>1, WentOn
    <3>. QED
      BY <1>0, <1>1, <1>5, <3>1 DEF InviteOffer, Stage
  <2>2. CASE Victim(q)
    BY <1>1, <2>2, Ended DEF Victim
  <2>. QED
    BY <1>5, <2>1, <2>2
<1>6. CASE CommitEntry(q) /\ Is(q, {"accept"})
  <2>1. Stage(q) = "commit" /\ req'[q].at = "done"
    BY <1>1, <1>6, Ended DEF CommitEntry, At, Stage
  <2>2. i \in Invites
    <3>1. Is(q, {"accept"} \cup InviteOps)
      BY <1>6 DEF Is
    <3>. QED
      BY <1>0, <1>1, <3>1, Names
  <2>3. invite'[i] = "used"
    BY <1>0, <1>1, <1>6, <2>2 DEF CommitEntry, RowTypes
  <2>4. invite[i] = "open"
    BY <1>0, <1>6, <2>1 DEF InviteOffer
  <2>. QED
    BY <2>1, <2>3, <2>4
<1>7. CASE Entry(q) /\ ~CommitEntry(q) /\ Is(q, {"accept"}) /\ invite' = invite
  <2>1. CASE EnterInvite(q) /\ invite[Op(q).item] = "open" /\ req'[q].at = "row"
    BY <1>0, <1>7, <2>1
  <2>2. CASE req[q].at \in {"row", "share"} /\ req'[q].at \in {"share", "commit"}
    BY <1>0, <1>7, <2>2 DEF InviteOffer, Stage
  <2>. QED
    BY <1>1, <1>7, <2>1, <2>2, AcceptMoves
<1>8. CASE InviteOp(q) /\ Is(q, {"decline"})
  <2>0. ~Is(q, {"accept"})
    BY <1>8 DEF Is
  <2>1. CASE BeginInvite(q)
    <3>1. CASE \E answer \in Answers \ {"ok"} : Answer(q, answer)
      BY <1>1, <2>0, <3>1, Ended
    <3>2. CASE \E locks : Goes(q, To(q, "invite", locks))
      BY <1>1, <2>0, <3>2, WentTo
    <3>. QED
      BY <2>1, <3>1, <3>2 DEF BeginInvite, Answers
  <2>2. CASE WriteInvite(q)
    <3>1. CASE \E answer \in Answers \ {"ok"} : Answer(q, answer)
      BY <1>1, <2>0, <3>1, Ended
    <3>2. CASE invite[i] = "open" /\ invite' = [invite EXCEPT ![i] = "declined"]
      <4>1. i \in Invites
        <5>1. Is(q, {"accept"} \cup InviteOps)
          BY <1>8 DEF Is, InviteOps
        <5>. QED
          BY <1>0, <1>1, <5>1, Names
      <4>2. invite'[i] = "declined"
        BY <1>1, <3>2, <4>1 DEF RowTypes
      <4>. QED
        BY <2>0, <3>2, <4>2
    <3>3. ~Is(q, {"revoke"})
      BY <1>8 DEF Is
    <3>. QED
      BY <1>0, <1>8, <2>2, <3>1, <3>2, <3>3 DEF WriteInvite, Answers
  <2>. QED
    BY <1>8, <2>1, <2>2 DEF InviteOp
<1>9. Entry(q) /\ ~CommitEntry(q) => invite' = invite
  BY DEF Entry, BeginEntry, BeginImport, BeginCreate, EnterGroup, ImportPeople, ImportRows, EnterCounts, EnterInvite,
     EnterRow, EnterShare, rowVars
<1>10. /\ Is(q, {"accept", "decline"}) => Is(q, {"accept"}) \/ Is(q, {"decline"})
       /\ Is(q, {"accept"}) => Is(q, Entries)
       /\ Is(q, {"decline"}) => Is(q, InviteOps)
  BY DEF Is, Entries, InviteOps
<1>11. /\ Is(q, {"accept"}) => Entry(q) \/ ((Take(q) \/ Victim(q)) /\ invite' = invite)
       /\ Is(q, {"decline"}) => InviteOp(q) \/ ((Take(q) \/ Victim(q)) /\ invite' = invite)
  BY <1>10, StepKinds, Families DEF Step, Friendly, rowVars
<1>. QED
  BY <1>4, <1>5, <1>6, <1>7, <1>8, <1>9, <1>10, <1>11

LEMMA RedeemMoves ==
    ASSUME Base, NEW q \in Reqs, Link(q), Is(q, {"redeem"}), ~CommitRedeem(q)
    PROVE  \/ req'[q].at = "done" /\ req'[q].answer # "ok"
           \/ req[q].at = "begin" /\ req'[q].at = "issuer" /\ req'[q].who = <<personOf[Op(q).users[1]]>>
           \/ /\ req[q].at = "issuer" /\ req'[q].at = "code"
              /\ req'[q].who = <<personOf[Op(q).item[1]]>> \o req[q].who
           \/ /\ req[q].at = "code" /\ code[Op(q).item] = "live" /\ Rest(q)
              /\ IF Cardinality(Range(req[q].who)) = 1 THEN req'[q].at = "commit" ELSE req'[q].at = "counts"
           \/ req[q].at = "counts" /\ req'[q].at = "people" /\ Rest(q)
           \/ /\ req[q].at = "people" /\ req'[q].at = "commit" /\ req'[q].who = <<Survivor(q), Attached(q)>>
              /\ \A p \in Range(req[q].who) : ~Orphan(p)
<1>1. Typed(q)
  BY DEF Base
<1>2. CASE \E answer \in Answers \ {"ok"} : Answer(q, answer)
  BY <1>2, Ended
<1>3. CASE BeginRedeem(q) /\ ~(\E answer \in Answers \ {"ok"} : Answer(q, answer))
  <2>1. PICK p : p = personOf[Op(q).users[1]]
    OBVIOUS
  <2>. DEFINE who == <<p>>
  <2>2. req[q].at = "begin" /\ Goes(q, [To(q, "issuer", <<>>) EXCEPT !.who = who])
    BY <1>3, <2>1 DEF BeginRedeem, Answers, At
  <2>. HIDE DEF who
  <2>3. req'[q].at = "issuer" /\ req'[q].who = who
    <3>1. req'[q] = [To(q, "issuer", <<>>) EXCEPT !.who = who]
      BY <2>2, Went
    <3>. QED
      BY <1>1, <3>1 DEF To, Typed, Record
  <2>. QED
    BY <2>1, <2>2, <2>3 DEF who
<1>4. CASE RedeemIssuer(q) /\ ~(\E answer \in Answers \ {"ok"} : Answer(q, answer))
  <2>1. PICK locks : locks = <<<<"code", Op(q).item>>>>
    OBVIOUS
  <2>2. PICK p : p = personOf[Op(q).item[1]]
    OBVIOUS
  <2>3. PICK who : who = <<p>> \o To(q, "code", locks).who
    OBVIOUS
  <2>4. req[q].at = "issuer" /\ Goes(q, [To(q, "code", locks) EXCEPT !.who = who])
    BY <1>4, <2>1, <2>2, <2>3 DEF RedeemIssuer, Answers, At
  <2>5. req'[q].at = "code" /\ req'[q].who = who
    <3>1. req'[q] = [To(q, "code", locks) EXCEPT !.who = who]
      BY <2>4, Went
    <3>. QED
      BY <1>1, <3>1 DEF To, Typed, Record
  <2>6. To(q, "code", locks).who = req[q].who
    BY <1>1 DEF To, Typed, Record
  <2>. QED
    BY <2>2, <2>3, <2>4, <2>5, <2>6
<1>5. CASE RedeemCode(q) /\ ~(\E answer \in Answers \ {"ok"} : Answer(q, answer))
  <2>1. /\ req[q].at = "code" /\ code[Op(q).item] = "live"
        /\ IF Cardinality(Range(req[q].who)) = 1 THEN Goes(q, To(q, "commit", <<>>))
           ELSE \E locks : Goes(q, To(q, "counts", locks))
    BY <1>5 DEF RedeemCode, Answers, At
  <2>. QED
    BY <2>1, WentTo
<1>6. CASE RedeemCounts(q)
  <2>1. /\ req[q].at = "counts"
        /\ \E locks, found : Goes(q, [To(q, "people", locks) EXCEPT !.found = found])
    BY <1>6 DEF RedeemCounts, At
  <2>. QED
    BY <2>1, WentWith
<1>7. CASE RedeemPeople(q) /\ ~(\E answer \in Answers \ {"ok"} : Answer(q, answer))
  <2>1. PICK to, from, rows : to = Survivor(q) /\ from = Attached(q) /\ rows = RowsAnywhere(Attached(q))
    OBVIOUS
  <2>. DEFINE who == <<to, from>>
  <2>2. /\ req[q].at = "people" /\ \A p \in Range(req[q].who) : ~Orphan(p)
        /\ \E locks : Goes(q, [To(q, "commit", locks) EXCEPT !.who = who, !.rows = rows])
    BY <1>7, <2>1 DEF RedeemPeople, Answers, At
  <2>. HIDE DEF who
  <2>3. req'[q].at = "commit" /\ req'[q].who = who
    <3>1. PICK locks : req'[q] = [To(q, "commit", locks) EXCEPT !.who = who, !.rows = rows]
      BY <2>2, Went
    <3>. QED
      BY <1>1, <3>1 DEF To, Typed, Record
  <2>. QED
    BY <2>1, <2>2, <2>3 DEF who
<1>8. ~BeginIssue(q) /\ ~CommitIssue(q) /\ ~BeginUnlink(q) /\ ~UnlinkPerson(q) /\ ~CommitUnlink(q)
  BY DEF BeginIssue, CommitIssue, BeginUnlink, UnlinkPerson, CommitUnlink, Is
<1>. QED
  BY <1>2, <1>3, <1>4, <1>5, <1>6, <1>7, <1>8 DEF Link

\* The steps of a redeem: it waits, is rolled back, or is a step of a link.
LEMMA RedeemSteps ==
    ASSUME Base, NEW q \in Reqs, Step(q), Is(q, {"redeem"})
    PROVE  \/ Take(q) /\ UNCHANGED dataVars /\ req'[q].at = req[q].at /\ Rest(q)
           \/ Victim(q) /\ UNCHANGED dataVars /\ req'[q].at = "done" /\ req'[q].answer # "ok"
           \/ Link(q) /\ ~CommitRedeem(q) /\ UNCHANGED dataVars
           \/ CommitRedeem(q) /\ req'[q].at = "done" /\ req[q].at = "commit"
<1>1. Is(q, LinkOps)
  BY DEF Is, LinkOps
<1>2. Link(q) \/ ((Take(q) \/ Victim(q)) /\ UNCHANGED dataVars)
  BY <1>1, StepKinds, Families DEF Step, dataVars, Friendly
<1>3. Take(q) => req'[q].at = req[q].at /\ Rest(q)
  BY WentOn
<1>4. Victim(q) => req'[q].at = "done" /\ req'[q].answer # "ok"
  BY Ended DEF Victim
<1>5. CommitRedeem(q) => req'[q].at = "done" /\ req[q].at = "commit"
  BY Ended DEF CommitRedeem, At
<1>6. Link(q) /\ ~CommitRedeem(q) => UNCHANGED dataVars
  <2>1. ~CommitIssue(q) /\ ~CommitUnlink(q)
    BY DEF CommitIssue, CommitUnlink, Is
  <2>. QED
    BY <2>1 DEF Link, BeginIssue, BeginRedeem, RedeemIssuer, RedeemCode, RedeemCounts, RedeemPeople, BeginUnlink,
       UnlinkPerson, dataVars
<1>. QED
  BY <1>2, <1>3, <1>4, <1>5, <1>6

LEMMA CodeOffered ==
    ASSUME Sound, NEW q \in Reqs, Step(q), CodeOffer(q)
    PROVE  /\ CodeOffer(q)'
           /\ Is(q, {"redeem"}) /\ Answered(q, "ok")' => code[Op(q).item] = "live"
<1>0. PICK c : c = Op(q).item
  OBVIOUS
<1>1. /\ Base /\ RowTypes /\ Op(q)' = Op(q) /\ (\A kinds : Is(q, kinds)' <=> Is(q, kinds)) /\ Stage(q) # "done"
      /\ Typed(q)
  BY StepProgress, Acting DEF Sound, Base, Progress, Is, Stage
<1>2. SUFFICES ASSUME Is(q, {"redeem"})
               PROVE  /\ req'[q].at \in {"counts", "people", "commit"} => code'[c] = "live"
                      /\ req'[q].at = "done" /\ req'[q].answer = "ok" => Dead(c)' /\ code[c] = "live"
  BY <1>0, <1>1 DEF CodeOffer, Answered, Stage
<1>3. Stage(q) \in {"counts", "people", "commit"} => code[c] = "live"
  BY <1>0, <1>2 DEF CodeOffer
<1>4. CASE Take(q) /\ UNCHANGED dataVars /\ req'[q].at = req[q].at /\ Rest(q)
  BY <1>1, <1>3, <1>4 DEF dataVars, Stage
<1>5. CASE Link(q) /\ ~CommitRedeem(q) /\ UNCHANGED dataVars
  <2>1. code' = code
    BY <1>5 DEF dataVars
  <2>2. \/ req'[q].at = "done" /\ req'[q].answer # "ok"
        \/ req'[q].at \in {"issuer", "code"}
        \/ code[c] = "live" /\ req'[q].at # "done"
        \/ req[q].at \in {"counts", "people"} /\ req'[q].at # "done"
    BY <1>0, <1>1, <1>2, <1>5, RedeemMoves
  <2>. QED
    BY <1>3, <2>1, <2>2 DEF Stage
<1>6. CASE CommitRedeem(q) /\ req'[q].at = "done" /\ req[q].at = "commit"
  <2>1. c \in Codes
    BY <1>0, <1>1, <1>2, Names
  <2>2. code'[c] = "used"
    BY <1>0, <1>1, <1>6, <2>1 DEF CommitRedeem, RowTypes
  <2>. QED
    BY <1>3, <1>6, <2>2 DEF Stage, Dead
<1>. QED
  BY <1>1, <1>2, <1>4, <1>5, <1>6, RedeemSteps

LEMMA FriendMoves ==
    ASSUME Base, NEW q \in Reqs, Friend(q), ~CommitSend(q), ~CommitAnswer(q), ~CommitEnding(q)
    PROVE  \/ req'[q].at = "done" /\ req'[q].answer # "ok"
           \/ Is(q, Sends) /\ req'[q].at = "insert"
           \/ /\ Is(q, Sends) /\ Rest(q) /\ Related(req[q].who[1], req[q].who[2], {SentType(q)}) = {}
              /\ req'[q].at = IF Is(q, {"send"}) THEN "people" ELSE "mirror"
           \/ /\ req[q].at = "mirror" /\ req'[q].at = "people" /\ Rest(q)
              /\ Related(req[q].who[2], req[q].who[1], {"friend"}) = {}
           \/ req[q].at = "people" /\ req'[q].at = "commit" /\ Rest(q)
           \/ /\ Is(q, Answerings) /\ req'[q].at = "request"
              /\ \E row \in Pending(Op(q).item) : req'[q].who = <<row.from, row.to>>
           \/ /\ Is(q, Answerings) /\ req[q].at = "request" /\ Rest(q) /\ Pending(Op(q).item) # {}
              /\ IF Is(q, {"withdraw"}) THEN req'[q].at = "commit"
                 ELSE req'[q].at = "mirror" /\ Related(req[q].who[1], req[q].who[2], {"friend"}) = {}
           \/ Is(q, Endings) /\ req'[q].at \in {"delete", "insert"}
           \/ /\ Is(q, {"unblock"}) /\ req'[q].at = "unblock"
              /\ req'[q].rows \subseteq {row \in relation : row.type = "blocked"}
           \/ /\ Is(q, {"unfriend", "block"}) /\ req'[q].at = "deleted"
              /\ req'[q].rows = Between(req[q].who[1], req[q].who[2],
                                        IF Is(q, {"block"}) THEN {"friend", "request"} ELSE {"friend"})
           \/ Is(q, Endings) /\ req[q].at \in {"deleted", "unblock"} /\ req'[q].at = "commit" /\ Rest(q)
<1>1. Typed(q)
  BY DEF Base
<1>2. CASE \E answer \in Answers \ {"ok"} : Answer(q, answer)
  BY <1>2, Ended
<1>3. CASE BeginSend(q) /\ ~(\E answer \in Answers \ {"ok"} : Answer(q, answer))
  <2>1. PICK x, y : x = personOf[Op(q).users[1]] /\ y = personOf[Op(q).users[2]]
    OBVIOUS
  <2>. DEFINE who == <<x, y>>
              locks == <<Bond(x, y)>>
  <2>2. Is(q, Sends) /\ Goes(q, [To(q, "insert", locks) EXCEPT !.who = who])
    BY <1>3, <2>1 DEF BeginSend, Answers
  <2>. HIDE DEF who, locks
  <2>3. req'[q] = [To(q, "insert", locks) EXCEPT !.who = who]
    BY <2>2, Went
  <2>4. req'[q].at = "insert"
    BY <1>1, <2>3 DEF To, Typed, Record
  <2>. QED
    BY <2>2, <2>4
<1>4. CASE SendRow(q) /\ ~(\E answer \in Answers \ {"ok"} : Answer(q, answer))
  <2>1. /\ Is(q, Sends) /\ Related(req[q].who[1], req[q].who[2], {SentType(q)}) = {}
        /\ \E locks : Goes(q, To(q, IF Is(q, {"send"}) THEN "people" ELSE "mirror", locks))
    BY <1>4 DEF SendRow, Answers
  <2>. QED
    BY <2>1, WentTo
<1>5. CASE MirrorRow(q) /\ ~(\E answer \in Answers \ {"ok"} : Answer(q, answer))
  <2>1. /\ req[q].at = "mirror" /\ Related(req[q].who[2], req[q].who[1], {"friend"}) = {}
        /\ Goes(q, To(q, "people", Shares(q)))
    BY <1>5 DEF MirrorRow, Answers, At
  <2>. QED
    BY <2>1, WentTo
<1>6. CASE RelatedPeople(q) /\ ~(\E answer \in Answers \ {"ok"} : Answer(q, answer))
  <2>1. req[q].at = "people" /\ Goes(q, To(q, "commit", <<>>))
    BY <1>6 DEF RelatedPeople, Answers, At
  <2>. QED
    BY <2>1, WentTo
<1>7. CASE BeginAnswer(q) /\ ~(\E answer \in Answers \ {"ok"} : Answer(q, answer))
  <2>1. PICK row \in Pending(Op(q).item) :
            Goes(q, [To(q, "request", <<Bond(row.from, row.to)>>) EXCEPT !.who = <<row.from, row.to>>])
    BY <1>7 DEF BeginAnswer, Answers
  <2>. DEFINE who == <<row.from, row.to>>
              locks == <<Bond(row.from, row.to)>>
  <2>2. Is(q, Answerings) /\ Goes(q, [To(q, "request", locks) EXCEPT !.who = who])
    BY <1>7, <2>1 DEF BeginAnswer
  <2>. HIDE DEF who, locks
  <2>3. req'[q] = [To(q, "request", locks) EXCEPT !.who = who]
    BY <2>2, Went
  <2>4. req'[q].at = "request" /\ req'[q].who = who
    BY <1>1, <2>3 DEF To, Typed, Record
  <2>. QED
    BY <2>2, <2>4 DEF who
<1>8. CASE AnswerRow(q) /\ ~(\E answer \in Answers \ {"ok"} : Answer(q, answer))
  <2>1. /\ Is(q, Answerings) /\ req[q].at = "request" /\ Pending(Op(q).item) # {}
        /\ IF Is(q, {"withdraw"}) THEN Goes(q, To(q, "commit", <<>>))
           ELSE \E locks : Goes(q, To(q, "mirror", locks))
        /\ ~Is(q, {"withdraw"}) => Related(req[q].who[1], req[q].who[2], {"friend"}) = {}
    BY <1>8 DEF AnswerRow, Answers, At, Is, Answerings
  <2>. QED
    BY <2>1, WentTo
<1>9. CASE BeginEnding(q) /\ ~(\E answer \in Answers \ {"ok"} : Answer(q, answer))
  <2>1. PICK x, y : x = personOf[Op(q).users[1]] /\ y = personOf[Op(q).users[2]]
    OBVIOUS
  <2>2. PICK rows : rows = IF Is(q, {"unblock"}) THEN Related(x, y, {"blocked"}) ELSE {}
    OBVIOUS
  <2>. DEFINE who == <<x, y>>
  <2>3. PICK stage, locks : /\ Goes(q, [To(q, stage, locks) EXCEPT !.who = who, !.rows = rows])
                            /\ stage = CASE Is(q, {"unfriend"}) -> "delete"
                                         [] Is(q, {"block"}) -> "insert"
                                         [] OTHER -> "unblock"
    <3>1. Goes(q, [(CASE Is(q, {"unfriend"}) -> To(q, "delete", <<>>)
                      [] Is(q, {"block"}) -> To(q, "insert", <<Block(x, y)>>)
                      [] OTHER -> To(q, "unblock", <<Block(x, y)>>)) EXCEPT !.who = <<x, y>>, !.rows = rows])
      BY <1>9, <2>1, <2>2 DEF BeginEnding, Answers
    <3>2. CASE Is(q, {"unfriend"})
      <4>1. PICK first : first = To(q, "delete", <<>>)
        OBVIOUS
      <4>2. ~Is(q, {"block"}) /\ (CASE Is(q, {"unfriend"}) -> To(q, "delete", <<>>)
                                    [] Is(q, {"block"}) -> To(q, "insert", <<Block(x, y)>>)
                                    [] OTHER -> To(q, "unblock", <<Block(x, y)>>)) = first
        BY <3>2, <4>1 DEF Is
      <4>3. Goes(q, [first EXCEPT !.who = <<x, y>>, !.rows = rows])
        BY <3>1, <4>2
      <4>. QED
        BY <3>2, <4>1, <4>2, <4>3
    <3>3. CASE Is(q, {"block"})
      <4>1. ~Is(q, {"unfriend"})
        BY <3>3 DEF Is
      <4>. QED
        BY <3>1, <3>3, <4>1
    <3>4. CASE ~Is(q, {"unfriend"}) /\ ~Is(q, {"block"})
      BY <3>1, <3>4
    <3>. QED
      BY <3>2, <3>3, <3>4
  <2>. HIDE DEF who
  <2>4. req'[q] = [To(q, stage, locks) EXCEPT !.who = who, !.rows = rows]
    BY <2>3, Went
  <2>5. req'[q].at = stage /\ req'[q].rows = rows
    BY <1>1, <2>4 DEF To, Typed, Record
  <2>6. Is(q, Endings) /\ (stage \in {"delete", "insert"} \/ (stage = "unblock" /\ Is(q, {"unblock"})))
    BY <1>9, <2>3 DEF BeginEnding, Is, Endings
  <2>7. Is(q, {"unblock"}) => rows \subseteq {row \in relation : row.type = "blocked"}
    BY <2>2 DEF Related
  <2>. QED
    BY <2>5, <2>6, <2>7
<1>10. CASE BlockRow(q) /\ ~(\E answer \in Answers \ {"ok"} : Answer(q, answer))
  <2>1. Is(q, Endings) /\ Goes(q, To(q, "delete", Shares(q)))
    BY <1>10 DEF BlockRow, Answers, Is, Endings
  <2>. QED
    BY <2>1, WentTo
<1>11. CASE DeleteBetween(q) /\ ~(\E answer \in Answers \ {"ok"} : Answer(q, answer))
  <2>1. PICK rows : rows = Between(req[q].who[1], req[q].who[2],
                                   IF Is(q, {"block"}) THEN {"friend", "request"} ELSE {"friend"})
    OBVIOUS
  <2>2. Is(q, {"unfriend", "block"}) /\ \E locks : Goes(q, [To(q, "deleted", locks) EXCEPT !.rows = rows])
    BY <1>11, <2>1 DEF DeleteBetween, Answers
  <2>3. PICK locks : req'[q] = [To(q, "deleted", locks) EXCEPT !.rows = rows]
    BY <2>2, Went
  <2>4. req'[q].at = "deleted" /\ req'[q].rows = rows
    BY <1>1, <2>3 DEF To, Typed, Record
  <2>. QED
    BY <2>1, <2>2, <2>4
<1>12. CASE (Deleted(q) \/ Unblock(q)) /\ ~(\E answer \in Answers \ {"ok"} : Answer(q, answer))
  <2>1. Is(q, Endings) /\ req[q].at \in {"deleted", "unblock"} /\ Goes(q, To(q, "commit", <<>>))
    BY <1>12 DEF Deleted, Unblock, Answers, At, Is, Endings
  <2>. QED
    BY <2>1, WentTo
<1>13. CASE UnfriendAgain(q) /\ ~(\E answer \in Answers \ {"ok"} : Answer(q, answer))
  <2>1. Is(q, Endings) /\ req' = [req EXCEPT ![q] = [To(q, "delete", <<>>) EXCEPT !.again = TRUE]]
    BY <1>13 DEF UnfriendAgain, Again, Answers, Is, Endings
  <2>2. req'[q] = [To(q, "delete", <<>>) EXCEPT !.again = TRUE]
    BY <2>1 DEF Base, Shaped
  <2>3. req'[q].at = "delete"
    BY <1>1, <2>2 DEF To, Typed, Record
  <2>. QED
    BY <2>1, <2>3
<1>. QED
  BY <1>2, <1>3, <1>4, <1>5, <1>6, <1>7, <1>8, <1>9, <1>10, <1>11, <1>12, <1>13 DEF Friend

\* The steps of a friend operation: it waits, is rolled back, or is a step of its kind.
LEMMA FriendSteps ==
    ASSUME Base, NEW q \in Reqs, Step(q), Is(q, Friendly)
    PROVE  \/ CommitSend(q) \/ CommitAnswer(q) \/ CommitEnding(q)
           \/ UNCHANGED dataVars /\ req'[q].at = req[q].at /\ Rest(q)
           \/ UNCHANGED dataVars /\ req'[q].at = "done" /\ req'[q].answer # "ok"
           \/ UNCHANGED dataVars /\ Friend(q) /\ ~CommitSend(q) /\ ~CommitAnswer(q) /\ ~CommitEnding(q)
<1>1. Friend(q) \/ Take(q) \/ Victim(q)
  BY StepKinds, Families DEF Step, Friendly
<1>2. ~CommitSend(q) /\ ~CommitAnswer(q) /\ ~CommitEnding(q) => UNCHANGED dataVars
  <2>1. ~Is(q, Entries) /\ ~Is(q, Changes) /\ ~Is(q, GroupOps) /\ ~Is(q, InviteOps) /\ ~Is(q, LinkOps)
    BY Families DEF Friendly
  <2>2. ~CommitEntry(q) /\ ~CommitChange(q) /\ ~CommitGroup(q) /\ ~WriteInvite(q)
        /\ ~CommitIssue(q) /\ ~CommitRedeem(q) /\ ~CommitUnlink(q)
    BY <2>1 DEF CommitEntry, CommitChange, CommitGroup, WriteInvite, CommitIssue, CommitRedeem, CommitUnlink, Is, LinkOps
  <2>. QED
    BY <2>2, Quiet DEF Writes
<1>3. Take(q) => req'[q].at = req[q].at /\ Rest(q)
  BY WentOn
<1>4. Victim(q) => req'[q].at = "done" /\ req'[q].answer # "ok"
  BY Ended DEF Victim
<1>5. ~(Take(q) /\ (CommitSend(q) \/ CommitAnswer(q) \/ CommitEnding(q)))
  BY <1>3, Ended, Acting DEF CommitSend, CommitAnswer, CommitEnding
<1>. QED
  BY <1>1, <1>2, <1>3, <1>4

LEMMA AnswerSteps ==
    ASSUME Base, NEW q \in Reqs, Step(q), Is(q, Answerings)
    PROVE  \/ CommitAnswer(q) /\ req[q].at = "commit" /\ req'[q].at = "done" /\ Rest(q)
           \/ /\ UNCHANGED dataVars
              /\ \/ req'[q].at = "done" /\ req'[q].answer # "ok"
                 \/ req'[q].at = req[q].at /\ Rest(q)
                 \/ req'[q].at = "request" /\ \E row \in Pending(Op(q).item) : req'[q].who = <<row.from, row.to>>
                 \/ /\ req[q].at = "request" /\ Rest(q) /\ Pending(Op(q).item) # {}
                    /\ IF Is(q, {"withdraw"}) THEN req'[q].at = "commit"
                       ELSE req'[q].at = "mirror" /\ Related(req[q].who[1], req[q].who[2], {"friend"}) = {}
                 \/ /\ req[q].at = "mirror" /\ req'[q].at = "people" /\ Rest(q)
                    /\ Related(req[q].who[2], req[q].who[1], {"friend"}) = {}
                 \/ req[q].at = "people" /\ req'[q].at = "commit" /\ Rest(q)
<1>1. Is(q, Friendly) /\ ~Is(q, Sends) /\ ~Is(q, Endings) /\ ~Is(q, {"unblock"}) /\ ~Is(q, {"unfriend", "block"})
  BY DEF Is, Friendly, Sends, Answerings, Endings
<1>2. ~CommitSend(q) /\ ~CommitEnding(q)
  BY <1>1 DEF CommitSend, CommitEnding
<1>3. CommitAnswer(q) => req[q].at = "commit" /\ req'[q].at = "done" /\ Rest(q)
  BY Ended DEF CommitAnswer, At, Rest
<1>. QED
  BY <1>1, <1>2, <1>3, FriendSteps, FriendMoves

LEMMA RequestOffered ==
    ASSUME Sound, Known, NEW q \in Reqs, Step(q), BondEffect(q), RequestOffer(q)
    PROVE  /\ RequestOffer(q)'
           /\ Is(q, Answerings) /\ Answered(q, "ok")' => Pending(Op(q).item) # {}
<1>0. PICK item : item = Op(q).item
  OBVIOUS
<1>1. /\ Base /\ RowTypes /\ Op(q)' = Op(q) /\ (\A kinds : Is(q, kinds)' <=> Is(q, kinds)) /\ Stage(q) # "done"
      /\ Typed(q)
  BY StepProgress, Acting DEF Sound, Base, Progress, Is, Stage
<1>2. SUFFICES ASSUME Is(q, Answerings)
               PROVE  /\ req'[q].at \in {"request", "mirror", "people", "commit"} =>
                            \E row \in Relations : Asked(q, row)'
                      /\ req'[q].at \in {"mirror", "people", "commit"} => Pending(item)' # {}
                      /\ req'[q].at = "done" /\ req'[q].answer = "ok" =>
                            /\ Pending(item)' = {} /\ Pending(item) # {}
                            /\ \E row \in Relations : row.id = item /\ Seen(row)'
  BY <1>0, <1>1 DEF RequestOffer, Answered, Stage
<1>3. /\ req[q].at \in {"request", "mirror", "people", "commit"} => \E row \in Relations : Asked(q, row)
      /\ req[q].at \in {"mirror", "people", "commit"} => Pending(item) # {}
  BY <1>0, <1>2 DEF RequestOffer, Stage
<1>4. ASSUME NEW row, Asked(q, row), req'[q].who = req[q].who
      PROVE  Asked(q, row)'
  BY <1>1, <1>4, SeenKept DEF Asked
<1>5. CASE CommitAnswer(q) /\ req[q].at = "commit" /\ req'[q].at = "done" /\ Rest(q)
  <2>1. PICK old \in Relations : old.id = item /\ Seen(old)
    BY <1>0, <1>3, <1>5 DEF Asked
  <2>2. Seen(old)'
    BY <1>1, <2>1, SeenKept
  <2>3. ASSUME NEW now \in relation', now.id = item, now.type = "request"
        PROVE  FALSE
    <3>1. now \notin relation
      <4>1. PICK added : relation' = (relation \ WithId(item)) \cup
                           (IF Is(q, {"withdraw"}) THEN {} ELSE added)
                           /\ \A row \in added : row.type = "friend"
        <5>1. PICK friends, mirrored : /\ friends = {[row EXCEPT !.type = "friend"] : row \in WithId(item)}
                                       /\ mirrored = Relation(<<q, 2>>, req[q].who[2], req[q].who[1], "friend")
          OBVIOUS
        <5>2. relation' = (relation \ WithId(item)) \cup (IF Is(q, {"withdraw"}) THEN {} ELSE friends \cup {mirrored})
          BY <1>0, <1>5, <5>1 DEF CommitAnswer
        <5>3. mirrored.type = "friend"
          BY <5>1, RelationIs
        <5>4. \A row \in WithId(item) : [row EXCEPT !.type = "friend"].type = "friend"
          BY <1>1 DEF RowTypes, WithId, Relations
        <5>5. \A row \in friends \cup {mirrored} : row.type = "friend"
          BY <5>1, <5>3, <5>4
        <5>. QED
          BY <5>2, <5>5
      <4>2. now \in relation \ WithId(item)
        BY <2>3, <4>1
      <4>. QED
        BY <2>3, <4>2 DEF WithId
    <3>2. ~Promoted(q, now)
      BY <1>1, <2>3, PromotedIs
    <3>3. Added(q, now)
      BY <3>1, <3>2 DEF BondEffect
    <3>. QED
      BY <1>1, <2>1, <2>3, <3>3 DEF Added, Seen
  <2>. QED
    BY <1>3, <1>5, <2>1, <2>2, <2>3 DEF Pending, WithId
<1>6. CASE UNCHANGED dataVars
  <2>1. Pending(item)' = Pending(item)
    BY <1>6 DEF dataVars, Pending, WithId
  <2>2. CASE req'[q].at = "done" /\ req'[q].answer # "ok"
    BY <2>2
  <2>3. CASE req'[q].at = "request" /\ \E row \in Pending(Op(q).item) : req'[q].who = <<row.from, row.to>>
    <3>1. PICK row \in Pending(item) : req'[q].who = <<row.from, row.to>>
      BY <1>0, <2>3
    <3>2. row \in Relations /\ row.id = item /\ row.type = "request" /\ Seen(row)
      BY <1>1, <3>1 DEF Pending, WithId, Known, RowTypes, Relations
    <3>3. Asked(q, row)'
      BY <1>0, <1>1, <3>1, <3>2, SeenKept DEF Asked
    <3>. QED
      BY <2>3, <3>2, <3>3
  <2>4. CASE /\ req[q].at = "request" /\ Rest(q) /\ Pending(Op(q).item) # {}
             /\ req'[q].at \in {"mirror", "commit"}
    BY <1>0, <1>3, <1>4, <2>1, <2>4 DEF Rest
  <2>5. CASE req'[q].at = req[q].at /\ Rest(q)
    BY <1>1, <1>3, <1>4, <2>1, <2>5 DEF Rest, Stage
  <2>6. CASE req[q].at \in {"mirror", "people"} /\ req'[q].at \in {"people", "commit"} /\ Rest(q)
    BY <1>3, <1>4, <2>1, <2>6 DEF Rest
  <2>. QED
    BY <1>1, <1>2, <1>5, <2>2, <2>3, <2>4, <2>5, <2>6, AnswerSteps
<1>. QED
  BY <1>1, <1>2, <1>5, <1>6, AnswerSteps

LEMMA SendSteps ==
    ASSUME Base, NEW q \in Reqs, Step(q), Is(q, Sends)
    PROVE  \/ CommitSend(q) /\ req'[q].at = "done"
           \/ /\ UNCHANGED dataVars
              /\ \/ req'[q].at \in {"done", "insert"}
                 \/ req'[q].at = req[q].at /\ Rest(q)
                 \/ /\ Rest(q) /\ Related(req[q].who[1], req[q].who[2], {SentType(q)}) = {}
                    /\ req'[q].at = IF Is(q, {"send"}) THEN "people" ELSE "mirror"
                 \/ /\ req[q].at = "mirror" /\ req'[q].at = "people" /\ Rest(q)
                    /\ Related(req[q].who[2], req[q].who[1], {"friend"}) = {}
                 \/ req[q].at = "people" /\ req'[q].at = "commit" /\ Rest(q)
<1>1. Is(q, Friendly) /\ ~Is(q, Answerings) /\ ~Is(q, Endings) /\ ~Is(q, {"unblock"}) /\ ~Is(q, {"unfriend", "block"})
  BY DEF Is, Friendly, Sends, Answerings, Endings
<1>2. ~CommitAnswer(q) /\ ~CommitEnding(q)
  BY <1>1 DEF CommitAnswer, CommitEnding
<1>3. CommitSend(q) => req'[q].at = "done"
  BY Ended DEF CommitSend
<1>. QED
  BY <1>1, <1>2, <1>3, FriendSteps, FriendMoves

LEMMA BondsOffered ==
    ASSUME Sound, NEW q \in Reqs, Step(q), BondFree(q)
    PROVE  BondFree(q)'
<1>0. PICK x, y : x = req[q].who[1] /\ y = req[q].who[2]
  OBVIOUS
<1>1. Base /\ Op(q)' = Op(q) /\ (\A kinds : Is(q, kinds)' <=> Is(q, kinds)) /\ Stage(q) # "done"
  BY StepProgress, Acting DEF Sound, Base, Progress, Is, Stage
<1>2. SUFFICES ASSUME Is(q, {"befriend", "accept_friend"}), req'[q].at \in {"mirror", "people", "commit"}
               PROVE  BondFree(q)'
  BY <1>1 DEF BondFree, Stage
<1>3. /\ req[q].at \in {"mirror", "people", "commit"} => Related(x, y, {"friend"}) = {}
      /\ req[q].at \in {"people", "commit"} => Related(y, x, {"friend"}) = {}
  BY <1>0, <1>2 DEF BondFree, Stage
<1>4. SUFFICES /\ UNCHANGED dataVars /\ Rest(q) /\ Related(x, y, {"friend"}) = {}
               /\ req'[q].at \in {"people", "commit"} => Related(y, x, {"friend"}) = {}
  <2>1. SUFFICES ASSUME /\ UNCHANGED dataVars /\ Rest(q) /\ Related(x, y, {"friend"}) = {}
                        /\ req'[q].at \in {"people", "commit"} => Related(y, x, {"friend"}) = {}
                 PROVE  BondFree(q)'
    OBVIOUS
  <2>2. Related(x, y, {"friend"})' = Related(x, y, {"friend"}) /\ Related(y, x, {"friend"})' = Related(y, x, {"friend"})
    BY <2>1 DEF dataVars, Related
  <2>. QED
    BY <1>0, <1>2, <2>1, <2>2 DEF BondFree, Rest, Stage
<1>5. CASE Is(q, Sends)
  <2>1. ~Is(q, {"send"}) /\ SentType(q) = "friend"
    BY <1>2 DEF Is, SentType
  <2>. QED
    BY <1>0, <1>2, <1>3, <1>5, <2>1, <1>1, SendSteps
<1>6. CASE Is(q, Answerings)
  <2>1. ~Is(q, {"withdraw"})
    BY <1>2 DEF Is
  <2>. QED
    BY <1>0, <1>2, <1>3, <1>6, <2>1, <1>1, AnswerSteps
<1>. QED
  BY <1>2, <1>5, <1>6 DEF Is, Sends, Answerings

LEMMA EndingSteps ==
    ASSUME Base, NEW q \in Reqs, Step(q), Is(q, Endings)
    PROVE  \/ CommitEnding(q) /\ req'[q].at = "done"
           \/ /\ UNCHANGED dataVars
              /\ \/ req'[q].at \in {"done", "delete", "insert"}
                 \/ req'[q].at = req[q].at /\ Rest(q)
                 \/ /\ Is(q, {"unblock"}) /\ req'[q].at = "unblock"
                    /\ req'[q].rows \subseteq {row \in relation : row.type = "blocked"}
                 \/ /\ Is(q, {"unfriend", "block"}) /\ req'[q].at = "deleted"
                    /\ req'[q].rows = Between(req[q].who[1], req[q].who[2],
                                              IF Is(q, {"block"}) THEN {"friend", "request"} ELSE {"friend"})
                 \/ req[q].at \in {"deleted", "unblock"} /\ req'[q].at = "commit" /\ Rest(q)
<1>1. /\ Is(q, Friendly) /\ ~Is(q, Answerings) /\ ~Is(q, Sends)
      /\ ~Is(q, {"withdraw"}) /\ ~Is(q, {"befriend", "accept_friend"})
  BY DEF Is, Friendly, Sends, Answerings, Endings
<1>2. ~CommitAnswer(q) /\ ~CommitSend(q)
  BY <1>1 DEF CommitAnswer, CommitSend
<1>3. CommitEnding(q) => req'[q].at = "done"
  BY Ended DEF CommitEnding
<1>4. req[q].at \notin {"mirror", "people"}
  <2>1. FriendStaged(q)
    BY <1>1 DEF Base, Staged
  <2>. QED
    BY <1>1, <2>1 DEF FriendStaged, Friendly, Stage
<1>. QED
  BY <1>1, <1>2, <1>3, <1>4, FriendSteps, FriendMoves

LEMMA EndingsOffered ==
    ASSUME Sound, Known, NEW q \in Reqs, Step(q), BondEffect(q), EndingSees(q)
    PROVE  EndingSees(q)'
<1>1. Base /\ Op(q)' = Op(q) /\ (\A kinds : Is(q, kinds)' <=> Is(q, kinds)) /\ Stage(q) # "done"
  BY StepProgress, Acting DEF Sound, Base, Progress, Is, Stage
<1>2. SUFFICES ASSUME Is(q, Endings), req'[q].at \in {"deleted", "unblock", "commit"}
               PROVE  EndingSees(q)'
  BY <1>1 DEF EndingSees, Stage
<1>3. UNCHANGED dataVars
  BY <1>1, <1>2, EndingSteps
<1>4. relation' = relation
  BY <1>3 DEF dataVars
<1>5. PICK rows : rows = req'[q].rows
  OBVIOUS
<1>6. ASSUME \A row \in rows : /\ Seen(row) /\ (row.type = "blocked" <=> Is(q, {"unblock"}))
                               /\ Is(q, {"unfriend"}) => row.type = "friend",
             \/ Is(q, {"block"}) /\ Done({"accept_friend"})
             \/ \A a, b \in relation : Mirrors(a, b) =>
                   ((\E row \in rows : row.id = a.id) <=> (\E row \in rows : row.id = b.id))
      PROVE  EndingSees(q)'
  <2>1. \A row \in rows : Seen(row)'
    BY <1>1, <1>6, SeenKept
  <2>2. \A row : Listed(q, row)' <=> (\E old \in rows : old.id = row.id)
    BY <1>5 DEF Listed
  <2>3. \/ Is(q, {"block"})' /\ Done({"accept_friend"})'
        \/ \A a, b \in relation' : Mirrors(a, b) => (Listed(q, a)' <=> Listed(q, b)')
    BY <1>1, <1>4, <1>6, <2>2, DoneKept
  <2>. QED
    BY <1>1, <1>5, <1>6, <2>1, <2>3 DEF EndingSees, Mirrors
<1>7. CASE Rest(q) /\ req[q].at \in {"deleted", "unblock", "commit"}
  <2>1. rows = req[q].rows
    BY <1>5, <1>7 DEF Rest
  <2>2. \A row : Listed(q, row) <=> (\E old \in rows : old.id = row.id)
    BY <2>1 DEF Listed
  <2>. QED
    BY <1>2, <1>6, <1>7, <2>1, <2>2 DEF EndingSees, Stage
<1>8. CASE Is(q, {"unblock"}) /\ rows \subseteq {row \in relation : row.type = "blocked"}
  <2>1. ~Is(q, {"unfriend"})
    BY <1>8 DEF Is
  <2>2. \A row \in rows : Seen(row) /\ row.type = "blocked"
    BY <1>8 DEF Known
  <2>3. ASSUME NEW a \in relation, NEW row \in rows, row.id = a.id
        PROVE  a.type = "blocked"
    BY <2>2, <2>3 DEF Seen, WithId
  <2>4. \A a, b \in relation : Mirrors(a, b) =>
            ((\E row \in rows : row.id = a.id) <=> (\E row \in rows : row.id = b.id))
    BY <2>3 DEF Mirrors
  <2>. QED
    BY <1>6, <1>8, <2>1, <2>2, <2>4
<1>9. CASE Is(q, {"unfriend", "block"}) /\ \E x, y, types : /\ rows = Between(x, y, types) /\ "friend" \in types
                                                            /\ "blocked" \notin types
                                                            /\ Is(q, {"unfriend"}) => types = {"friend"}
  <2>1. PICK x, y, types : /\ rows = Between(x, y, types) /\ "friend" \in types /\ "blocked" \notin types
                           /\ Is(q, {"unfriend"}) => types = {"friend"}
    BY <1>9
  <2>2. ~Is(q, {"unblock"})
    BY <1>9 DEF Is
  <2>3. \A row : row \in rows <=> /\ row \in relation /\ row.type \in types
                                  /\ (row.from = x /\ row.to = y) \/ (row.from = y /\ row.to = x)
    BY <2>1 DEF Between, Related
  <2>4. \A row \in rows : Seen(row) /\ row.type # "blocked" /\ (Is(q, {"unfriend"}) => row.type = "friend")
    BY <2>1, <2>3 DEF Known
  <2>5. ASSUME NEW a \in relation, NEW b \in relation, Mirrors(a, b), NEW row \in rows, row.id = a.id
        PROVE  b \in rows
    <3>1. row = a
      BY <1>1, <2>3, <2>5, SameId DEF Base
    <3>. QED
      BY <2>1, <2>3, <2>5, <3>1 DEF Mirrors
  <2>6. ASSUME NEW a \in relation, NEW b \in relation, Mirrors(a, b)
        PROVE  (\E row \in rows : row.id = a.id) <=> (\E row \in rows : row.id = b.id)
    <3>1. Mirrors(b, a)
      BY <2>6 DEF Mirrors
    <3>. QED
      BY <2>5, <2>6, <3>1
  <2>. QED
    BY <1>6, <2>2, <2>4, <2>6
<1>10. Is(q, {"unfriend", "block"}) /\ rows = Between(req[q].who[1], req[q].who[2],
                                                IF Is(q, {"block"}) THEN {"friend", "request"} ELSE {"friend"})
       => \E x, y, types : /\ rows = Between(x, y, types) /\ "friend" \in types /\ "blocked" \notin types
                           /\ Is(q, {"unfriend"}) => types = {"friend"}
  <2>1. Is(q, {"unfriend"}) => ~Is(q, {"block"})
    BY DEF Is
  <2>. QED
    BY <2>1
<1>. QED
  BY <1>1, <1>2, <1>5, <1>7, <1>8, <1>9, <1>10, EndingSteps

-----------------------------------------------------------------------------
(* Offers are answered once, and friends are mutual                        *)

LEMMA OnceStep ==
    ASSUME Sound, Known, OfferedOnce, NEW q \in Reqs, Step(q), BondEffect(q), \A r \in Reqs : Offered(r)
    PROVE  OfferedOnce'
<1>1. Base
  BY DEF Sound
<1>2. ASSUME NEW r \in Reqs
      PROVE  /\ Op(r)' = Op(r) /\ \A kinds : Is(r, kinds)' <=> Is(r, kinds)
             /\ r # q => \A answer : Answered(r, answer)' <=> Answered(r, answer)
  BY <1>1, StepProgress DEF Base, Progress, Turn, Is, Op, Answered
<1>3. ASSUME NEW r \in Reqs \ {q}, Answered(q, "ok")', Answered(r, "ok"), Op(q).item = Op(r).item,
             NEW kinds \in {{"accept", "decline"}, Answerings, {"redeem"}}, Is(q, kinds), Is(r, kinds)
      PROVE  FALSE
  <2>0. InviteOffer(q) /\ CodeOffer(q) /\ RequestOffer(q) /\ InviteOffer(r) /\ CodeOffer(r) /\ RequestOffer(r)
    BY DEF Offered
  <2>1. CASE kinds = {"accept", "decline"}
    <3>1. invite[Op(q).item] = "open"
      BY <1>3, <2>0, <2>1, InviteOffered
    <3>2. invite[Op(r).item] # "open"
      BY <1>3, <2>0, <2>1 DEF InviteOffer
    <3>. QED
      BY <1>3, <3>1, <3>2
  <2>2. CASE kinds = Answerings
    <3>1. Pending(Op(q).item) # {}
      BY <1>3, <2>0, <2>2, RequestOffered
    <3>2. Pending(Op(r).item) = {}
      BY <1>3, <2>0, <2>2 DEF RequestOffer
    <3>. QED
      BY <1>3, <3>1, <3>2
  <2>3. CASE kinds = {"redeem"}
    <3>1. code[Op(q).item] = "live"
      BY <1>3, <2>0, <2>3, CodeOffered
    <3>2. Dead(Op(r).item)
      BY <1>3, <2>0, <2>3 DEF CodeOffer
    <3>. QED
      BY <1>3, <3>1, <3>2 DEF Dead
  <2>. QED
    BY <1>3, <2>1, <2>2, <2>3
<1>4. ASSUME NEW a \in Reqs, NEW b \in Reqs, Answered(a, "ok")', Answered(b, "ok")', Op(a)'.item = Op(b)'.item,
             NEW kinds \in {{"accept", "decline"}, Answerings, {"redeem"}}, Is(a, kinds)', Is(b, kinds)'
      PROVE  a = b
  <2>1. CASE a # q /\ b # q
    BY <1>2, <1>4, <2>1 DEF OfferedOnce
  <2>2. CASE a = q /\ b # q
    BY <1>2, <1>3, <1>4, <2>2
  <2>3. CASE a # q /\ b = q
    BY <1>2, <1>3, <1>4, <2>3
  <2>. QED
    BY <2>1, <2>2, <2>3
<1>5. ASSUME NEW a \in Reqs, NEW b \in Reqs, Answered(a, "ok")', Answered(b, "ok")', Op(a)'.item = Op(b)'.item,
             \E kinds \in {{"accept", "decline"}, Answerings, {"redeem"}} : Is(a, kinds)' /\ Is(b, kinds)'
      PROVE  a = b
  BY <1>4, <1>5
<1>. QED
  BY <1>5 DEF OfferedOnce, Answerings

LEMMA MutualStep ==
    ASSUME Sound, Known, FriendsMutual, NEW q \in Reqs, Step(q), Offered(q)
    PROVE  FriendsMutual'
<1>1. Base /\ BondFree(q) /\ RequestOffer(q) /\ EndingSees(q)
  BY DEF Sound, Offered
<1>2. CASE Done({"block"}) /\ Done({"accept_friend"})
  BY <1>1, <1>2, DoneKept DEF FriendsMutual
<1>3. ASSUME \A row \in relation : row.type = "friend" => Related(row.to, row.from, {"friend"}) # {},
             \A old \in relation \ relation' : old.type # "friend",
             \A now \in relation' \ relation : now.type = "friend" => Related(now.to, now.from, {"friend"})' # {}
      PROVE  FriendsMutual'
  <2>1. ASSUME NEW row \in relation', row.type = "friend", row \in relation
        PROVE  Related(row.to, row.from, {"friend"})' # {}
    <3>1. PICK other \in relation : other.from = row.to /\ other.to = row.from /\ other.type = "friend"
      BY <1>3, <2>1 DEF Related
    <3>. QED
      BY <1>3, <3>1 DEF Related
  <2>. QED
    BY <1>3, <2>1 DEF FriendsMutual
<1>4. CASE CommitEnding(q) /\ \A row \in relation : row.type = "friend" => Related(row.to, row.from, {"friend"}) # {}
  <2>1. Is(q, Endings) /\ Stage(q) = "commit"
    BY <1>4 DEF CommitEnding, At, Stage
  <2>2. CASE Is(q, {"block"}) /\ Done({"accept_friend"})
    <3>1. Op(q)' = Op(q) /\ req'[q].at = "done" /\ req'[q].answer = "ok"
      BY <1>1, <1>4, Ended, StepProgress DEF CommitEnding, Base, Progress
    <3>2. Done({"block"})'
      BY <2>2, <3>1 DEF Done, Answered, Is
    <3>. QED
      BY <1>1, <2>2, <3>2, DoneKept DEF FriendsMutual
  <2>3. CASE \A a, b \in relation : Mirrors(a, b) => (Listed(q, a) <=> Listed(q, b))
    <3>1. PICK blocked : blocked = Relation(<<q, 1>>, req[q].who[1], req[q].who[2], "blocked")
      OBVIOUS
    <3>2. blocked.type = "blocked"
      BY <3>1, RelationIs
    <3>3. relation' = (relation \ Remaining(q)) \cup (IF Is(q, {"block"}) THEN {blocked} ELSE {})
      BY <1>4, <3>1 DEF CommitEnding
    <3>4. \A row \in relation : row \in Remaining(q) <=> Listed(q, row)
      BY DEF Remaining, WithId, Listed
    <3>5. ASSUME NEW row \in relation', row.type = "friend"
          PROVE  Related(row.to, row.from, {"friend"})' # {}
      <4>1. row \in relation /\ ~Listed(q, row)
        BY <3>2, <3>3, <3>4, <3>5
      <4>2. PICK other \in relation : other.from = row.to /\ other.to = row.from /\ other.type = "friend"
        BY <1>4, <3>5, <4>1 DEF Related
      <4>3. ~Listed(q, other)
        BY <2>3, <3>5, <4>1, <4>2 DEF Mirrors
      <4>4. other \in relation'
        BY <3>3, <3>4, <4>2, <4>3
      <4>. QED
        BY <4>2, <4>4 DEF Related
    <3>. QED
      BY <3>5 DEF FriendsMutual
  <2>. QED
    BY <1>1, <2>1, <2>2, <2>3 DEF EndingSees
<1>5. CASE CommitSend(q)
  BY <1>1, <1>2, <1>3, <1>5, SendBonds DEF FriendsMutual
<1>6. CASE CommitAnswer(q)
  <2>1. /\ \A old \in relation \ relation' : old.type # "friend"
        /\ \A now \in relation' \ relation : now.type = "friend" => Related(now.to, now.from, {"friend"})' # {}
    BY <1>1, <1>6, AnswerBonds
  <2>. QED
    BY <1>2, <1>3, <2>1 DEF FriendsMutual
<1>7. CASE UNCHANGED relation
  BY <1>2, <1>3, <1>7 DEF FriendsMutual
<1>8. UNCHANGED relation \/ CommitSend(q) \/ CommitAnswer(q) \/ CommitEnding(q)
  BY Quiet DEF Writes, dataVars, CommitIssue, CommitRedeem, CommitUnlink
<1>. QED
  BY <1>2, <1>4, <1>5, <1>6, <1>7, <1>8 DEF FriendsMutual

LEMMA OffersStep ==
    ASSUME Sound, Offers, NEW q \in Reqs, Step(q)
    PROVE  Offers'
<1>1. Base /\ Known /\ OfferedOnce /\ FriendsMutual /\ \A r \in Reqs : Offered(r)
  BY DEF Sound, Offers
<1>2. BondEffect(q) /\ (\A i \in Invites : InviteEffect(q, i)) /\ \A c \in Codes : CodeEffect(q, c)
  BY BondEffects, InviteEffects, CodeEffects
<1>3. Writes(q) \/ UNCHANGED relation
  BY Quiet DEF dataVars
<1>4. Known' /\ OfferedOnce' /\ FriendsMutual'
  BY <1>1, <1>2, <1>3, KnownKept, OnceStep, MutualStep
<1>5. ASSUME NEW r \in Reqs \ {q}
      PROVE  Offered(r)'
  <2>1. req'[r] = req[r] /\ held'[r] = held[r]
    BY <1>1, StepProgress DEF Progress, Turn
  <2>. QED
    BY <1>1, <1>2, <2>1, InviteOfferKept, CodeOfferKept, RequestOfferKept, BondFreeKept, EndingSeesKept DEF Offered
<1>6. Offered(q)'
  BY <1>1, <1>2, InviteOffered, CodeOffered, RequestOffered, BondsOffered, EndingsOffered DEF Offered
<1>. QED
  BY <1>4, <1>5, <1>6 DEF Offers

LEMMA OffersStutter ==
    ASSUME Offers, UNCHANGED vars
    PROVE  Offers'
<1>1. UNCHANGED <<req, invite, code, relation>>
  BY DEF vars, dataVars, rowVars, peopleVars
<1>2. Known' /\ \A row : Seen(row)' <=> Seen(row)
  BY <1>1 DEF Offers, Known, Seen, WithId, Stage
<1>3. OfferedOnce' /\ FriendsMutual'
  BY <1>1 DEF Offers, OfferedOnce, FriendsMutual, Done, Answered, Is, Op, Related
<1>4. ASSUME NEW r \in Reqs
      PROVE  Offered(r)'
  <2>1. InviteOffer(r)' /\ CodeOffer(r)'
    BY <1>1 DEF Offers, Offered, InviteOffer, CodeOffer, Dead, Is, Op, Stage, Answered
  <2>2. RequestOffer(r)'
    BY <1>1, <1>2 DEF Offers, Offered, RequestOffer, Asked, Is, Op, Stage, Answered, Pending, WithId, Relations
  <2>3. BondFree(r)'
    BY <1>1 DEF Offers, Offered, BondFree, Is, Op, Stage, Related
  <2>4. EndingSees(r)'
    BY <1>1, <1>2 DEF Offers, Offered, EndingSees, Is, Op, Stage, Listed, Mirrors, Done, Answered
  <2>. QED
    BY <2>1, <2>2, <2>3, <2>4 DEF Offered
<1>. QED
  BY <1>2, <1>3, <1>4 DEF Offers

LEMMA OffersInit ==
    ASSUME Init
    PROVE  Offers
<1>1. Consistent /\ Base
  BY SoundInit DEF Init, Sound
<1>2. ASSUME NEW r \in Reqs
      PROVE  Stage(r) = "begin" /\ \A answer : ~Answered(r, answer)
  <2>1. req[r] = Fresh(Op(r))
    BY <1>2 DEF Init
  <2>. QED
    BY <2>1 DEF Fresh, Stage, Answered
<1>3. ASSUME NEW row \in relation
      PROVE  Seen(row)
  <2>1. row.id[1] \notin Reqs
    BY <1>1, IdentityLinksAssumption DEF Consistent
  <2>2. \A now \in relation : now.id = row.id => now = row
    BY <1>1 DEF Consistent
  <2>. QED
    BY <2>1, <2>2 DEF Seen, WithId
<1>4. OfferedOnce
  BY <1>2 DEF OfferedOnce
<1>5. FriendsMutual
  BY <1>1 DEF Consistent, FriendsMutual
<1>6. \A r \in Reqs : Offered(r)
  BY <1>2 DEF Offered, InviteOffer, CodeOffer, RequestOffer, BondFree, EndingSees
<1>. QED
  BY <1>3, <1>4, <1>5, <1>6 DEF Offers, Known

\* What is offered stays open under its lock, and what an answer, a friendship or its
\* end is about to write is as it was found: the invariant behind the next two theorems.
THEOREM OffersHold == Spec => [](Sound /\ Offers)
<1>1. Init => Sound /\ Offers
  BY SoundInit, OffersInit
<1>2. Sound /\ Offers /\ [Next]_vars => (Sound /\ Offers)'
  <2>1. ASSUME Sound /\ Offers, NEW q \in Reqs, Step(q) PROVE (Sound /\ Offers)'
    BY <2>1, SoundStep, OffersStep
  <2>2. ASSUME Sound /\ Offers, UNCHANGED vars PROVE (Sound /\ Offers)'
    BY <2>2, SoundSame, OffersStutter
  <2>. QED
    BY <2>1, <2>2 DEF Next
<1>. QED
  BY <1>1, <1>2, PTL DEF Spec

\* An invitation, a friend request and a link code are answered once, however
\* accepts, declines, withdrawals and redeems of the same one cross.
THEOREM OffersOnce == Spec => []OfferedOnce
<1>1. Sound /\ Offers => OfferedOnce
  BY DEF Offers
<1>. QED
  BY <1>1, OffersHold, PTL

\* A friendship is on both sides or on none after every commit, for any requests;
\* but where a block had listed a request that was accepted before it deleted.
THEOREM FriendsStay == Spec => []FriendsMutual
<1>1. Sound /\ Offers => FriendsMutual
  BY DEF Offers
<1>. QED
  BY <1>1, OffersHold, PTL

-----------------------------------------------------------------------------
(* A redeem joins its two ids                                              *)

\* What a step may do to whom the ids belong to.
JoinEffect(q) ==
    /\ \A p \in People : person[p] = "gone" => person'[p] = "gone"
    /\ \/ personOf' = personOf
       \/ LET to == req[q].who[1]
              from == req[q].who[2]
          IN  /\ from \in People /\ person'[from] = "gone"
              /\ \A u \in Users : personOf'[u] = IF personOf[u] = from THEN to ELSE personOf[u]
       \/ /\ Is(q, {"unlink"}) /\ Answered(q, "ok")' /\ req'[q].rows = req[q].rows
          /\ \A u \in Users \ {Op(q).users[1]} : personOf'[u] = personOf[u]
          /\ \A c \in req[q].rows : Owns(q, <<"code", c>>) /\ Dead(c)'

LEMMA JoinEffects ==
    ASSUME Sound, NEW q \in Reqs, Step(q)
    PROVE  JoinEffect(q)
<1>1. Base /\ RowTypes /\ Typed(q) /\ Staged(q) /\ LinkFinds(q) /\ Effects(q)
  BY SoundStep DEF Sound, Base, Finds
<1>2. \A p \in People : person[p] = "gone" => person'[p] = "gone"
  <2>1. \A p \in People : PersonEffect(q, p)
    BY <1>1 DEF Effects
  <2>. QED
    BY <2>1 DEF PersonEffect
<1>3. CASE CommitRedeem(q)
  <2>1. Is(q, {"redeem"}) /\ Is(q, LinkOps) /\ Stage(q) = "commit"
    BY <1>3 DEF CommitRedeem, At, Stage, Is, LinkOps
  <2>2. Len(req[q].who) = 2
    BY <1>1, <2>1 DEF Staged, LinkStaged
  <2>3. CASE Cardinality(Range(req[q].who)) = 1
    BY <1>2, <1>3, <2>3 DEF CommitRedeem, JoinEffect
  <2>4. CASE Cardinality(Range(req[q].who)) # 1
    <3>1. req[q].who[1] # req[q].who[2]
      BY <1>1, <2>2, <2>4, TwoOf DEF Typed, Record
    <3>2. req[q].who[2] \in People
      BY <1>1, <2>1, <3>1, MergeOwns DEF Merging
    <3>3. Merge(q)
      BY <1>3, <2>4 DEF CommitRedeem
    <3>4. person'[req[q].who[2]] = "gone"
      BY <1>1, <3>2, <3>3 DEF Merge, RowTypes
    <3>5. \A u \in Users : personOf'[u] = IF personOf[u] = req[q].who[2] THEN req[q].who[1] ELSE personOf[u]
      BY <3>3 DEF Merge
    <3>. QED
      BY <1>2, <3>2, <3>4, <3>5 DEF JoinEffect
  <2>. QED
    BY <2>3, <2>4
<1>4. CASE CommitUnlink(q)
  <2>1. At(q, "commit") /\ Is(q, {"unlink"}) /\ Is(q, LinkOps) /\ Stage(q) = "commit"
    BY <1>4 DEF CommitUnlink, At, Stage, Is, LinkOps
  <2>2. CodeLocks(req[q].rows) \subseteq Locks(q) /\ req[q].rows \subseteq Codes
    BY <1>1, <2>1 DEF Staged, LinkStaged
  <2>3. req'[q].at = "done" /\ req'[q].answer = "ok" /\ req'[q].rows = req[q].rows
    BY <1>1, <1>4, Ended DEF CommitUnlink
  <2>4. ASSUME NEW c \in req[q].rows
        PROVE  Owns(q, <<"code", c>>) /\ Dead(c)'
    <3>1. Owns(q, <<"code", c>>)
      BY <1>1, <2>1, <2>2, <2>4, CommitOwns DEF CodeLocks
    <3>2. code'[c] = "deleted"
      BY <1>4, <2>2, <2>4 DEF CommitUnlink, Without
    <3>. QED
      BY <3>1, <3>2 DEF Dead
  <2>5. \A u \in Users \ {Op(q).users[1]} : personOf'[u] = personOf[u]
    BY <1>1, <1>4 DEF CommitUnlink, RowTypes
  <2>. QED
    BY <1>2, <2>1, <2>3, <2>4, <2>5 DEF JoinEffect, Answered
<1>5. CASE personOf' = personOf
  BY <1>2, <1>5 DEF JoinEffect
<1>6. personOf' = personOf \/ CommitRedeem(q) \/ CommitUnlink(q)
  BY Quiet DEF Writes, dataVars, peopleVars, CommitIssue, CommitSend, CommitAnswer, CommitEnding, CommitEntry,
     CommitChange, CommitGroup, WriteInvite
<1>. QED
  BY <1>3, <1>4, <1>5, <1>6

\* An answered unlink stays answered, with the codes it had read.
LEMMA LeftKept ==
    ASSUME Base, NEW q \in Reqs, Step(q), NEW r \in Reqs, Op(r)' = Op(r)
    PROVE  (Left(r) => Left(r)') /\ (LeftLate(r) => LeftLate(r)')
<1>1. ASSUME NEW p \in Reqs, Answered(p, "ok")
      PROVE  /\ Answered(p, "ok")' /\ Op(p)' = Op(p) /\ req'[p].rows = req[p].rows
             /\ \A kinds : Is(p, kinds)' <=> Is(p, kinds)
  <2>1. p # q
    BY <1>1, Acting DEF Answered
  <2>2. req'[p] = req[p]
    BY <2>1, StepProgress DEF Progress, Turn
  <2>. QED
    BY <1>1, <2>2 DEF Answered, Op, Is
<1>2. Left(r) => Left(r)'
  <2>1. SUFFICES ASSUME NEW p \in Reqs, Is(p, {"unlink"}), Answered(p, "ok"), Op(p).users = Op(r).users
                 PROVE  Left(r)'
    BY DEF Left
  <2>. QED
    BY <1>1, <2>1 DEF Left
<1>3. LeftLate(r) => LeftLate(r)'
  <2>1. SUFFICES ASSUME NEW p \in Reqs, Is(p, {"unlink"}), Answered(p, "ok"), Op(p).users[1] = Op(r).item[1],
                        Op(r).item \notin req[p].rows
                 PROVE  LeftLate(r)'
    BY DEF LeftLate
  <2>. QED
    BY <1>1, <2>1 DEF LeftLate
<1>. QED
  BY <1>2, <1>3

LEMMA JoinKept ==
    ASSUME Sound, NEW q \in Reqs, Step(q), JoinEffect(q), \A c \in Codes : CodeEffect(q, c),
           NEW r \in Reqs \ {q}, req'[r] = req[r], held'[r] = held[r], JoinFinds(r)
    PROVE  JoinFinds(r)'
<1>0. PICK u, w, c : u = Op(r).users[1] /\ w = Op(r).item[1] /\ c = Op(r).item
  OBVIOUS
<1>1. /\ Stage(r)' = Stage(r) /\ Op(r)' = Op(r) /\ (\A kinds : Is(r, kinds)' <=> Is(r, kinds))
      /\ req'[r].who = req[r].who /\ Members(r)' = Members(r)
  BY SameRequest
<1>2. SUFFICES ASSUME Is(r, {"redeem"}) PROVE JoinFinds(r)'
  BY <1>1 DEF JoinFinds
<1>3. Base /\ Typed(r) /\ Is(r, LinkOps) /\ LinkStaged(r) /\ Op(q)' = Op(q) /\ \A kinds : Is(q, kinds)' <=> Is(q, kinds)
  BY <1>2, StepProgress DEF Sound, Base, Staged, Is, LinkOps, Progress
<1>4. u \in Users /\ w \in Users /\ c \in Codes
  <2>1. Is(r, (Entries \ {"import"}) \cup Changes \cup LinkOps)
    BY <1>3 DEF Is
  <2>. QED
    BY <1>0, <1>2, <1>3, <2>1, Names
<1>5. Members(r) \subseteq People
  <2>1. req[r].who \in Seq(People)
    BY <1>3 DEF Typed, Record
  <2>. QED
    BY <2>1, ElementOfSeq DEF Members, Range
<1>6. (Left(r) => Left(r)') /\ (LeftLate(r) => LeftLate(r)') /\ (Absorbed(r) => Absorbed(r)') /\ (Revoked(r) => Revoked(r)')
  <2>1. Absorbed(r) => Absorbed(r)'
    BY <1>1, <1>5 DEF Absorbed, JoinEffect
  <2>2. Dead(c) => Dead(c)'
    <3>1. CodeEffect(q, c)
      BY <1>4
    <3>. QED
      BY <3>1 DEF CodeEffect, Dead
  <2>3. Revoked(r) => Revoked(r)'
    BY <1>0, <1>1, <2>2 DEF Revoked
  <2>. QED
    BY <1>1, <1>3, <2>1, <2>3, LeftKept
<1>7. /\ Stage(r) \in {"issuer", "code", "counts", "people", "commit"} =>
            personOf[u] \in Members(r) \/ Left(r) \/ Absorbed(r)
      /\ Stage(r) \in {"code", "counts", "people", "commit"} =>
            personOf[w] \in Members(r) \/ LeftLate(r) \/ Revoked(r) \/ Absorbed(r)
      /\ Stage(r) \in {"code", "commit"} /\ req[r].who[1] = req[r].who[2] =>
            personOf[u] = personOf[w] \/ Left(r) \/ LeftLate(r) \/ Revoked(r)
  BY <1>0, <1>2 DEF JoinFinds
<1>8. Is(q, {"unlink"}) /\ Answered(q, "ok")' /\ u = Op(q).users[1] => Left(r)'
  <2>1. SUFFICES ASSUME Is(q, {"unlink"}), Answered(q, "ok")', u = Op(q).users[1] PROVE Left(r)'
    OBVIOUS
  <2>2. Op(q).users = Op(r).users
    <3>1. /\ Len(Op(q).users) = 1 /\ Len(Op(r).users) = 1
          /\ Op(q).users \in Seq(Users) /\ Op(r).users \in Seq(Users)
      <4>1. Legal(Op(q)) /\ Legal(Op(r))
        BY <1>3 DEF Base, Typed
      <4>. QED
        BY <1>2, <2>1, <4>1 DEF Legal, Is, LinkOps
    <3>2. \A s, t \in Seq(Users) : Len(s) = 1 /\ Len(t) = 1 /\ s[1] = t[1] => s = t
      OBVIOUS
    <3>. QED
      BY <1>0, <2>1, <3>1, <3>2
  <2>. QED
    BY <1>1, <1>3, <2>1, <2>2 DEF Left
<1>9. /\ Is(q, {"unlink"}) /\ Answered(q, "ok")' /\ req'[q].rows = req[q].rows /\ w = Op(q).users[1]
      /\ \A d \in req[q].rows : Owns(q, <<"code", d>>) /\ Dead(d)'
      /\ Stage(r) \in {"code", "counts", "people", "commit"}
      => LeftLate(r)' \/ Revoked(r)'
  <2>1. SUFFICES ASSUME Is(q, {"unlink"}), Answered(q, "ok")', req'[q].rows = req[q].rows, w = Op(q).users[1],
                        \A d \in req[q].rows : Owns(q, <<"code", d>>) /\ Dead(d)',
                        Stage(r) \in {"code", "counts", "people", "commit"}
                 PROVE  LeftLate(r)' \/ Revoked(r)'
    OBVIOUS
  <2>2. CASE c \notin req[q].rows
    BY <1>0, <1>1, <1>3, <2>1, <2>2 DEF LeftLate
  <2>3. CASE c \in req[q].rows
    <3>1. Stage(r) = "code" \/ <<"code", c>> \in held[r]
      BY <1>0, <1>2, <1>3, <2>1 DEF LinkStaged
    <3>2. Stage(r) = "code"
      BY <2>1, <2>3, <3>1, NotOwned
    <3>. QED
      BY <1>0, <1>1, <2>1, <2>3, <3>2 DEF Revoked
  <2>. QED
    BY <2>2, <2>3
<1>10. CASE personOf' = personOf
  BY <1>0, <1>1, <1>6, <1>7, <1>10 DEF JoinFinds
<1>11. CASE LET to == req[q].who[1]
                from == req[q].who[2]
            IN  /\ from \in People /\ person'[from] = "gone"
                /\ \A x \in Users : personOf'[x] = IF personOf[x] = from THEN to ELSE personOf[x]
  <2>1. \A x \in Users : personOf[x] \in Members(r) => personOf'[x] = personOf[x] \/ Absorbed(r)'
    BY <1>1, <1>11 DEF Absorbed
  <2>2. personOf[u] = personOf[w] => personOf'[u] = personOf'[w]
    BY <1>4, <1>11
  <2>3. (personOf[u] \in Members(r) => personOf'[u] \in Members(r) \/ Absorbed(r)')
        /\ (personOf[w] \in Members(r) => personOf'[w] \in Members(r) \/ Absorbed(r)')
    BY <1>4, <2>1
  <2>. QED
    BY <1>0, <1>1, <1>6, <1>7, <2>2, <2>3 DEF JoinFinds
<1>12. CASE /\ Is(q, {"unlink"}) /\ Answered(q, "ok")' /\ req'[q].rows = req[q].rows
            /\ \A x \in Users \ {Op(q).users[1]} : personOf'[x] = personOf[x]
            /\ \A d \in req[q].rows : Owns(q, <<"code", d>>) /\ Dead(d)'
  <2>1. personOf'[u] = personOf[u] \/ Left(r)'
    BY <1>4, <1>8, <1>12
  <2>2. Stage(r) \in {"code", "counts", "people", "commit"} =>
            personOf'[w] = personOf[w] \/ LeftLate(r)' \/ Revoked(r)'
    BY <1>4, <1>9, <1>12
  <2>. QED
    BY <1>0, <1>1, <1>6, <1>7, <2>1, <2>2 DEF JoinFinds
<1>. QED
  BY <1>10, <1>11, <1>12 DEF JoinEffect

LEMMA JoinFound ==
    ASSUME Sound, NEW q \in Reqs, Step(q), JoinFinds(q)
    PROVE  JoinFinds(q)'
<1>0. PICK u, w, c : u = Op(q).users[1] /\ w = Op(q).item[1] /\ c = Op(q).item
  OBVIOUS
<1>1. /\ Base /\ AllHere /\ Op(q)' = Op(q) /\ (\A kinds : Is(q, kinds)' <=> Is(q, kinds)) /\ Stage(q) # "done" /\ Typed(q)
  BY StepProgress, Acting DEF Sound, Base, Progress, Is, Stage, RowsHold
<1>2. SUFFICES ASSUME Is(q, {"redeem"}), req'[q].at # "done" PROVE JoinFinds(q)'
  BY <1>1 DEF JoinFinds, Stage
<1>3. Is(q, LinkOps) /\ LinkStaged(q) /\ req[q].who \in Seq(People)
  BY <1>1, <1>2 DEF Base, Staged, Is, LinkOps, Typed, Record
<1>4. u \in Users /\ w \in Users /\ c \in Codes
  <2>1. Is(q, (Entries \ {"import"}) \cup Changes \cup LinkOps)
    BY <1>3 DEF Is
  <2>. QED
    BY <1>0, <1>1, <1>2, <2>1, Names
<1>5. /\ req[q].at \in {"issuer", "code", "counts", "people", "commit"} =>
            personOf[u] \in Members(q) \/ Left(q) \/ Absorbed(q)
      /\ req[q].at \in {"code", "counts", "people", "commit"} =>
            personOf[w] \in Members(q) \/ LeftLate(q) \/ Revoked(q) \/ Absorbed(q)
      /\ req[q].at \in {"code", "commit"} /\ req[q].who[1] = req[q].who[2] =>
            personOf[u] = personOf[w] \/ Left(q) \/ LeftLate(q) \/ Revoked(q)
  BY <1>0, <1>2 DEF JoinFinds, Stage
<1>6. UNCHANGED dataVars
  BY <1>1, <1>2, RedeemSteps
<1>7. /\ personOf' = personOf /\ person' = person /\ code' = code
      /\ (Left(q) => Left(q)') /\ (LeftLate(q) => LeftLate(q)')
  BY <1>1, <1>6, LeftKept DEF dataVars, peopleVars
<1>8. CASE /\ Members(q)' = Members(q) /\ req'[q].at # "issuer"
           /\ req[q].at = "code" => code[c] = "live" \/ req'[q].at = "code"
           /\ req[q].at \in {"code", "counts", "people", "commit"}
           /\ \/ req'[q].at \notin {"code", "commit"} \/ req'[q].who[1] # req'[q].who[2]
              \/ req'[q].who = req[q].who /\ req[q].at \in {"code", "commit"}
  <2>1. (Absorbed(q) => Absorbed(q)') /\ (Revoked(q) => Revoked(q)')
    BY <1>0, <1>1, <1>7, <1>8 DEF Absorbed, Revoked, Dead, Stage
  <2>. QED
    BY <1>0, <1>1, <1>5, <1>7, <1>8, <2>1 DEF JoinFinds, Stage
<1>9. CASE req'[q].at = req[q].at /\ Rest(q)
  <2>1. Members(q)' = Members(q)
    BY <1>9 DEF Rest, Members
  <2>2. CASE req[q].at = "issuer"
    <3>1. Absorbed(q) => Absorbed(q)'
      BY <1>7, <2>1 DEF Absorbed
    <3>. QED
      BY <1>0, <1>1, <1>5, <1>7, <1>9, <2>1, <2>2, <3>1 DEF JoinFinds, Stage
  <2>3. CASE req[q].at = "begin"
    BY <1>1, <1>9, <2>3 DEF JoinFinds, Stage
  <2>4. CASE req[q].at \in {"code", "counts", "people", "commit"}
    BY <1>8, <1>9, <2>1, <2>4 DEF Rest
  <2>. QED
    BY <1>1, <1>2, <1>3, <2>2, <2>3, <2>4 DEF LinkStaged, Stage
<1>10. CASE req[q].at = "begin" /\ req'[q].at = "issuer" /\ req'[q].who = <<personOf[Op(q).users[1]]>>
  <2>1. PICK p : p = personOf[u]
    OBVIOUS
  <2>2. req'[q].who = <<p>>
    BY <1>0, <1>10, <2>1
  <2>3. Members(q)' = {p}
    BY <2>2 DEF Members, Range
  <2>. QED
    BY <1>0, <1>1, <1>7, <1>10, <2>1, <2>3 DEF JoinFinds, Stage
<1>11. CASE /\ req[q].at = "issuer" /\ req'[q].at = "code"
            /\ req'[q].who = <<personOf[Op(q).item[1]]>> \o req[q].who
  <2>1. PICK p, o : p = personOf[w] /\ o = req[q].who[1]
    OBVIOUS
  <2>2. Len(req[q].who) = 1 /\ Members(q) = {o} /\ o \in People /\ p \in People
    BY <1>1, <1>2, <1>3, <1>4, <1>11, <2>1, OneOf DEF LinkStaged, Stage, Members, Base, RowTypes
  <2>3. req'[q].who = <<p>> \o req[q].who /\ Len(req'[q].who) = 2 /\ req'[q].who[1] = p /\ req'[q].who[2] = o
        /\ req'[q].who \in Seq(People)
    <3>1. req'[q].who = <<p>> \o req[q].who
      BY <1>0, <1>11, <2>1
    <3>. QED
      BY <1>3, <2>1, <2>2, <3>1
  <2>4. Members(q)' = {p, o}
    BY <2>3, TwoOf DEF Members
  <2>5. Absorbed(q) => person[o] = "gone" /\ Absorbed(q)'
    BY <1>7, <2>2, <2>4 DEF Absorbed
  <2>6. person[p] = "here"
    BY <1>1, <1>4, <2>1 DEF AllHere, Here
  <2>7. personOf[u] = o \/ Left(q) \/ person[o] = "gone"
    BY <1>5, <1>11, <2>2, <2>5
  <2>. QED
    BY <1>0, <1>1, <1>5, <1>7, <1>11, <2>1, <2>2, <2>3, <2>4, <2>5, <2>6, <2>7 DEF JoinFinds, Stage
<1>12. CASE /\ req[q].at = "code" /\ code[Op(q).item] = "live" /\ Rest(q)
            /\ req'[q].at \in {"commit", "counts"}
  <2>1. Members(q)' = Members(q) /\ req'[q].who = req[q].who
    BY <1>12 DEF Rest, Members
  <2>. QED
    BY <1>0, <1>8, <1>12, <2>1
<1>13. CASE req[q].at = "counts" /\ req'[q].at = "people" /\ Rest(q)
  <2>1. Members(q)' = Members(q)
    BY <1>13 DEF Rest, Members
  <2>. QED
    BY <1>8, <1>13, <2>1
<1>14. CASE req[q].at = "people" /\ req'[q].at = "commit" /\ req'[q].who = <<Survivor(q), Attached(q)>>
  <2>1. PICK to, from : to = Survivor(q) /\ from = Attached(q)
    OBVIOUS
  <2>2. req[q].who[1] # req[q].who[2] /\ Members(q) = {req[q].who[1], req[q].who[2]}
    BY <1>2, <1>3, <1>14, TwoOf DEF LinkStaged, Stage, Members
  <2>3. to # from /\ {to, from} = Members(q)
    BY <2>1, <2>2 DEF Survivor, Attached
  <2>4. req'[q].who = <<to, from>>
    BY <1>14, <2>1
  <2>5. Members(q)' = {to, from} /\ req'[q].who[1] # req'[q].who[2]
    BY <2>3, <2>4 DEF Members, Range
  <2>. QED
    BY <1>8, <1>14, <2>3, <2>5
<1>. QED
  BY <1>1, <1>2, <1>9, <1>10, <1>11, <1>12, <1>13, <1>14, RedeemSteps, RedeemMoves

LEMMA JoinStep ==
    ASSUME Sound, JoinAll, NEW q \in Reqs, Step(q)
    PROVE  JoinAll'
<1>1. Base /\ JoinEffect(q) /\ \A c \in Codes : CodeEffect(q, c)
  BY JoinEffects, CodeEffects DEF Sound
<1>2. ASSUME NEW r \in Reqs \ {q}
      PROVE  JoinFinds(r)'
  <2>1. req'[r] = req[r] /\ held'[r] = held[r]
    BY <1>1, StepProgress DEF Progress, Turn
  <2>. QED
    BY <1>1, <2>1, JoinKept DEF JoinAll
<1>3. JoinFinds(q)'
  BY JoinFound DEF JoinAll
<1>. QED
  BY <1>2, <1>3 DEF JoinAll

LEMMA JoinInit ==
    ASSUME Init
    PROVE  JoinAll
<1>1. ASSUME NEW r \in Reqs
      PROVE  Stage(r) = "begin"
  <2>1. req[r] = Fresh(Op(r))
    BY <1>1 DEF Init
  <2>. QED
    BY <2>1 DEF Fresh, Stage
<1>. QED
  BY <1>1 DEF JoinAll, JoinFinds

\* A redeem commits where its two ids are with the people it found, and they are here.
LEMMA Joined ==
    ASSUME Sound, JoinAll, NEW q \in Reqs, CommitRedeem(q)
    PROVE  personOf'[Op(q).users[1]] = personOf'[Op(q).item[1]] \/ Left(q) \/ LeftLate(q)
<1>0. PICK u, w, to, from : /\ u = Op(q).users[1] /\ w = Op(q).item[1]
                            /\ to = req[q].who[1] /\ from = req[q].who[2]
  OBVIOUS
<1>1. /\ Is(q, {"redeem"}) /\ Is(q, LinkOps) /\ Stage(q) = "commit" /\ Typed(q) /\ LinkStaged(q)
      /\ LinkFinds(q) /\ JoinFinds(q)
  BY DEF CommitRedeem, At, Stage, Is, LinkOps, Sound, Base, Staged, Finds, JoinAll
<1>2. req[q].who \in Seq(People) /\ Len(req[q].who) = 2
  BY <1>1 DEF LinkStaged, Typed, Record
<1>3. Members(q) = {to, from} /\ (Cardinality(Range(req[q].who)) = 1 <=> to = from)
  BY <1>0, <1>2, TwoOf DEF Members
<1>4. u \in Users /\ w \in Users
  <2>1. Is(q, (Entries \ {"import"}) \cup Changes \cup LinkOps)
    BY <1>1 DEF Is
  <2>. QED
    BY <1>0, <1>1, <2>1, Names
<1>5. CASE to = from
  <2>1. personOf[u] = personOf[w] \/ Left(q) \/ LeftLate(q)
    BY <1>0, <1>1, <1>5 DEF JoinFinds, Revoked
  <2>2. personOf' = personOf
    BY <1>3, <1>5 DEF CommitRedeem
  <2>. QED
    BY <1>0, <2>1, <2>2
<1>6. CASE to # from
  <2>1. ~Absorbed(q)
    BY <1>0, <1>1, <1>3, <1>6 DEF LinkFinds, Here, Absorbed
  <2>2. (personOf[u] \in {to, from} \/ Left(q)) /\ (personOf[w] \in {to, from} \/ LeftLate(q))
    BY <1>0, <1>1, <1>3, <2>1 DEF JoinFinds, Revoked
  <2>3. \A x \in Users : personOf'[x] = IF personOf[x] = from THEN to ELSE personOf[x]
    BY <1>0, <1>3, <1>6 DEF CommitRedeem, Merge
  <2>4. (personOf[u] \in {to, from} => personOf'[u] = to) /\ (personOf[w] \in {to, from} => personOf'[w] = to)
    BY <1>4, <2>3
  <2>. QED
    BY <1>0, <2>2, <2>4
<1>. QED
  BY <1>5, <1>6

LEMMA JoinsHold == Spec => [](Sound /\ JoinAll)
<1>1. Init => Sound /\ JoinAll
  BY SoundInit, JoinInit
<1>2. Sound /\ JoinAll /\ [Next]_vars => (Sound /\ JoinAll)'
  <2>1. ASSUME Sound /\ JoinAll, NEW q \in Reqs, Step(q) PROVE (Sound /\ JoinAll)'
    BY <2>1, SoundStep, JoinStep
  <2>2. ASSUME Sound /\ JoinAll, UNCHANGED vars PROVE (Sound /\ JoinAll)'
    <3>1. JoinAll'
      BY <2>2 DEF vars, JoinAll, JoinFinds, Left, LeftLate, Revoked, Absorbed, Dead, Members, Stage, Is, Op, Answered
    <3>. QED
      BY <2>2, <3>1, SoundSame
  <2>. QED
    BY <2>1, <2>2 DEF Next
<1>. QED
  BY <1>1, <1>2, PTL DEF Spec

\* A redeem that is answered leaves the two ids of its code with one person, whatever
\* merges and unlinks them meanwhile; unless its own id was unlinked since it was
\* resolved, or the other by an unlink that had read the codes before this one.
THEOREM LinksJoin == Spec => LinkJoins
<1>. DEFINE A == \A r \in Reqs : Commits(r, {"redeem"}) =>
                    \/ personOf'[Op(r).users[1]] = personOf'[Op(r).item[1]]
                    \/ \E q \in Reqs : /\ Is(q, {"unlink"}) /\ Answered(q, "ok")
                                       /\ \/ Op(q).users = Op(r).users
                                          \/ Op(q).users[1] = Op(r).item[1] /\ Op(r).item \notin req[q].rows
<1>1. Sound /\ JoinAll /\ [Next]_vars => A \/ UNCHANGED vars
  <2>1. ASSUME Sound, JoinAll, NEW q \in Reqs, Step(q), NEW r \in Reqs, Commits(r, {"redeem"})
        PROVE  CommitRedeem(q) /\ r = q
    <3>1. Base /\ Base' /\ Typed(r) /\ Typed(r)' /\ Is(r, {"redeem"}) /\ req[r].at = "commit" /\ req'[r].answer = "ok"
      BY <2>1, BaseStep DEF Sound, Base, Commits, At
    <3>2. req[r].answer = "none"
      BY <3>1 DEF Typed
    <3>3. r = q
      BY <2>1, <3>1, <3>2, StepProgress DEF Progress, Turn
    <3>4. req'[q].at = "done"
      BY <3>1, <3>3 DEF Typed
    <3>. QED
      BY <2>1, <3>1, <3>3, <3>4, RedeemSteps, RedeemMoves
  <2>2. ASSUME Sound, JoinAll, NEW q \in Reqs, Step(q) PROVE A
    BY <2>1, <2>2, Joined DEF Left, LeftLate
  <2>. QED
    BY <2>2 DEF Next
<1>. QED
  BY <1>1, JoinsHold, PTL DEF Spec, LinkJoins

-----------------------------------------------------------------------------
(* Limits per person: what a request counted under the locks of its counts *)

\* The live groups of a kind in which a person is active.
Tally(k, p) ==
    {g \in Groups : /\ Live(g) /\ KindOf[g] = k
                    /\ \E id \in InGroup(g) : member[id].person = p /\ member[id].status = "active"}

Fits(k, S) == k \in Capped => Cardinality(S) <= MaxPerUser[k]

\* Another restore of its group has gone through.
Restored(r) == \E q \in Reqs \ {r} : Is(q, {"restore"}) /\ Group(q) = Group(r) /\ Answered(q, "ok")

\* What gets past the limits.
Outrun ==
    \/ Done({"redeem"}) /\ Done({"add", "import", "restore"})
    \/ \E r \in Reqs : Is(r, {"restore"}) /\ Answered(r, "ok") /\ Restored(r)

\* A row that an entry changes is of somebody it counts for, who may be merged away.
RowsTraced(r) ==
    Is(r, Entries) /\ Stage(r) \in Roomy \cup {"counts"} =>
        \A id \in req[r].rows : Exists(id) =>
            \E p \in Members(r) : member[id].person = p \/ (person[p] = "gone" /\ Done({"redeem"}))

\* The members of a deleted group are those that its restore listed.
ListTraced(r) ==
    Is(r, {"restore"}) /\ Stage(r) \notin {"begin", "done"} =>
        \/ Restored(r)
        \/ /\ ~Live(Group(r))
           /\ Stage(r) # "list" => \A id \in InGroup(Group(r)) : member[id].status = "active" =>
                 member[id].person \in req[r].fresh \/ Done({"redeem"})

CountChecks(r) ==
    LET k == KindOf[Group(r)] IN
    /\ Is(r, Entries) /\ Stage(r) \in Roomy =>
          \A p \in Members(r) : Fits(k, Tally(k, p) \cup {Group(r)})
    /\ Is(r, {"restore"}) /\ Stage(r) \in {"group", "commit"} =>
          \A p \in req[r].fresh : Fits(k, Tally(k, p) \cup {Group(r)})
    /\ (Is(r, {"redeem"}) /\ Stage(r) = "people" /\ ~req[r].found) \/ Merging(r) =>
          \A l \in Capped : Fits(l, Tally(l, req[r].who[1]) \cup Tally(l, req[r].who[2]))

CountFits == \A p \in People, k \in Kinds : Fits(k, Tally(k, p))

Traced == \A r \in Reqs : RowsTraced(r) /\ ListTraced(r)
Counted == Outrun \/ (CountFits /\ \A r \in Reqs : CountChecks(r))

\* The groups that the code counts are those of the tally.
LEMMA ActiveIn ==
    ASSUME OneRow, NEW g \in Groups, NEW p
    PROVE  Status(g, p) = "active" <=> \E id \in InGroup(g) : member[id].person = p /\ member[id].status = "active"
<1>1. ASSUME NEW id \in InGroup(g), member[id].person = p, member[id].status = "active"
      PROVE  Status(g, p) = "active"
  <2>1. id \in RowsOf(g, p)
    BY <1>1 DEF InGroup, RowsOf
  <2>. QED
    BY <1>1, <2>1, StatusOf
<1>2. ASSUME Status(g, p) = "active"
      PROVE  \E id \in InGroup(g) : member[id].person = p /\ member[id].status = "active"
  <2>1. RowsOf(g, p) # {}
    BY <1>2 DEF Status
  <2>2. PICK id : id \in RowsOf(g, p)
    BY <2>1
  <2>3. id \in InGroup(g) /\ member[id].person = p
    BY <2>2 DEF InGroup, RowsOf
  <2>. QED
    BY <1>2, <2>2, <2>3, StatusOf
<1>. QED
  BY <1>1, <1>2

LEMMA ElsewhereIs ==
    ASSUME OneRow, NEW g \in Groups, NEW p
    PROVE  Elsewhere(g, {p}) = Tally(KindOf[g], p) \ {g}
BY ActiveIn DEF Elsewhere, Tally

LEMMA OverflowsIs ==
    ASSUME OneRow, NEW p, NEW q
    PROVE  /\ Overflows({p, q}) <=> ~\A k \in Capped : ~(Cardinality(Tally(k, p) \cup Tally(k, q)) > MaxPerUser[k])
           /\ Overflows({p}) <=> ~\A k \in Capped : ~(Cardinality(Tally(k, p)) > MaxPerUser[k])
<1>1. \A k : {g \in Groups : /\ Live(g) /\ KindOf[g] = k
                             /\ \E x \in {p, q} : Status(g, x) = "active"} = Tally(k, p) \cup Tally(k, q)
  BY ActiveIn DEF Tally
<1>2. \A k : {g \in Groups : /\ Live(g) /\ KindOf[g] = k
                             /\ \E x \in {p} : Status(g, x) = "active"} = Tally(k, p)
  BY ActiveIn DEF Tally
<1>. QED
  BY <1>1, <1>2 DEF Overflows

LEMMA FitsIs ==
    ASSUME NEW k, NEW S, S \subseteq Groups
    PROVE  /\ Fits(k, S) <=> (k \in Capped => ~(Cardinality(S) > MaxPerUser[k]))
           /\ IsFiniteSet(S) /\ Cardinality(S) \in Nat
           /\ k \in Capped => MaxPerUser[k] \in Nat
<1>1. IsFiniteSet(S) /\ Cardinality(S) \in Nat
  BY FS_Subset, FS_CardinalityType, MembershipsAssumption
<1>2. k \in Capped => MaxPerUser[k] \in Nat
  BY MembershipsAssumption DEF Capped
<1>. QED
  BY <1>1, <1>2 DEF Fits

LEMMA FitsSub ==
    ASSUME NEW k, NEW S, NEW T, S \subseteq T, T \subseteq Groups, Fits(k, T)
    PROVE  Fits(k, S)
<1>1. IsFiniteSet(T) /\ Cardinality(T) \in Nat /\ Cardinality(S) \in Nat /\ (k \in Capped => MaxPerUser[k] \in Nat)
  BY FitsIs
<1>2. Cardinality(S) <= Cardinality(T)
  BY <1>1, FS_Subset
<1>. QED
  BY <1>1, <1>2 DEF Fits

\* A person whose groups elsewhere are fewer than the limit has room for this one.
LEMMA RoomForOne ==
    ASSUME OneRow, NEW g \in Groups, NEW people, ~PerUserBroken(g, people), NEW p \in people
    PROVE  Fits(KindOf[g], Tally(KindOf[g], p) \cup {g})
<1>1. PICK k, S : k = KindOf[g] /\ S = Tally(k, p) \ {g}
  OBVIOUS
<1>2. SUFFICES ASSUME k \in Capped PROVE Cardinality(Tally(k, p) \cup {g}) <= MaxPerUser[k]
  BY <1>1 DEF Fits
<1>3. S \subseteq Groups /\ Elsewhere(g, {p}) = S
  <2>1. S \subseteq Groups
    BY <1>1 DEF Tally
  <2>. QED
    BY <1>1, <2>1, ElsewhereIs
<1>4. IsFiniteSet(S) /\ Cardinality(S) \in Nat /\ MaxPerUser[k] \in Nat
  BY <1>2, <1>3, FitsIs
<1>5. ~(Cardinality(S) >= MaxPerUser[k])
  BY <1>1, <1>2, <1>3 DEF PerUserBroken, Capped
<1>6. Cardinality(S \cup {g}) = Cardinality(S) + 1
  BY <1>1, <1>4, FS_AddElement
<1>7. S \cup {g} = Tally(k, p) \cup {g}
  BY <1>1
<1>8. Cardinality(Tally(k, p) \cup {g}) = Cardinality(S) + 1
  BY <1>6, <1>7
<1>. QED
  BY <1>4, <1>5, <1>8

-----------------------------------------------------------------------------
(* Who comes to be active, and where                                       *)

\* A row is made active by an entry, and changes hands in a merge.
LEMMA ActiveCame ==
    ASSUME Sound, NEW q \in Reqs, Step(q), NEW id \in RowIds, member'[id].status = "active"
    PROVE  \/ member[id].status = "active" /\ member'[id].person = member[id].person
           \/ /\ CommitRedeem(q) /\ Merging(q) /\ member[id].status = "active"
              /\ member[id].person = req[q].who[2] /\ member'[id].person = req[q].who[1]
           \/ /\ CommitEntry(q) /\ id[1] = Group(q)
              /\ \/ id \in req[q].rows /\ Exists(id) /\ member'[id].person = member[id].person
                 \/ id[2] \in req[q].fresh /\ member'[id].person = id[2]
<1>1. Effects(q) /\ Exists(id)' /\ RowEffect(q, id)
  BY SoundStep DEF Effects, Exists
<1>2. CASE member' = member
  BY <1>2
<1>3. CASE CommitEntry(q)
  <2>1. ~Merging(q)
    <3>1. Is(q, Entries)
      BY <1>3 DEF CommitEntry
    <3>. QED
      BY <3>1 DEF Merging, Is, Entries
  <2>2. CASE id \in req[q].rows
    <3>1. id[1] = Group(q) /\ Exists(id)
      BY <1>3, <2>2, EntryWrites
    <3>2. member'[id].person = member[id].person
      BY <1>1, <2>1, <3>1 DEF RowEffect, Kept, Created, Changed, Erased, Merged
    <3>. QED
      BY <1>3, <2>2, <3>1, <3>2
  <2>3. CASE id \notin req[q].rows /\ id[1] = Group(q) /\ id[2] \in req[q].fresh
    <3>1. ~Exists(id)
      BY <1>3, <2>3, EntryWrites
    <3>2. member'[id].person = id[2]
      BY <1>1, <2>1, <3>1 DEF RowEffect, Kept, Created, Changed, Erased, Merged, Exists
    <3>. QED
      BY <1>3, <2>3, <3>2
  <2>4. CASE id \notin req[q].rows /\ ~(id[1] = Group(q) /\ id[2] \in req[q].fresh)
    BY <1>3, <2>4, EntryWrites
  <2>. QED
    BY <2>2, <2>3, <2>4
<1>4. CASE CommitChange(q)
  <2>1. Is(q, Changes) /\ ~Is(q, Edits) => NewStatus[Op(q).kind] # "active"
    BY DEF Is, Changes, Departures, Edits, NewStatus
  <2>. QED
    BY <1>4, <2>1, ChangeWrites
<1>5. CASE CommitGroup(q)
  <2>1. RowTypes
    BY DEF Sound, Base
  <2>. QED
    BY <1>1, <1>5, <2>1, GroupWrites
<1>6. CASE CommitRedeem(q)
  <2>1. SUFFICES ASSUME member'[id] # member[id]
                 PROVE  /\ Merging(q) /\ member[id].status = "active"
                        /\ member[id].person = req[q].who[2] /\ member'[id].person = req[q].who[1]
    BY <1>6
  <2>2. Merging(q) /\ Exists(id) /\ member[id].person = req[q].who[2] /\ member[id].status = "active"
    BY <1>1, <1>6, <2>1, RedeemWrites
  <2>3. ~Is(q, {"unlink"}) /\ Base /\ LinkFinds(q)
    BY <2>2 DEF Merging, Is, Sound, Finds
  <2>4. member'[id].person = req[q].who[1]
    <3>1. Merge(q)
      <4>1. Cardinality(Range(req[q].who)) # 1
        BY <1>6, <2>1 DEF CommitRedeem
      <4>. QED
        BY <1>6, <4>1 DEF CommitRedeem
    <3>2. \/ member'[id] = [member[id] EXCEPT !.status = "none"]
          \/ member'[id] = [member[id] EXCEPT !.person = req[q].who[1], !.version = @ + 1]
      BY <2>1, <3>1 DEF Merge
    <3>3. member[id] \in MemberRows
      BY DEF Sound, Base, RowTypes, MemberRows
    <3>. QED
      BY <1>1, <3>2, <3>3 DEF MemberRows, Exists
  <2>. QED
    BY <2>2, <2>4
<1>. QED
  BY <1>2, <1>3, <1>4, <1>5, <1>6, MemberWrites

\* A group comes to be live with its create or by a restore.
LEMMA LiveCame ==
    ASSUME Sound, NEW q \in Reqs, Step(q), NEW g \in Groups, Live(g)'
    PROVE  \/ Live(g)
           \/ CommitEntry(q) /\ Is(q, {"create"}) /\ Group(q) = g /\ group[g].status = "none"
           \/ CommitGroup(q) /\ Is(q, {"restore"}) /\ Group(q) = g
<1>1. SUFFICES ASSUME group'[g] # group[g], ~Live(g)
               PROVE  \/ CommitEntry(q) /\ Is(q, {"create"}) /\ Group(q) = g /\ group[g].status = "none"
                      \/ CommitGroup(q) /\ Is(q, {"restore"}) /\ Group(q) = g
  BY DEF Live
<1>2. group'[g].status = "live" /\ RowTypes
  BY DEF Live, Sound, Base
<1>3. CommitEntry(q) \/ CommitChange(q) \/ CommitGroup(q)
  <2>1. ~UNCHANGED dataVars
    BY <1>1 DEF dataVars, rowVars
  <2>2. Writes(q)
    BY <2>1, Quiet
  <2>. QED
    BY <1>1, <2>2 DEF Writes, WriteInvite, CommitSend, CommitAnswer, CommitEnding, CommitIssue, CommitRedeem,
       CommitUnlink, rowVars
<1>4. CASE CommitEntry(q)
  <2>1. Group(q) = g
    BY <1>1, <1>2, <1>4 DEF CommitEntry, Touched, RowTypes
  <2>2. Is(q, Entries) /\ Stage(q) = "commit" /\ EntryFinds(q)
    BY <1>4 DEF CommitEntry, At, Stage, Sound, Finds
  <2>3. Is(q, {"create"})
    BY <1>1, <2>1, <2>2 DEF EntryFinds, Inside
  <2>. QED
    BY <1>4, <2>1, <2>2, <2>3 DEF EntryFinds
<1>5. CASE CommitChange(q)
  <2>1. Group(q) = g /\ ~Is(q, Edits)
    BY <1>1, <1>2, <1>5 DEF CommitChange, Touched, RowTypes
  <2>2. Is(q, Changes) /\ Stage(q) = "commit" /\ ChangeFinds(q)
    BY <1>5 DEF CommitChange, At, Stage, Sound, Finds
  <2>. QED
    BY <1>1, <2>1, <2>2 DEF ChangeFinds
<1>6. CASE CommitGroup(q)
  <2>1. Group(q) = g
    BY <1>1, <1>2, <1>6 DEF CommitGroup, RowTypes
  <2>2. Is(q, {"restore"})
    BY <1>2, <1>6, <2>1 DEF CommitGroup, RowTypes
  <2>. QED
    BY <1>6, <2>1, <2>2
<1>. QED
  BY <1>3, <1>4, <1>5, <1>6

LEMMA TallyCame ==
    ASSUME Sound, NEW q \in Reqs, Step(q), NEW k, NEW p, NEW g \in Tally(k, p)', g \notin Tally(k, p)
    PROVE  /\ g \in Groups /\ KindOf[g] = k
           /\ \/ /\ CommitEntry(q) /\ g = Group(q)
                 /\ p \in req[q].fresh \/ \E id \in req[q].rows : Exists(id) /\ member[id].person = p
              \/ /\ CommitGroup(q) /\ Is(q, {"restore"}) /\ g = Group(q)
                 /\ \E id \in InGroup(g) : member[id].person = p /\ member[id].status = "active"
              \/ CommitRedeem(q) /\ Merging(q) /\ p = req[q].who[1] /\ g \in Tally(k, req[q].who[2])
<1>1. /\ g \in Groups /\ Live(g)' /\ KindOf[g] = k
      /\ \E id \in InGroup(g) : member'[id].person = p /\ member'[id].status = "active"
  BY DEF Tally, InGroup
<1>2. PICK id \in InGroup(g) : member'[id].person = p /\ member'[id].status = "active"
  BY <1>1
<1>3. id \in RowIds /\ id[1] = g
  BY DEF InGroup
<1>4. CASE member[id].status = "active" /\ member'[id].person = member[id].person
  <2>1. ~Live(g)
    BY <1>1, <1>2, <1>4 DEF Tally
  <2>2. group[g].status # "none"
    BY <1>3, <1>4 DEF Sound, RowsHold, RowsInGroups, Exists
  <2>3. CommitGroup(q) /\ Is(q, {"restore"}) /\ Group(q) = g
    BY <1>1, <2>1, <2>2, LiveCame
  <2>. QED
    BY <1>1, <1>2, <1>4, <2>3
<1>5. CASE /\ CommitRedeem(q) /\ Merging(q) /\ member[id].status = "active"
           /\ member[id].person = req[q].who[2] /\ member'[id].person = req[q].who[1]
  <2>1. ~CommitEntry(q) /\ ~CommitGroup(q)
    BY <1>5 DEF CommitRedeem, CommitEntry, CommitGroup, Is, Entries, GroupOps
  <2>2. Live(g)
    BY <1>1, <2>1, LiveCame
  <2>3. g \in Tally(k, req[q].who[2])
    BY <1>1, <1>2, <1>5, <2>2 DEF Tally
  <2>. QED
    BY <1>1, <1>2, <1>5, <2>3
<1>6. CASE /\ CommitEntry(q) /\ id[1] = Group(q)
           /\ \/ id \in req[q].rows /\ Exists(id) /\ member'[id].person = member[id].person
              \/ id[2] \in req[q].fresh /\ member'[id].person = id[2]
  BY <1>1, <1>2, <1>3, <1>6
<1>. QED
  BY <1>2, <1>3, <1>4, <1>5, <1>6, ActiveCame

\* A step adds its own group to what a person has, or what the person had who is
\* merged away.
LEMMA TallyStep ==
    ASSUME Sound, NEW q \in Reqs, Step(q), NEW k, NEW p
    PROVE  \/ Tally(k, p)' \subseteq Tally(k, p)
           \/ /\ CommitEntry(q) /\ Group(q) \in Groups /\ k = KindOf[Group(q)]
              /\ Tally(k, p)' \subseteq Tally(k, p) \cup {Group(q)}
              /\ p \in req[q].fresh \/ \E id \in req[q].rows : Exists(id) /\ member[id].person = p
           \/ /\ CommitGroup(q) /\ Is(q, {"restore"}) /\ Group(q) \in Groups /\ k = KindOf[Group(q)]
              /\ Tally(k, p)' \subseteq Tally(k, p) \cup {Group(q)}
              /\ \E id \in InGroup(Group(q)) : member[id].person = p /\ member[id].status = "active"
           \/ /\ CommitRedeem(q) /\ Merging(q) /\ p = req[q].who[1]
              /\ Tally(k, p)' \subseteq Tally(k, p) \cup Tally(k, req[q].who[2])
<1>1. SUFFICES ASSUME ~(Tally(k, p)' \subseteq Tally(k, p))
               PROVE  \/ /\ CommitEntry(q) /\ Group(q) \in Groups /\ k = KindOf[Group(q)]
                         /\ Tally(k, p)' \subseteq Tally(k, p) \cup {Group(q)}
                         /\ p \in req[q].fresh \/ \E id \in req[q].rows : Exists(id) /\ member[id].person = p
                      \/ /\ CommitGroup(q) /\ Is(q, {"restore"}) /\ Group(q) \in Groups /\ k = KindOf[Group(q)]
                         /\ Tally(k, p)' \subseteq Tally(k, p) \cup {Group(q)}
                         /\ \E id \in InGroup(Group(q)) : member[id].person = p /\ member[id].status = "active"
                      \/ /\ CommitRedeem(q) /\ Merging(q) /\ p = req[q].who[1]
                         /\ Tally(k, p)' \subseteq Tally(k, p) \cup Tally(k, req[q].who[2])
  OBVIOUS
<1>2. PICK g \in Tally(k, p)' : g \notin Tally(k, p)
  BY <1>1
<1>3. /\ ~(CommitEntry(q) /\ CommitGroup(q)) /\ ~(CommitEntry(q) /\ CommitRedeem(q))
      /\ ~(CommitGroup(q) /\ CommitRedeem(q))
  BY DEF CommitRedeem, CommitEntry, CommitGroup, Is, Entries, GroupOps
<1>4. \A h \in Tally(k, p)' : h \notin Tally(k, p) =>
          \/ CommitEntry(q) /\ h = Group(q)
          \/ CommitGroup(q) /\ h = Group(q)
          \/ CommitRedeem(q) /\ h \in Tally(k, req[q].who[2])
  BY TallyCame
<1>. QED
  BY <1>2, <1>3, <1>4, TallyCame

\* Answers stay.
LEMMA AnsweredKept ==
    ASSUME Base, NEW q \in Reqs, Step(q), NEW r \in Reqs, Answered(r, "ok")
    PROVE  r # q /\ Answered(r, "ok")' /\ Op(r)' = Op(r) /\ Group(r)' = Group(r) /\ \A kinds : Is(r, kinds)' <=> Is(r, kinds)
<1>1. r # q
  BY Acting DEF Answered
<1>2. req'[r] = req[r]
  BY <1>1, StepProgress DEF Progress, Turn
<1>. QED
  BY <1>1, <1>2 DEF Answered, Op, Is, Group

LEMMA RestoredKept ==
    ASSUME Base, NEW q \in Reqs, Step(q), NEW r \in Reqs, Group(r)' = Group(r), Restored(r)
    PROVE  Restored(r)'
<1>1. PICK p \in Reqs \ {r} : Is(p, {"restore"}) /\ Group(p) = Group(r) /\ Answered(p, "ok")
  BY DEF Restored
<1>2. Is(p, {"restore"})' /\ Group(p)' = Group(r) /\ Answered(p, "ok")'
  BY <1>1, AnsweredKept
<1>. QED
  BY <1>2 DEF Restored

LEMMA OutrunKept ==
    ASSUME Base, NEW q \in Reqs, Step(q), Outrun
    PROVE  Outrun'
<1>1. CASE Done({"redeem"}) /\ Done({"add", "import", "restore"})
  BY <1>1, DoneKept DEF Outrun
<1>2. ASSUME NEW r \in Reqs, Is(r, {"restore"}), Answered(r, "ok"), Restored(r)
      PROVE  Outrun'
  <2>1. Is(r, {"restore"})' /\ Answered(r, "ok")' /\ Restored(r)'
    BY <1>2, AnsweredKept, RestoredKept
  <2>. QED
    BY <2>1 DEF Outrun
<1>. QED
  BY <1>1, <1>2 DEF Outrun

\* The key under which a request counts for a person.
LEMMA CountKey ==
    ASSUME NEW k \in Capped, NEW kinds, k \in kinds, NEW people, NEW p \in people
    PROVE  <<"count", <<k, p>>>> \in CountKeys(kinds, people)
  BY DEF CountKeys, Capped

\* What a person has grows only by a request that counts for the person, which
\* found that it fits.
LEMMA TallyGrows ==
    ASSUME Sound, NEW q \in Reqs, Step(q), RowsTraced(q), ListTraced(q), CountChecks(q), ~Outrun',
           NEW k \in Capped, NEW p \in People
    PROVE  \/ Tally(k, p)' \subseteq Tally(k, p)
           \/ <<"count", <<k, p>>>> \in held[q] /\ Fits(k, Tally(k, p)')
<1>1. Base /\ Typed(q) /\ Staged(q) /\ Finds(q) /\ Op(q)' = Op(q)
  BY StepProgress DEF Sound, Base, Progress
<1>2. Is(q, {"redeem"})' <=> Is(q, {"redeem"})
  BY <1>1 DEF Is
<1>3. CASE /\ CommitEntry(q) /\ Group(q) \in Groups /\ k = KindOf[Group(q)]
           /\ Tally(k, p)' \subseteq Tally(k, p) \cup {Group(q)}
           /\ p \in req[q].fresh \/ \E id \in req[q].rows : Exists(id) /\ member[id].person = p
  <2>1. /\ Is(q, Entries) /\ Stage(q) = "commit" /\ EntryStaged(q) /\ EntryFinds(q)
        /\ req'[q].at = "done" /\ req'[q].answer = "ok"
    BY <1>1, <1>3, Ended DEF CommitEntry, At, Stage, Staged, Finds
  <2>2. p \in Members(q)
    <3>1. CASE p \in req[q].fresh
      BY <2>1, <3>1 DEF EntryStaged, Roomy
    <3>2. CASE \E id \in req[q].rows : Exists(id) /\ member[id].person = p
      <4>1. PICK id \in req[q].rows : Exists(id) /\ member[id].person = p
        BY <3>2
      <4>2. PICK x \in Members(q) : member[id].person = x \/ (person[x] = "gone" /\ Done({"redeem"}))
        BY <2>1, <4>1 DEF RowsTraced, Roomy
      <4>3. CASE member[id].person = x
        BY <4>1, <4>2, <4>3
      <4>4. CASE person[x] = "gone" /\ Done({"redeem"})
        <5>1. ~Is(q, {"add", "import"})
          <6>1. Done({"redeem"})'
            BY <1>1, <4>4, DoneKept
          <6>2. Is(q, {"add", "import"}) => Done({"add", "import", "restore"})'
            BY <1>1, <2>1 DEF Done, Answered, Is
          <6>. QED
            BY <6>1, <6>2 DEF Outrun
        <5>2. ~Is(q, {"create"})
          BY <2>1 DEF EntryStaged, Roomy
        <5>3. Is(q, {"join", "accept"})
          BY <2>1, <5>1, <5>2 DEF Is, Entries
        <5>4. ~Is(q, {"import"}) /\ Referred(q) = {Person(q)}
          BY <5>3 DEF Is, Referred
        <5>5. Here(Person(q))
          BY <2>1, <5>4 DEF EntryFinds, Vacant
        <5>6. Members(q) = {Person(q)}
          <6>1. Len(req[q].who) = 1 /\ req[q].who \in Seq(People)
            BY <1>1, <2>1, <5>4 DEF EntryStaged, Typed, Record
          <6>. QED
            BY <6>1, OneOf DEF Members, Person
        <5>. QED
          BY <4>2, <4>4, <5>5, <5>6 DEF Here
      <4>. QED
        BY <4>2, <4>3, <4>4
    <3>. QED
      BY <1>3, <3>1, <3>2
  <2>3. <<"count", <<k, p>>>> \in held[q]
    BY <1>3, <2>1, <2>2, CountKey DEF EntryStaged, Roomy
  <2>4. Fits(k, Tally(k, p) \cup {Group(q)})
    BY <1>3, <2>1, <2>2 DEF CountChecks, Roomy
  <2>. QED
    BY <1>3, <2>3, <2>4, FitsSub DEF Tally
<1>4. CASE /\ CommitGroup(q) /\ Is(q, {"restore"}) /\ Group(q) \in Groups /\ k = KindOf[Group(q)]
           /\ Tally(k, p)' \subseteq Tally(k, p) \cup {Group(q)}
           /\ \E id \in InGroup(Group(q)) : member[id].person = p /\ member[id].status = "active"
  <2>1. /\ Stage(q) = "commit" /\ GroupStaged(q) /\ Is(q, GroupOps)
        /\ req'[q].at = "done" /\ req'[q].answer = "ok"
    BY <1>1, <1>4, Ended DEF CommitGroup, At, Stage, Staged
  <2>2. Answered(q, "ok")' /\ Is(q, {"restore"})' /\ Group(q)' = Group(q) /\ Done({"add", "import", "restore"})'
    BY <1>1, <1>4, <2>1 DEF Done, Answered, Is, Group
  <2>3. ~Restored(q)
    BY <1>1, <2>2, RestoredKept DEF Outrun
  <2>4. ~Done({"redeem"})
    BY <1>1, <2>2, DoneKept DEF Outrun
  <2>5. p \in req[q].fresh
    BY <1>4, <2>1, <2>3, <2>4 DEF ListTraced
  <2>6. <<"count", <<k, p>>>> \in held[q]
    BY <1>4, <2>1, <2>5, CountKey DEF GroupStaged
  <2>7. Fits(k, Tally(k, p) \cup {Group(q)})
    BY <1>4, <2>1, <2>5 DEF CountChecks
  <2>. QED
    BY <1>4, <2>6, <2>7, FitsSub DEF Tally
<1>5. CASE /\ CommitRedeem(q) /\ Merging(q) /\ p = req[q].who[1]
           /\ Tally(k, p)' \subseteq Tally(k, p) \cup Tally(k, req[q].who[2])
  <2>1. Stage(q) = "commit" /\ Is(q, {"redeem"}) /\ LinkStaged(q) /\ Is(q, LinkOps) /\ req[q].who[1] # req[q].who[2]
    BY <1>1, <1>5 DEF Merging, Is, LinkOps, Staged
  <2>2. p \in Members(q)
    <3>1. Len(req[q].who) = 2 /\ req[q].who \in Seq(People)
      BY <1>1, <2>1 DEF LinkStaged, Typed, Record
    <3>. QED
      BY <1>5, <3>1, TwoOf DEF Members
  <2>3. <<"count", <<k, p>>>> \in held[q]
    BY <2>1, <2>2, CountKey DEF LinkStaged
  <2>4. Fits(k, Tally(k, p) \cup Tally(k, req[q].who[2]))
    BY <1>5 DEF CountChecks
  <2>. QED
    BY <1>5, <2>3, <2>4, FitsSub DEF Tally
<1>. QED
  BY <1>3, <1>4, <1>5, TallyStep

-----------------------------------------------------------------------------
(* What others leave of the counts                                         *)

\* Who counts for a person keeps the others from it.
LEMMA TallyKept ==
    ASSUME Sound, NEW q \in Reqs, Step(q), RowsTraced(q), ListTraced(q), CountChecks(q), ~Outrun',
           NEW r \in Reqs \ {q}, NEW k \in Capped, NEW p \in People, <<"count", <<k, p>>>> \in held[r]
    PROVE  Tally(k, p)' \subseteq Tally(k, p)
<1>1. ~(<<"count", <<k, p>>>> \in held[q])
  <2>1. Exclusive /\ Conflict(<<"count", <<k, p>>>>, <<"count", <<k, p>>>>)
    BY DEF Sound, Base, Conflict
  <2>. QED
    BY <2>1 DEF Exclusive
<1>. QED
  BY <1>1, TallyGrows

LEMMA MembersPeople ==
    ASSUME NEW r, Typed(r)
    PROVE  Members(r) \subseteq People /\ req[r].fresh \subseteq People
<1>1. req[r].who \in Seq(People) /\ req[r].fresh \subseteq People
  BY DEF Typed, Record
<1>. QED
  BY <1>1, ElementOfSeq DEF Members, Range

LEMMA CountChecksKept ==
    ASSUME Sound, NEW q \in Reqs, Step(q), RowsTraced(q), ListTraced(q), CountChecks(q), ~Outrun',
           NEW r \in Reqs \ {q}, req'[r] = req[r], held'[r] = held[r], CountChecks(r)
    PROVE  CountChecks(r)'
<1>0. PICK g, k : g = Group(r) /\ k = KindOf[g]
  OBVIOUS
<1>1. Base /\ Typed(r) /\ Staged(r) /\ Members(r) \subseteq People /\ req[r].fresh \subseteq People
  BY MembersPeople DEF Sound, Base
<1>2. /\ Stage(r)' = Stage(r) /\ Group(r)' = g /\ req'[r].fresh = req[r].fresh /\ Members(r)' = Members(r)
      /\ req'[r].who = req[r].who /\ req'[r].found = req[r].found /\ (Merging(r)' <=> Merging(r))
      /\ \A kinds : Is(r, kinds)' <=> Is(r, kinds)
  BY <1>0, SameRequest DEF Merging
<1>3. Is(r, Entries \cup GroupOps) => g \in Groups
  BY <1>0, <1>1, Names DEF Is
<1>4. ASSUME NEW p \in People, g \in Groups, Fits(k, Tally(k, p) \cup {g}),
             k \in Capped => <<"count", <<k, p>>>> \in held[r]
      PROVE  Fits(k, Tally(k, p)' \cup {g})
  <2>1. CASE k \in Capped
    <3>1. Tally(k, p)' \subseteq Tally(k, p)
      BY <1>4, <2>1, TallyKept
    <3>. QED
      BY <1>4, <3>1, FitsSub DEF Tally
  <2>. QED
    BY <2>1 DEF Fits
<1>5. ASSUME Is(r, Entries), Stage(r) \in Roomy, NEW p \in Members(r)
      PROVE  Fits(k, Tally(k, p)' \cup {g})
  <2>1. k \in Capped => <<"count", <<k, p>>>> \in held[r]
    BY <1>0, <1>1, <1>5, CountKey DEF Staged, EntryStaged
  <2>2. Fits(k, Tally(k, p) \cup {g})
    BY <1>0, <1>5 DEF CountChecks
  <2>3. g \in Groups
    BY <1>3, <1>5 DEF Is
  <2>. QED
    BY <1>1, <1>4, <2>1, <2>2, <2>3
<1>6. ASSUME Is(r, {"restore"}), Stage(r) \in {"group", "commit"}, NEW p \in req[r].fresh
      PROVE  Fits(k, Tally(k, p)' \cup {g})
  <2>1. Is(r, GroupOps)
    BY <1>6 DEF Is, GroupOps
  <2>2. k \in Capped => <<"count", <<k, p>>>> \in held[r]
    BY <1>0, <1>1, <1>6, <2>1, CountKey DEF Staged, GroupStaged
  <2>3. Fits(k, Tally(k, p) \cup {g})
    BY <1>0, <1>6 DEF CountChecks
  <2>4. g \in Groups
    BY <1>3, <2>1 DEF Is
  <2>. QED
    BY <1>1, <1>4, <2>2, <2>3, <2>4
<1>7. ASSUME (Is(r, {"redeem"}) /\ Stage(r) = "people" /\ ~req[r].found) \/ Merging(r), NEW l \in Capped
      PROVE  Fits(l, Tally(l, req[r].who[1])' \cup Tally(l, req[r].who[2])')
  <2>1. Is(r, LinkOps) /\ Is(r, {"redeem"}) /\ LinkStaged(r)
    BY <1>1, <1>7 DEF Is, LinkOps, Merging, Staged
  <2>2. Len(req[r].who) = 2 /\ CountKeys(Capped, Members(r)) \subseteq held[r]
    BY <1>7, <2>1 DEF LinkStaged, Merging
  <2>3. \A p \in Members(r) : Tally(l, p)' \subseteq Tally(l, p)
    BY <1>1, <2>2, CountKey, TallyKept
  <2>4. req[r].who[1] \in Members(r) /\ req[r].who[2] \in Members(r)
    <3>1. req[r].who \in Seq(People)
      BY <1>1 DEF Typed, Record
    <3>. QED
      BY <2>2, <3>1, TwoOf DEF Members
  <2>5. Fits(l, Tally(l, req[r].who[1]) \cup Tally(l, req[r].who[2]))
    BY <1>7 DEF CountChecks
  <2>6. /\ Tally(l, req[r].who[1])' \cup Tally(l, req[r].who[2])'
            \subseteq Tally(l, req[r].who[1]) \cup Tally(l, req[r].who[2])
        /\ Tally(l, req[r].who[1]) \cup Tally(l, req[r].who[2]) \subseteq Groups
    BY <1>2, <2>3, <2>4 DEF Tally
  <2>. QED
    BY <2>5, <2>6, FitsSub
<1>. QED
  BY <1>0, <1>2, <1>5, <1>6, <1>7 DEF CountChecks, Fits

LEMMA CountFitsStep ==
    ASSUME Sound, NEW q \in Reqs, Step(q), RowsTraced(q), ListTraced(q), CountChecks(q), ~Outrun', CountFits
    PROVE  CountFits'
<1>1. SUFFICES ASSUME NEW p \in People, NEW k \in Kinds PROVE Fits(k, Tally(k, p)')
  BY DEF CountFits, Fits
<1>2. CASE k \in Capped
  <2>1. CASE Tally(k, p)' \subseteq Tally(k, p)
    BY <2>1, FitsSub DEF CountFits, Tally
  <2>. QED
    BY <1>2, <2>1, TallyGrows
<1>. QED
  BY <1>2 DEF Fits

\* A row changes hands only in a merge, which takes it from the person who goes.
LEMMA PersonCame ==
    ASSUME Sound, NEW q \in Reqs, Step(q), NEW id \in RowIds, Exists(id), Exists(id)'
    PROVE  \/ member'[id].person = member[id].person
           \/ person'[member[id].person] = "gone" /\ Done({"redeem"})'
<1>1. RowEffect(q, id) /\ Base
  BY SoundStep DEF Effects, Sound
<1>2. CASE Merged(q, id) /\ member' # member
  BY <1>1, <1>2, MergeDone DEF Merged
<1>. QED
  BY <1>1, <1>2 DEF RowEffect, Kept, Created, Changed, Erased

LEMMA RowsTracedKept ==
    ASSUME Sound, NEW q \in Reqs, Step(q), NEW r \in Reqs \ {q}, req'[r] = req[r], held'[r] = held[r], RowsTraced(r)
    PROVE  RowsTraced(r)'
<1>1. /\ Stage(r)' = Stage(r) /\ Members(r)' = Members(r) /\ req'[r].rows = req[r].rows
      /\ \A kinds : Is(r, kinds)' <=> Is(r, kinds)
  BY SameRequest
<1>2. SUFFICES ASSUME Is(r, Entries), Stage(r) \in Roomy \cup {"counts"}, NEW id \in req[r].rows, Exists(id)'
               PROVE  \E p \in Members(r) : member'[id].person = p \/ (person'[p] = "gone" /\ Done({"redeem"})')
  BY <1>1 DEF RowsTraced
<1>3. Base /\ RowTypes /\ Creators /\ Typed(r) /\ EntryStaged(r) /\ EntryFinds(r) /\ Effects(q)
  BY SoundStep DEF Sound, Base, Staged, Finds
<1>4. id \in RowIds /\ id[1] = Group(r) /\ ~Is(r, {"create"})
  BY <1>2, <1>3 DEF EntryStaged, InGroup
<1>5. Exists(id)
  <2>1. <<"group", Group(r)>> \in held[r] /\ Live(Group(r))
    BY <1>2, <1>3, <1>4, EntryUnder DEF Roomy, Inside
  <2>. QED
    BY <1>2, <1>3, <1>4, <2>1, StatusKept DEF Live
<1>6. PICK p \in Members(r) : member[id].person = p \/ (person[p] = "gone" /\ Done({"redeem"}))
  BY <1>2, <1>5 DEF RowsTraced
<1>7. CASE member[id].person = p
  BY <1>2, <1>4, <1>5, <1>6, <1>7, PersonCame
<1>8. CASE person[p] = "gone" /\ Done({"redeem"})
  <2>1. p \in People /\ PersonEffect(q, p)
    BY <1>3, <1>6, MembersPeople DEF Effects
  <2>2. person'[p] = "gone"
    BY <1>8, <2>1 DEF PersonEffect
  <2>. QED
    BY <1>3, <1>6, <1>8, <2>2, DoneKept
<1>. QED
  BY <1>6, <1>7, <1>8

LEMMA ListTracedKept ==
    ASSUME Sound, NEW q \in Reqs, Step(q), NEW r \in Reqs \ {q}, req'[r] = req[r], held'[r] = held[r], ListTraced(r)
    PROVE  ListTraced(r)'
<1>0. PICK g : g = Group(r)
  OBVIOUS
<1>1. /\ Stage(r)' = Stage(r) /\ Group(r)' = Group(r) /\ req'[r].fresh = req[r].fresh
      /\ \A kinds : Is(r, kinds)' <=> Is(r, kinds)
  BY SameRequest
<1>2. SUFFICES ASSUME Is(r, {"restore"}), Stage(r) \notin {"begin", "done"}, ~Restored(r)'
               PROVE  /\ ~Live(g)'
                      /\ Stage(r) # "list" => \A id \in InGroup(g) : member'[id].status = "active" =>
                            member'[id].person \in req[r].fresh \/ Done({"redeem"})'
  BY <1>0, <1>1 DEF ListTraced, InGroup
<1>3. Base /\ Typed(r) /\ Is(r, GroupOps) /\ GroupFinds(r) /\ EntryFinds(q) /\ Op(q)' = Op(q)
  BY <1>2, StepProgress DEF Sound, Base, Finds, Progress, Is, GroupOps
<1>4. g \in Groups /\ group[g].status # "none"
  <2>1. Is(r, Entries \cup Changes \cup GroupOps \cup InviteOps)
    BY <1>3 DEF Is
  <2>. QED
    BY <1>0, <1>2, <1>3, <2>1, Names DEF GroupFinds
<1>5. /\ ~Live(g)
      /\ Stage(r) # "list" => \A id \in InGroup(g) : member[id].status = "active" =>
            member[id].person \in req[r].fresh \/ Done({"redeem"})
  BY <1>0, <1>1, <1>2, <1>3, RestoredKept DEF ListTraced
<1>6. ~Live(g)'
  <2>1. SUFFICES ASSUME CommitGroup(q), Is(q, {"restore"}), Group(q) = g PROVE FALSE
    BY <1>4, <1>5, LiveCame
  <2>2. req'[q].at = "done" /\ req'[q].answer = "ok"
    BY <1>3, <2>1, Ended DEF CommitGroup
  <2>3. Is(q, {"restore"})' /\ Group(q)' = Group(r)' /\ Answered(q, "ok")'
    BY <1>0, <1>1, <1>3, <2>1, <2>2 DEF Is, Group, Answered
  <2>. QED
    BY <1>2, <2>3 DEF Restored
<1>7. ASSUME Stage(r) # "list", NEW id \in InGroup(g), member'[id].status = "active"
      PROVE  member'[id].person \in req[r].fresh \/ Done({"redeem"})'
  <2>1. id \in RowIds /\ id[1] = g
    BY DEF InGroup
  <2>2. ~(CommitEntry(q) /\ Group(q) = g)
    <3>1. CommitEntry(q) => Is(q, Entries) /\ Stage(q) = "commit"
      BY DEF CommitEntry, At, Stage
    <3>. QED
      BY <1>3, <1>4, <1>5, <3>1 DEF EntryFinds, Inside
  <2>3. member[id].status = "active"
    BY <1>7, <2>1, <2>2, ActiveCame
  <2>4. CASE member'[id].person = member[id].person
    BY <1>3, <1>5, <1>7, <2>3, <2>4, DoneKept
  <2>5. CASE Done({"redeem"})'
    BY <2>5
  <2>. QED
    BY <1>7, <2>1, <2>3, <2>4, <2>5, PersonCame DEF Exists
<1>. QED
  BY <1>6, <1>7

-----------------------------------------------------------------------------
(* What a request counts at its own steps                                  *)

LEMMA CountsSame ==
    ASSUME NEW q, UNCHANGED dataVars, Op(q)' = Op(q), req'[q].at = req[q].at, Rest(q), req'[q].found = req[q].found,
           Done({"redeem"}) => Done({"redeem"})', Restored(q) => Restored(q)'
    PROVE  /\ RowsTraced(q) => RowsTraced(q)'
           /\ ListTraced(q) => ListTraced(q)'
           /\ CountChecks(q) => CountChecks(q)'
<1>1. /\ Group(q)' = Group(q) /\ Stage(q)' = Stage(q) /\ (\A kinds : Is(q, kinds)' <=> Is(q, kinds))
      /\ \A g : Live(g)' <=> Live(g)
      /\ \A id : Exists(id)' <=> Exists(id)
      /\ UNCHANGED <<group, member, person>>
      /\ req'[q].who = req[q].who /\ req'[q].rows = req[q].rows /\ req'[q].fresh = req[q].fresh
      /\ req'[q].found = req[q].found
  BY Unmoved DEF Stage, Rest
<1>2. Members(q)' = Members(q) /\ (Merging(q)' <=> Merging(q)) /\ \A k, p : Tally(k, p)' = Tally(k, p)
  BY <1>1 DEF Members, Merging, Tally, InGroup
<1>3. RowsTraced(q) => RowsTraced(q)'
  BY <1>1, <1>2 DEF RowsTraced
<1>4. ListTraced(q) => ListTraced(q)'
  BY <1>1, <1>2 DEF ListTraced, InGroup
<1>5. CountChecks(q) => CountChecks(q)'
  BY <1>1, <1>2 DEF CountChecks, Fits
<1>. QED
  BY <1>3, <1>4, <1>5

LEMMA RowsTracedOwn ==
    ASSUME Sound, NEW q \in Reqs, Entry(q), UNCHANGED dataVars, Op(q)' = Op(q), RowsTraced(q),
           Done({"redeem"}) => Done({"redeem"})'
    PROVE  RowsTraced(q)'
<1>0. PICK g, p : g = Group(q) /\ p = Person(q)
  OBVIOUS
<1>1. Base /\ OneRow /\ Typed(q) /\ EntryStaged(q) /\ Unbegun(q) /\ Is(q, Entries)
  BY StepKinds DEF Sound, Base, RowsHold, Staged
<1>2. /\ Stage(q)' = req'[q].at /\ UNCHANGED <<member, person>> /\ (\A id : Exists(id)' <=> Exists(id))
      /\ Is(q, Entries)'
  BY <1>1, Unmoved
<1>3. CASE req'[q].at \notin Roomy \cup {"counts"}
  BY <1>2, <1>3 DEF RowsTraced
<1>4. ASSUME \A id \in req'[q].rows : \E x \in Range(req'[q].who) : member[id].person = x
      PROVE  RowsTraced(q)'
  BY <1>2, <1>4 DEF RowsTraced, Members
<1>5. CASE BeginCreate(q) /\ req'[q].rows = req[q].rows
  <2>1. req'[q].rows = {}
    BY <1>1, <1>5 DEF BeginCreate, At, Stage, Unbegun
  <2>. QED
    BY <1>4, <2>1
<1>6. CASE EnterGroup(q) /\ req'[q].who = req[q].who /\ req'[q].rows = RowsOf(g, p)
  <2>1. Range(req[q].who) = {p}
    <3>1. Len(req[q].who) = 1 /\ req[q].who \in Seq(People)
      BY <1>1, <1>6 DEF EnterGroup, At, Stage, EntryStaged, Typed, Record, Is
    <3>. QED
      BY <1>0, <3>1, OneOf DEF Person
  <2>. QED
    BY <1>4, <1>6, <2>1 DEF RowsOf
<1>7. CASE /\ ImportRows(q)
           /\ LET entering == {x \in Range(req[q].who) : Status(Group(q), x) # "active"} IN
              /\ req'[q].who = CHOOSE who \in Orders(entering) : TRUE
              /\ req'[q].rows = UNION {RowsOf(Group(q), x) : x \in entering}
  <2>1. PICK P : P = {x \in Range(req[q].who) : Status(Group(q), x) # "active"}
    OBVIOUS
  <2>2. req'[q].rows = UNION {RowsOf(g, x) : x \in P}
    BY <1>0, <1>7, <2>1
  <2>3. Range(req'[q].who) = P
    <3>1. IsFiniteSet(P)
      BY <1>1, <2>1, MembersPeople, FS_Subset, MembershipsAssumption DEF Members
    <3>2. req'[q].who \in Orders(P)
      BY <1>7, <2>1, <3>1, SomeOrder
    <3>. QED
      BY <3>1, <3>2, SomeOrder
  <2>. QED
    BY <1>4, <2>2, <2>3 DEF RowsOf
<1>8. CASE Stage(q) \in Roomy \cup {"counts"} /\ Rest(q)
  BY <1>1, <1>2, <1>8 DEF RowsTraced, Members, Rest
<1>9. EnterCounts(q) => Stage(q) = "counts"
  BY DEF EnterCounts, At, Stage
<1>. QED
  BY <1>0, <1>1, <1>3, <1>5, <1>6, <1>7, <1>8, <1>9, EntryMoves DEF Roomy, Stage

\* What a restore leaves in its record.
LEMMA RestoreMoves ==
    ASSUME Base, NEW q \in Reqs, GroupOp(q), Is(q, {"restore"}), UNCHANGED dataVars
    PROVE  \/ req'[q].at = "done"
           \/ req[q].at = "begin" /\ ~Live(Group(q)) /\ req'[q].at = "list"
           \/ /\ req[q].at = "list" /\ req'[q].at = "counts"
              /\ req'[q].fresh = {p \in People : Status(Group(q), p) = "active"}
           \/ /\ req[q].at = "counts" /\ ~PerUserBroken(Group(q), req[q].fresh)
              /\ req'[q].at = "group" /\ Rest(q)
           \/ req[q].at = "group" /\ req'[q].at = "commit" /\ Rest(q)
<1>1. CASE \E answer \in Answers : Answer(q, answer)
  BY <1>1, Ended
<1>2. CASE BeginGroup(q) /\ ~(\E answer \in Answers : Answer(q, answer))
  <2>1. req[q].at = "begin" /\ ~Live(Group(q)) /\ Goes(q, To(q, "list", <<>>))
    BY <1>2 DEF BeginGroup, Answers, Is, At, Live
  <2>. QED
    BY <2>1, WentTo
<1>3. CASE RestoreList(q)
  <2>1. PICK who : who = {p \in People : Status(Group(q), p) = "active"}
    OBVIOUS
  <2>2. req[q].at = "list" /\ \E locks : Goes(q, [To(q, "counts", locks) EXCEPT !.fresh = who])
    BY <1>3, <2>1 DEF RestoreList, At
  <2>3. req'[q].at = "counts" /\ req'[q].fresh = who
    <3>1. PICK locks : req'[q] = [To(q, "counts", locks) EXCEPT !.fresh = who]
      BY <2>2, Went
    <3>2. Typed(q)
      BY DEF Base
    <3>. QED
      BY <3>1, <3>2 DEF To, Typed, Record
  <2>. QED
    BY <2>1, <2>2, <2>3
<1>4. CASE RestoreCounts(q) /\ ~(\E answer \in Answers : Answer(q, answer))
  <2>1. req[q].at = "counts" /\ ~PerUserBroken(Group(q), req[q].fresh) /\ \E locks : Goes(q, To(q, "group", locks))
    BY <1>4 DEF RestoreCounts, Answers, At
  <2>. QED
    BY <2>1, WentTo
<1>5. CASE GroupLocked(q) /\ ~(\E answer \in Answers : Answer(q, answer))
  <2>1. req[q].at = "group" /\ \E locks : Goes(q, To(q, "commit", locks))
    BY <1>5 DEF GroupLocked, Answers, At
  <2>. QED
    BY <2>1, WentTo
<1>6. CASE CommitGroup(q)
  BY <1>1, <1>6 DEF CommitGroup, Answers
<1>. QED
  BY <1>1, <1>2, <1>3, <1>4, <1>5, <1>6 DEF GroupOp

LEMMA ListTracedOwn ==
    ASSUME Sound, NEW q \in Reqs, GroupOp(q), UNCHANGED dataVars, Op(q)' = Op(q), ListTraced(q),
           Done({"redeem"}) => Done({"redeem"})', Restored(q) => Restored(q)'
    PROVE  ListTraced(q)'
<1>0. PICK g : g = Group(q)
  OBVIOUS
<1>1. Base /\ RowTypes /\ OneRow /\ Typed(q) /\ Is(q, GroupOps)
  BY StepKinds DEF Sound, Base, RowsHold
<1>2. /\ Stage(q)' = req'[q].at /\ Group(q)' = g /\ UNCHANGED member /\ (Live(g)' <=> Live(g))
      /\ (\A kinds : Is(q, kinds)' <=> Is(q, kinds)) /\ g \in Groups
  <2>1. Is(q, Entries \cup Changes \cup GroupOps \cup InviteOps)
    BY <1>1 DEF Is
  <2>. QED
    BY <1>0, <1>1, <2>1, Unmoved, Names
<1>3. SUFFICES ASSUME Is(q, {"restore"}), req'[q].at \notin {"begin", "done"}, ~Restored(q)'
               PROVE  /\ ~Live(g)
                      /\ req'[q].at # "list" => \A id \in InGroup(g) : member[id].status = "active" =>
                            member[id].person \in req'[q].fresh \/ Done({"redeem"})'
  BY <1>2 DEF ListTraced, InGroup
<1>4. CASE req[q].at = "begin" /\ ~Live(Group(q)) /\ req'[q].at = "list"
  BY <1>0, <1>4
<1>5. ASSUME req[q].at \notin {"begin", "done"}
      PROVE  /\ ~Live(g)
             /\ req[q].at # "list" => \A id \in InGroup(g) : member[id].status = "active" =>
                   member[id].person \in req[q].fresh \/ Done({"redeem"})
  BY <1>0, <1>3, <1>5 DEF ListTraced, Stage
<1>6. CASE /\ req[q].at = "list" /\ req'[q].at = "counts"
           /\ req'[q].fresh = {p \in People : Status(Group(q), p) = "active"}
  <2>1. ASSUME NEW id \in InGroup(g), member[id].status = "active"
        PROVE  member[id].person \in req'[q].fresh
    <3>1. member[id].person \in People
      BY <1>1, <2>1 DEF InGroup, RowTypes
    <3>2. Status(g, member[id].person) = "active"
      BY <1>1, <1>2, <2>1, ActiveIn
    <3>. QED
      BY <1>0, <1>6, <3>1, <3>2
  <2>. QED
    BY <1>5, <1>6, <2>1
<1>7. CASE req[q].at \in {"counts", "group"} /\ Rest(q)
  BY <1>5, <1>7 DEF Rest
<1>. QED
  BY <1>1, <1>3, <1>4, <1>6, <1>7, RestoreMoves

\* What a redeem leaves of its count.
LEMMA MergeMoves ==
    ASSUME Sound, NEW q \in Reqs, Link(q), Is(q, {"redeem"}), UNCHANGED dataVars, req'[q].at \in {"people", "commit"}
    PROVE  \/ /\ req[q].at = "counts" /\ req'[q].at = "people" /\ Rest(q)
              /\ req'[q].found = Overflows(Range(req[q].who))
           \/ /\ req[q].at = "people" /\ req'[q].at = "commit" /\ ~req[q].found
              /\ req'[q].who = <<Survivor(q), Attached(q)>>
           \/ req'[q].at = "commit" /\ req'[q].who[1] = req'[q].who[2]
<1>1. Base /\ Typed(q) /\ Is(q, LinkOps) /\ LinkStaged(q)
  BY DEF Sound, Base, Is, LinkOps, Staged
<1>2. ~(\E answer \in Answers : Answer(q, answer))
  BY <1>1, Ended
<1>3. ~BeginIssue(q) /\ ~CommitIssue(q) /\ ~BeginUnlink(q) /\ ~UnlinkPerson(q) /\ ~CommitUnlink(q)
  BY DEF BeginIssue, CommitIssue, BeginUnlink, UnlinkPerson, CommitUnlink, Is
<1>4. ~CommitRedeem(q)
  BY <1>2 DEF CommitRedeem, Answers
<1>5. CASE BeginRedeem(q) \/ RedeemIssuer(q)
  <2>1. req[q].at \in {"begin", "issuer"}
    BY <1>5 DEF BeginRedeem, RedeemIssuer, At
  <2>. QED
    BY <1>1, <1>4, <2>1, RedeemMoves
<1>6. CASE RedeemCode(q)
  <2>1. req[q].at = "code"
    BY <1>6 DEF RedeemCode, At
  <2>2. Rest(q) /\ (req'[q].at = "commit" => Cardinality(Range(req[q].who)) = 1) /\ req'[q].at \in {"commit", "counts"}
    BY <1>1, <1>4, <2>1, RedeemMoves
  <2>3. req[q].who[1] = req[q].who[2]
    <3>1. Len(req[q].who) = 2 /\ req[q].who \in Seq(People)
      BY <1>1, <2>1 DEF LinkStaged, Stage, Typed, Record
    <3>. QED
      BY <2>2, <3>1, TwoOf
  <2>. QED
    BY <2>2, <2>3 DEF Rest
<1>7. CASE RedeemCounts(q)
  <2>1. PICK found : found = Overflows(Range(req[q].who))
    OBVIOUS
  <2>2. req[q].at = "counts" /\ \E locks : Goes(q, [To(q, "people", locks) EXCEPT !.found = found])
    BY <1>7, <2>1 DEF RedeemCounts, At
  <2>3. req'[q].at = "people" /\ Rest(q) /\ req'[q].found = found
    <3>1. PICK locks : req'[q] = [To(q, "people", locks) EXCEPT !.found = found]
      BY <1>1, <2>2, Went
    <3>. QED
      BY <1>1, <3>1 DEF To, Typed, Record, Rest
  <2>. QED
    BY <2>1, <2>2, <2>3
<1>8. CASE RedeemPeople(q)
  <2>1. req[q].at = "people" /\ ~req[q].found
    BY <1>2, <1>8 DEF RedeemPeople, At, Answers
  <2>. QED
    BY <1>1, <1>4, <2>1, RedeemMoves
<1>. QED
  BY <1>3, <1>4, <1>5, <1>6, <1>7, <1>8 DEF Link

LEMMA EntryCounts ==
    ASSUME Sound, NEW q \in Reqs, Entry(q), UNCHANGED dataVars, Op(q)' = Op(q), CountChecks(q)
    PROVE  CountChecks(q)'
<1>0. PICK g, k : g = Group(q) /\ k = KindOf[g]
  OBVIOUS
<1>1. Base /\ OneRow /\ Typed(q) /\ Is(q, Entries) /\ ~Is(q, {"restore"}) /\ ~Is(q, {"redeem"})
  BY StepKinds DEF Sound, Base, RowsHold, Is, Entries
<1>2. /\ Stage(q)' = req'[q].at /\ Group(q)' = g /\ (\A kinds : Is(q, kinds)' <=> Is(q, kinds)) /\ g \in Groups
      /\ \A l, p : Tally(l, p)' = Tally(l, p)
  <2>1. Is(q, Entries \cup Changes \cup GroupOps \cup InviteOps)
    BY <1>1 DEF Is
  <2>. QED
    BY <1>0, <1>1, <2>1, Unmoved, Names DEF Tally, InGroup
<1>3. SUFFICES ASSUME req'[q].at \in Roomy, NEW p \in Range(req'[q].who)
               PROVE  Fits(k, Tally(k, p) \cup {g})
  BY <1>0, <1>1, <1>2 DEF CountChecks, Merging, Members, Fits
<1>4. Rest(q) /\ (req[q].at \in Roomy \/ ~PerUserBroken(g, Range(req[q].who)))
  BY <1>0, <1>1, <1>3, EntryMoves DEF Roomy, LimitBroken
<1>5. p \in Members(q)
  BY <1>3, <1>4 DEF Rest, Members
<1>6. CASE req[q].at \in Roomy
  BY <1>0, <1>1, <1>5, <1>6 DEF CountChecks, Stage
<1>7. CASE ~PerUserBroken(g, Range(req[q].who))
  BY <1>0, <1>1, <1>2, <1>5, <1>7, RoomForOne DEF Members
<1>. QED
  BY <1>4, <1>6, <1>7

LEMMA RestoreCounted ==
    ASSUME Sound, NEW q \in Reqs, GroupOp(q), UNCHANGED dataVars, Op(q)' = Op(q), CountChecks(q)
    PROVE  CountChecks(q)'
<1>0. PICK g, k : g = Group(q) /\ k = KindOf[g]
  OBVIOUS
<1>1. Base /\ OneRow /\ Typed(q) /\ Is(q, GroupOps) /\ ~Is(q, Entries) /\ ~Is(q, {"redeem"})
  BY StepKinds DEF Sound, Base, RowsHold, Is, Entries, GroupOps
<1>2. /\ Stage(q)' = req'[q].at /\ Group(q)' = g /\ (\A kinds : Is(q, kinds)' <=> Is(q, kinds)) /\ g \in Groups
      /\ \A l, p : Tally(l, p)' = Tally(l, p)
  <2>1. Is(q, Entries \cup Changes \cup GroupOps \cup InviteOps)
    BY <1>1 DEF Is
  <2>. QED
    BY <1>0, <1>1, <2>1, Unmoved, Names DEF Tally, InGroup
<1>3. SUFFICES ASSUME Is(q, {"restore"}), req'[q].at \in {"group", "commit"}, NEW p \in req'[q].fresh
               PROVE  Fits(k, Tally(k, p) \cup {g})
  BY <1>0, <1>1, <1>2 DEF CountChecks, Merging, Fits
<1>4. Rest(q) /\ (req[q].at = "group" \/ ~PerUserBroken(g, req[q].fresh))
  BY <1>0, <1>1, <1>3, RestoreMoves
<1>5. p \in req[q].fresh
  BY <1>3, <1>4 DEF Rest
<1>6. CASE req[q].at = "group"
  BY <1>0, <1>3, <1>5, <1>6 DEF CountChecks, Stage
<1>7. CASE ~PerUserBroken(g, req[q].fresh)
  BY <1>0, <1>1, <1>2, <1>5, <1>7, RoomForOne
<1>. QED
  BY <1>4, <1>6, <1>7

LEMMA MergeCounts ==
    ASSUME Sound, NEW q \in Reqs, Link(q), UNCHANGED dataVars, Op(q)' = Op(q), CountChecks(q)
    PROVE  CountChecks(q)'
<1>1. Base /\ OneRow /\ Typed(q) /\ Is(q, LinkOps) /\ ~Is(q, Entries) /\ ~Is(q, {"restore"}) /\ LinkStaged(q)
  BY StepKinds DEF Sound, Base, RowsHold, Is, Entries, LinkOps, Staged
<1>2. /\ Stage(q)' = req'[q].at /\ (\A kinds : Is(q, kinds)' <=> Is(q, kinds)) /\ \A l, p : Tally(l, p)' = Tally(l, p)
  BY Unmoved DEF Tally, InGroup
<1>3. SUFFICES ASSUME Is(q, {"redeem"}), NEW l \in Capped,
                      \/ req'[q].at = "people" /\ ~req'[q].found
                      \/ req'[q].at = "commit" /\ req'[q].who[1] # req'[q].who[2]
               PROVE  Fits(l, Tally(l, req'[q].who[1]) \cup Tally(l, req'[q].who[2]))
  BY <1>1, <1>2 DEF CountChecks, Merging, Fits
<1>4. CASE /\ req[q].at = "counts" /\ req'[q].at = "people" /\ Rest(q)
           /\ req'[q].found = Overflows(Range(req[q].who))
  <2>1. Range(req[q].who) = {req[q].who[1], req[q].who[2]}
    <3>1. Len(req[q].who) = 2 /\ req[q].who \in Seq(People)
      BY <1>1, <1>3, <1>4 DEF LinkStaged, Stage, Typed, Record
    <3>. QED
      BY <3>1, TwoOf
  <2>2. ~Overflows({req[q].who[1], req[q].who[2]})
    BY <1>3, <1>4, <2>1
  <2>3. ~(Cardinality(Tally(l, req[q].who[1]) \cup Tally(l, req[q].who[2])) > MaxPerUser[l])
    BY <1>1, <2>2, OverflowsIs
  <2>4. Tally(l, req[q].who[1]) \cup Tally(l, req[q].who[2]) \subseteq Groups
    BY DEF Tally
  <2>5. Fits(l, Tally(l, req[q].who[1]) \cup Tally(l, req[q].who[2]))
    BY <2>3, <2>4, FitsIs
  <2>. QED
    BY <1>4, <2>5 DEF Rest
<1>5. CASE /\ req[q].at = "people" /\ req'[q].at = "commit" /\ ~req[q].found
           /\ req'[q].who = <<Survivor(q), Attached(q)>>
  <2>1. Fits(l, Tally(l, req[q].who[1]) \cup Tally(l, req[q].who[2]))
    BY <1>3, <1>5 DEF CountChecks, Stage
  <2>2. \/ req'[q].who = <<req[q].who[1], req[q].who[2]>>
        \/ req'[q].who = <<req[q].who[2], req[q].who[1]>>
    BY <1>5 DEF Survivor, Attached
  <2>3. Tally(l, req'[q].who[1]) \cup Tally(l, req'[q].who[2]) = Tally(l, req[q].who[1]) \cup Tally(l, req[q].who[2])
    BY <2>2
  <2>. QED
    BY <2>1, <2>3
<1>. QED
  BY <1>3, <1>4, <1>5, MergeMoves

\* Only its family says anything of what a request counts.
LEMMA FamilyCounts ==
    ASSUME NEW q, Op(q)' = Op(q)
    PROVE  /\ ~Is(q, Entries) => RowsTraced(q)'
           /\ ~Is(q, GroupOps) => ListTraced(q)'
           /\ ~Is(q, Entries) /\ ~Is(q, GroupOps) /\ ~Is(q, LinkOps) => CountChecks(q)'
           /\ req'[q].at = "done" => RowsTraced(q)' /\ ListTraced(q)' /\ CountChecks(q)'
<1>1. \A kinds : Is(q, kinds)' <=> Is(q, kinds)
  BY DEF Is
<1>2. (~Is(q, GroupOps) => ~Is(q, {"restore"})) /\ (~Is(q, LinkOps) => ~Is(q, {"redeem"}))
  BY DEF Is, GroupOps, LinkOps
<1>3. ~Is(q, Entries) /\ ~Is(q, GroupOps) /\ ~Is(q, LinkOps) => CountChecks(q)'
  BY <1>1, <1>2 DEF CountChecks, Merging
<1>4. ~Is(q, Entries) => RowsTraced(q)'
  BY <1>1 DEF RowsTraced
<1>5. ~Is(q, GroupOps) => ListTraced(q)'
  BY <1>1, <1>2 DEF ListTraced
<1>6. req'[q].at = "done" => RowsTraced(q)' /\ ListTraced(q)' /\ CountChecks(q)'
  <2>1. SUFFICES ASSUME Stage(q)' = "done" PROVE RowsTraced(q)' /\ ListTraced(q)' /\ CountChecks(q)'
    BY DEF Stage
  <2>. QED
    BY <2>1 DEF RowsTraced, ListTraced, CountChecks, Merging, Roomy
<1>. QED
  BY <1>3, <1>4, <1>5, <1>6

LEMMA OwnCounts ==
    ASSUME Sound, NEW q \in Reqs, Step(q), RowsTraced(q), ListTraced(q)
    PROVE  RowsTraced(q)' /\ ListTraced(q)' /\ (CountChecks(q) => CountChecks(q)')
<1>1. Base /\ Op(q)' = Op(q)
  BY StepProgress DEF Sound, Progress
<1>2. (Done({"redeem"}) => Done({"redeem"})') /\ (Restored(q) => Restored(q)')
  <2>1. Group(q)' = Group(q)
    BY <1>1 DEF Group
  <2>. QED
    BY <1>1, <2>1, DoneKept, RestoredKept
<1>3. CASE Writes(q)
  BY <1>1, <1>3, WritesEnd, FamilyCounts
<1>4. CASE UNCHANGED dataVars
  <2>1. CASE Take(q)
    BY <1>1, <1>2, <1>4, <2>1, WentOn, CountsSame
  <2>2. CASE Victim(q)
    BY <1>1, <2>2, Ended, FamilyCounts DEF Victim
  <2>3. CASE Entry(q)
    <3>1. ~Is(q, GroupOps) /\ ~Is(q, LinkOps)
      BY <2>3, StepKinds, Families
    <3>. QED
      BY <1>1, <1>2, <1>4, <2>3, <3>1, FamilyCounts, RowsTracedOwn, EntryCounts
  <2>4. CASE GroupOp(q)
    <3>1. ~Is(q, Entries) /\ ~Is(q, LinkOps)
      BY <2>4, StepKinds, Families
    <3>. QED
      BY <1>1, <1>2, <1>4, <2>4, <3>1, FamilyCounts, ListTracedOwn, RestoreCounted
  <2>5. CASE Link(q)
    <3>1. ~Is(q, Entries) /\ ~Is(q, GroupOps)
      BY <2>5, StepKinds, Families
    <3>. QED
      BY <1>1, <1>4, <2>5, <3>1, FamilyCounts, MergeCounts
  <2>6. CASE Change(q) \/ InviteOp(q) \/ Friend(q)
    <3>1. ~Is(q, Entries) /\ ~Is(q, GroupOps) /\ ~Is(q, LinkOps)
      BY <2>6, StepKinds, Families DEF Friendly
    <3>. QED
      BY <1>1, <3>1, FamilyCounts
  <2>. QED
    BY <2>1, <2>2, <2>3, <2>4, <2>5, <2>6 DEF Step
<1>. QED
  BY <1>3, <1>4, Quiet

-----------------------------------------------------------------------------
(* The invariant of the counts                                             *)

LEMMA CountsStep ==
    ASSUME Sound, Traced, Counted, NEW q \in Reqs, Step(q)
    PROVE  Sound' /\ Traced' /\ Counted'
<1>1. Sound' /\ Base /\ RowsTraced(q) /\ ListTraced(q)
  BY SoundStep DEF Sound, Traced
<1>2. ASSUME NEW r \in Reqs
      PROVE  /\ RowsTraced(r)' /\ ListTraced(r)'
             /\ ~Outrun' /\ CountChecks(q) /\ CountChecks(r) => CountChecks(r)'
  <2>1. CASE r = q
    BY <1>1, <2>1, OwnCounts
  <2>2. CASE r # q
    <3>1. r \in Reqs \ {q} /\ req'[r] = req[r] /\ held'[r] = held[r] /\ RowsTraced(r) /\ ListTraced(r)
      BY <2>2, SoundStep DEF Progress, Turn, Traced
    <3>. QED
      BY <1>1, <3>1, RowsTracedKept, ListTracedKept, CountChecksKept
  <2>. QED
    BY <2>1, <2>2
<1>3. Counted'
  <2>1. SUFFICES ASSUME ~Outrun' PROVE CountFits' /\ \A r \in Reqs : CountChecks(r)'
    BY DEF Counted
  <2>2. CountFits /\ \A r \in Reqs : CountChecks(r)
    BY <1>1, <2>1, OutrunKept DEF Counted
  <2>3. CountFits'
    BY <1>1, <2>1, <2>2, CountFitsStep
  <2>. QED
    BY <1>2, <2>1, <2>2, <2>3
<1>. QED
  BY <1>1, <1>2, <1>3 DEF Traced

LEMMA CountsStutter ==
    ASSUME Sound, Traced, Counted, UNCHANGED vars
    PROVE  Sound' /\ Traced' /\ Counted'
<1>1. UNCHANGED dataVars /\ req' = req
  BY DEF vars, dataVars, rowVars, peopleVars
<1>2. /\ \A kinds : Done(kinds) => Done(kinds)'
      /\ \A r \in Reqs : Restored(r) => Restored(r)'
      /\ Outrun => Outrun'
  BY <1>1 DEF Done, Restored, Outrun, Is, Op, Group, Answered
<1>3. ASSUME NEW r \in Reqs
      PROVE  RowsTraced(r)' /\ ListTraced(r)' /\ (CountChecks(r) => CountChecks(r)')
  <2>1. Op(r)' = Op(r) /\ req'[r].at = req[r].at /\ Rest(r) /\ req'[r].found = req[r].found
    BY <1>1 DEF Op, Rest
  <2>. QED
    BY <1>1, <1>2, <2>1, CountsSame DEF Traced
<1>4. CountFits => CountFits'
  BY DEF vars, CountFits, Fits, Tally, InGroup, Live
<1>. QED
  BY <1>2, <1>3, <1>4, SoundSame DEF Traced, Counted

LEMMA CountsInit ==
    ASSUME Init
    PROVE  Sound /\ Traced /\ Counted
<1>1. Sound /\ OneRow
  BY SoundInit DEF Sound, RowsHold
<1>2. ASSUME NEW r \in Reqs
      PROVE  RowsTraced(r) /\ ListTraced(r) /\ CountChecks(r)
  <2>1. Stage(r) = "begin"
    <3>1. req[r] = Fresh(Op(r))
      BY <1>2 DEF Init
    <3>. QED
      BY <3>1 DEF Fresh, Stage
  <2>. QED
    BY <2>1 DEF RowsTraced, ListTraced, CountChecks, Merging, Roomy
<1>3. CountFits
  <2>1. SUFFICES ASSUME NEW p \in People, NEW k \in Capped PROVE Fits(k, Tally(k, p))
    BY DEF CountFits, Fits
  <2>2. ~Overflows({p})
    BY DEF Init, Consistent
  <2>3. ~(Cardinality(Tally(k, p)) > MaxPerUser[k])
    BY <1>1, <2>2, OverflowsIs
  <2>4. Tally(k, p) \subseteq Groups
    BY DEF Tally
  <2>. QED
    BY <2>3, <2>4, FitsIs
<1>. QED
  BY <1>1, <1>2, <1>3 DEF Traced, Counted

\* What a request counted for its people under the locks of their counts is still
\* so when it writes, unless a merge or a second restore got past it: the
\* invariant behind the limits per person.
THEOREM CountsHold == Spec => [](Sound /\ Traced /\ Counted)
<1>1. Init => Sound /\ Traced /\ Counted
  BY CountsInit
<1>2. Sound /\ Traced /\ Counted /\ [Next]_vars => (Sound /\ Traced /\ Counted)'
  <2>1. ASSUME Sound /\ Traced /\ Counted, NEW q \in Reqs, Step(q) PROVE (Sound /\ Traced /\ Counted)'
    BY <2>1, CountsStep
  <2>2. ASSUME Sound /\ Traced /\ Counted, UNCHANGED vars PROVE (Sound /\ Traced /\ Counted)'
    BY <2>2, CountsStutter
  <2>. QED
    BY <2>1, <2>2 DEF Next
<1>. QED
  BY <1>1, <1>2, PTL DEF Spec

\* Nobody is active in more live groups of a kind than the kind allows: creates,
\* joins, adds, accepts, imports, restores and links count under one lock per kind
\* and person.  Only a link beside an add, an import or a restore, and a group that
\* two requests restored, can get past it.
THEOREM PerUserFits == Spec => []WithinMaxPerUser
<1>1. Sound /\ Traced /\ Counted => WithinMaxPerUser
  <2>1. SUFFICES ASSUME Sound, Counted PROVE WithinMaxPerUser
    OBVIOUS
  <2>2. CASE Outrun
    BY <2>2 DEF Outrun, Restored, WithinMaxPerUser
  <2>3. CASE CountFits
    <3>1. OneRow
      BY <2>1 DEF Sound, RowsHold
    <3>2. ASSUME NEW p \in People, NEW k \in Capped
          PROVE  ~(Cardinality(Tally(k, p)) > MaxPerUser[k])
      <4>1. Tally(k, p) \subseteq Groups /\ Fits(k, Tally(k, p))
        BY <2>3 DEF CountFits, Tally, Capped
      <4>. QED
        BY <4>1, FitsIs
    <3>3. \A p \in People : ~Overflows({p})
      BY <3>1, <3>2, OverflowsIs
    <3>. QED
      BY <3>3 DEF WithinMaxPerUser
  <2>. QED
    BY <2>1, <2>2, <2>3 DEF Counted
<1>. QED
  BY <1>1, CountsHold, PTL

=============================================================================
